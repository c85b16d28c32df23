----------------------------- MODULE StratifyProofs -----------------------------
(***************************************************************************)
(* The strata of views are the strongly connected components of what views *)
(* read, in an order of evaluation, for any number of views, any edges and *)
(* any order in which they are followed.                                   *)
(*                                                                         *)
(* Below, a view is open while it is on the stack of components, active    *)
(* while it has a frame, and done when it has a stratum.                   *)
(***************************************************************************)
EXTENDS Stratify, FiniteSetTheorems, TLAPS

Active(v) == \E k \in DOMAIN frames : frames[k].view = v
Top == Last(frames).view

Frame == [view : View, left : SUBSET View]

(* The edges of v that a frame has still to follow.                        *)
Pending(v, w) == \E k \in DOMAIN frames : frames[k].view = v /\ w \in frames[k].left

(* An open view belongs to the last frame whose view came no later.        *)
BelongsTo(v, k) ==
    /\ index[frames[k].view] <= index[v]
    /\ \A j \in DOMAIN frames : k < j => index[v] < index[frames[j].view]

Typed ==
    /\ graph \in [View -> SUBSET View] /\ role \in Roles
    /\ index \in [View -> Nat] /\ lowlink \in [View -> Nat]
    /\ onStack \in [View -> BOOLEAN] /\ stratum \in [View -> Nat]
    /\ sccStack \in Seq(View)
    /\ frames \in Seq(Frame)
    /\ nextStratum \in Nat \ {0}

(* A view is not visited, open or done.                                    *)
ColorsOk ==
    \A v \in View :
        /\ index[v] = 0 => ~onStack[v] /\ stratum[v] = 0
        /\ index[v] # 0 => (onStack[v] <=> stratum[v] = 0)
        /\ stratum[v] < nextStratum

(* The stack of components holds the open views in the order of their      *)
(* visits.                                                                 *)
StackOk ==
    /\ \A i, j \in DOMAIN sccStack : i < j => index[sccStack[i]] < index[sccStack[j]]
    /\ \A v \in View : onStack[v] <=> \E i \in DOMAIN sccStack : sccStack[i] = v

(* So do the frames, and what they have to follow are edges.               *)
FramesOk ==
    /\ \A k \in DOMAIN frames : onStack[frames[k].view]
    /\ \A k \in DOMAIN frames : frames[k].left \subseteq Sources(frames[k].view)
    /\ \A j, k \in DOMAIN frames : j < k => index[frames[j].view] < index[frames[k].view]

(* An edge that was followed led to a view that was visited.               *)
FollowedOk ==
    \A v \in View : index[v] # 0 =>
        \A w \in Sources(v) : Pending(v, w) \/ index[w] # 0

(* An active view reads from every open view that came after it, and every *)
(* open view reads from an active one that did not.                        *)
ReachOk ==
    /\ \A k \in DOMAIN frames : \A w \in View :
          onStack[w] /\ index[frames[k].view] <= index[w] => w \in Reads(frames[k].view)
    /\ \A w \in View : onStack[w] =>
          \E k \in DOMAIN frames : /\ index[frames[k].view] <= index[w]
                                   /\ frames[k].view \in Reads(w)

(* The lowlink of an active view is the index of an open view it reads     *)
(* from, and no edge followed from what belongs to it leads to an open     *)
(* view before that.                                                       *)
LowlinkOk ==
    \A k \in DOMAIN frames :
        LET v == frames[k].view IN
        /\ lowlink[v] <= index[v]
        /\ \E u \in View : onStack[u] /\ index[u] = lowlink[v] /\ u \in Reads(v)
        /\ \A w \in View : onStack[w] /\ BelongsTo(w, k) =>
              \A u \in Sources(w) : onStack[u] /\ ~Pending(w, u) => lowlink[v] <= index[u]

(* The views of a stratum read from each other.                            *)
ClosedOk == \A v, w \in View : stratum[v] # 0 /\ stratum[v] = stratum[w] => w \in Reads(v)

WalkOk == Typed /\ ColorsOk /\ StackOk /\ FramesOk /\ FollowedOk /\ ReachOk /\ LowlinkOk
          /\ ClosedOk /\ SourcesFirst

(* At the end all is done.                                                 *)
DoneOk == stage = "done" => \A v \in View : stratum[v] # 0

Inv == WalkOk /\ DoneOk /\ StrataOrdered /\ RejectsUnstratified

-----------------------------------------------------------------------------
(* Reads is reflexive and transitive, and closed under sources.            *)
LEMMA ReadsFacts ==
    ASSUME StratifyParameters, graph \in [View -> SUBSET View], role \in Roles,
           NEW v \in View
    PROVE  /\ Sources(v) \subseteq View
           /\ v \in Reads(v)
           /\ Reads(v) \subseteq View /\ ClosedReads(Reads(v))
           /\ \A S \in SUBSET View : v \in S /\ ClosedReads(S) => Reads(v) \subseteq S
           /\ \A w \in Reads(v) : Reads(w) \subseteq Reads(v)
<1>1. \A w \in View : Sources(w) \subseteq View
  <2>1. role.negates \in SUBSET (View \X View)
    BY DEF StratifyParameters
  <2>2. ASSUME NEW w \in View, NEW n \in role.negates
        PROVE  n[2] \in View
    BY <2>1
  <2> QED
    BY <2>2 DEF Sources
<1>2. v \in Reads(v) /\ Reads(v) \subseteq View
  BY DEF Reads
<1>3. ASSUME NEW w \in Reads(v), NEW u \in Sources(w)
      PROVE  u \in Reads(v)
  <2>1. w \in View /\ u \in View
    BY <1>1, <1>2
  <2>2. ASSUME NEW S \in SUBSET View, v \in S, ClosedReads(S)
        PROVE  u \in S
    <3>1. w \in S
      BY <2>2 DEF Reads
    <3> QED
      BY <2>2, <3>1 DEF ClosedReads
  <2> QED
    BY <2>1, <2>2 DEF Reads
<1>4. ClosedReads(Reads(v))
  BY <1>3 DEF ClosedReads
<1>5. ASSUME NEW w \in Reads(v)
      PROVE  Reads(w) \subseteq Reads(v)
  BY <1>2, <1>4 DEF Reads
<1> QED
  BY <1>1, <1>2, <1>4, <1>5 DEF Reads

(* They are those of the program, which does not change.                   *)
LEMMA SameProgram ==
    ASSUME graph' = graph, role' = role
    PROVE  /\ \A v : Sources(v)' = Sources(v)
           /\ \A v : Reads(v)' = Reads(v)
<1>1. \A v : Sources(v)' = Sources(v)
  BY DEF Sources
<1>2. \A S : ClosedReads(S)' <=> ClosedReads(S)
  BY <1>1 DEF ClosedReads
<1> QED
  BY <1>1, <1>2 DEF Reads

(* An index that was not given yet.                                        *)
LEMMA NewIndex ==
    ASSUME StratifyParameters, index \in [View -> Nat], View # {}
    PROVE  NextIndex \in Nat \ {0} /\ \A v \in View : index[v] < NextIndex
<1> DEFINE Peak(k) == \E v \in 1..k : \A w \in 1..k : index[w] <= index[v]
           Bad == {k \in Nat : k \in 1..NumViews /\ ~Peak(k)}
<1>1. NumViews \in Nat /\ NumViews >= 1
  BY DEF StratifyParameters, View
<1>2. ASSUME Bad # {} PROVE FALSE
  <2>1. PICK k \in Bad : \A j \in Bad : ~(<<j, k>> \in OpToRel(<, Nat))
    <3>1. Bad \subseteq Nat
      OBVIOUS
    <3> HIDE DEF Bad
    <3> QED
      BY <1>2, <3>1, NatLessThanWellFounded, WFMin
  <2>2. \A j \in Bad : ~(j < k)
    BY <2>1 DEF OpToRel
  <2>3. k \in 1..NumViews /\ ~Peak(k)
    BY <2>1
  <2>4. CASE k = 1
    <3>1. \A w \in 1..1 : index[w] <= index[1]
      BY <1>1 DEF View
    <3> QED
      BY <2>3, <2>4, <3>1
  <2>5. CASE k # 1
    <3>1. k - 1 \in 1..NumViews /\ k - 1 < k /\ k - 1 \in Nat
      BY <1>1, <2>3, <2>5
    <3>2. Peak(k - 1)
      BY <2>2, <3>1
    <3>3. PICK v \in 1..(k - 1) : \A w \in 1..(k - 1) : index[w] <= index[v]
      BY <3>2
    <3>4. \A w \in 1..k : w \in View /\ index[w] \in Nat
      BY <1>1, <2>3 DEF View
    <3>5. v \in 1..k /\ k \in 1..k
      BY <2>3, <3>3
    <3>6. \A w \in 1..k : w \in 1..(k - 1) \/ w = k
      BY <2>3
    <3>7. CASE index[k] <= index[v]
      BY <2>3, <3>3, <3>5, <3>6, <3>7
    <3>8. CASE index[v] <= index[k]
      <4>1. \A w \in 1..k : index[w] <= index[k]
        BY <3>3, <3>4, <3>5, <3>6, <3>8
      <4> QED
        BY <2>3, <3>5, <4>1
    <3> QED
      BY <3>4, <3>5, <3>7, <3>8
  <2> QED
    BY <2>4, <2>5
<1>3. PICK v \in View : \A w \in View : index[w] <= index[v]
  <2>1. NumViews \notin Bad
    BY <1>2
  <2>2. Peak(NumViews)
    BY <1>1, <2>1
  <2> QED
    BY <2>2 DEF View
<1> DEFINE T == {index[w] : w \in View}
<1>4. \E x \in T : \A y \in T : x >= y
  <2>1. index[v] \in T /\ \A y \in T : index[v] >= y
    BY <1>3
  <2> QED
    BY <2>1
<1>5. Max(T) \in T /\ \A y \in T : Max(T) >= y
  <2> HIDE DEF T
  <2> QED
    BY <1>4 DEF Max
<1>6. NextIndex = Max(T) + 1
  BY DEF NextIndex
<1>7. Max(T) \in Nat
  BY <1>5
<1>8. \A w \in View : index[w] \in T /\ index[w] \in Nat
  OBVIOUS
<1> HIDE DEF T
<1> QED
  BY <1>5, <1>6, <1>7, <1>8

(* The minimum of two numbers. *)
LEMMA MinOfTwo ==
    ASSUME NEW a \in Nat, NEW b \in Nat
    PROVE  Min({a, b}) = IF a <= b THEN a ELSE b
<1> DEFINE T == {a, b}
           m == IF a <= b THEN a ELSE b
<1>1. m \in T /\ \A y \in T : m <= y
  OBVIOUS
<1>2. \A x \in T : (\A y \in T : x <= y) => x = m
  OBVIOUS
<1> HIDE DEF m
<1>3. Min(T) = CHOOSE x \in T : \A y \in T : x <= y
  BY DEF Min
<1> HIDE DEF T
<1>4. Min(T) \in T /\ \A y \in T : Min(T) <= y
  BY <1>1, <1>3
<1>5. Min(T) = m
  BY <1>2, <1>4
<1> QED
  BY <1>5 DEF m, T

(* A sequence without its last element, and with one more. *)
LEMMA FrontAndLast ==
    ASSUME NEW S, NEW s \in Seq(S), s # <<>>
    PROVE  /\ Len(s) \in Nat \ {0} /\ DOMAIN s = 1..Len(s)
           /\ \A k \in 1..Len(s) : s[k] \in S
           /\ Last(s) = s[Len(s)]
           /\ Front(s) \in Seq(S) /\ Len(Front(s)) = Len(s) - 1
           /\ DOMAIN Front(s) = 1..(Len(s) - 1)
           /\ \A k \in 1..(Len(s) - 1) : Front(s)[k] = s[k]
<1>1. Len(s) \in Nat \ {0} /\ DOMAIN s = 1..Len(s) /\ \A k \in 1..Len(s) : s[k] \in S
  OBVIOUS
<1>2. Last(s) = s[Len(s)] /\ Front(s) = SubSeq(s, 1, Len(s) - 1)
  BY DEF Last, Front
<1>3. /\ Len(SubSeq(s, 1, Len(s) - 1)) = Len(s) - 1
      /\ \A k \in 1..(Len(s) - 1) : SubSeq(s, 1, Len(s) - 1)[k] = s[k]
      /\ SubSeq(s, 1, Len(s) - 1) \in Seq(S)
      /\ DOMAIN SubSeq(s, 1, Len(s) - 1) = 1..(Len(s) - 1)
  BY <1>1
<1> QED
  BY <1>1, <1>2, <1>3

(* Append adds one element after the others.                               *)
LEMMA Appended ==
    ASSUME NEW S, NEW s \in Seq(S), NEW x \in S
    PROVE  /\ Append(s, x) \in Seq(S) /\ Len(Append(s, x)) = Len(s) + 1 /\ Len(s) \in Nat
           /\ DOMAIN s = 1..Len(s) /\ DOMAIN Append(s, x) = 1..(Len(s) + 1)
           /\ \A k \in 1..Len(s) : Append(s, x)[k] = s[k] /\ s[k] \in S
           /\ Append(s, x)[Len(s) + 1] = x
OBVIOUS

(* What a walk is made of. *)
LEMMA Parts ==
    ASSUME Typed
    PROVE  /\ Len(frames) \in Nat /\ DOMAIN frames = 1..Len(frames)
           /\ \A k \in 1..Len(frames) :
                 frames[k].view \in View /\ frames[k].left \in SUBSET View
           /\ Len(sccStack) \in Nat /\ DOMAIN sccStack = 1..Len(sccStack)
           /\ \A i \in 1..Len(sccStack) : sccStack[i] \in View
           /\ \A v \in View : /\ index[v] \in Nat /\ lowlink[v] \in Nat /\ stratum[v] \in Nat
                              /\ onStack[v] \in BOOLEAN
<1>1. frames \in Seq(Frame) /\ sccStack \in Seq(View)
  BY DEF Typed
<1>2. Len(frames) \in Nat /\ DOMAIN frames = 1..Len(frames)
      /\ \A k \in 1..Len(frames) : frames[k] \in Frame
  BY <1>1
<1>3. \A k \in 1..Len(frames) : frames[k].view \in View /\ frames[k].left \in SUBSET View
  BY <1>2 DEF Frame
<1>4. Len(sccStack) \in Nat /\ DOMAIN sccStack = 1..Len(sccStack)
      /\ \A i \in 1..Len(sccStack) : sccStack[i] \in View
  BY <1>1
<1>5. \A v \in View : /\ index[v] \in Nat /\ lowlink[v] \in Nat /\ stratum[v] \in Nat
                      /\ onStack[v] \in BOOLEAN
  BY DEF Typed
<1> QED
  BY <1>2, <1>3, <1>4, <1>5

-----------------------------------------------------------------------------
(* The first arrival at a view keeps the walk in order: the view is open   *)
(* and active, after all others.                                           *)
LEMMA VisitKeeps ==
    ASSUME StratifyParameters, WalkOk, NEW v \in View, index[v] = 0,
           NEW below \in Seq(Frame), Len(below) = Len(frames),
           \A k \in 1..Len(frames) :
              /\ below[k].view = frames[k].view /\ below[k].left \subseteq frames[k].left
              /\ \A w \in frames[k].left : w \in below[k].left \/ w = v,
           Len(frames) # 0 => v \in Sources(frames[Len(frames)].view),
           Visit(v, below), UNCHANGED <<graph, role, stratum, nextStratum>>
    PROVE  WalkOk'
<1> DEFINE d == Len(frames)
           N == NextIndex
<1>1. /\ Typed /\ ColorsOk /\ StackOk /\ FramesOk /\ FollowedOk /\ ReachOk /\ LowlinkOk
      /\ ClosedOk /\ SourcesFirst
  BY DEF WalkOk
<1>2. N \in Nat \ {0} /\ \A w \in View : index[w] < N
  BY <1>1, NewIndex DEF Typed
<1>3. /\ \A w : Sources(w)' = Sources(w)
      /\ \A w : Reads(w)' = Reads(w)
      /\ \A w \in View : /\ Sources(w) \subseteq View /\ w \in Reads(w) /\ ClosedReads(Reads(w))
                         /\ Reads(w) \subseteq View
                         /\ \A u \in Reads(w) : Reads(u) \subseteq Reads(w)
  BY <1>1, ReadsFacts, SameProgram DEF Typed
<1>4. d \in Nat /\ DOMAIN frames = 1..d
  BY <1>1, Parts
<1>5. /\ DOMAIN frames' = 1..(d + 1) /\ frames' \in Seq(Frame)
      /\ frames'[d + 1].view = v /\ frames'[d + 1].left = Sources(v)
      /\ \A k \in 1..d : frames'[k].view = frames[k].view /\ frames'[k].left = below[k].left
  <2>1. [view |-> v, left |-> Sources(v)] \in Frame
    BY <1>3 DEF Frame
  <2>2. frames' = Append(below, [view |-> v, left |-> Sources(v)])
    BY DEF Visit
  <2>3. /\ frames' \in Seq(Frame) /\ DOMAIN frames' = 1..(d + 1)
        /\ \A k \in 1..d : frames'[k] = below[k]
        /\ frames'[d + 1] = [view |-> v, left |-> Sources(v)]
    BY <2>1, <2>2, Appended
  <2> QED
    BY <2>3
<1>6. /\ index' = [index EXCEPT ![v] = N] /\ lowlink' = [lowlink EXCEPT ![v] = N]
      /\ onStack' = [onStack EXCEPT ![v] = TRUE]
  BY DEF Visit
<1>7. \A w \in View : /\ w # v => /\ index'[w] = index[w] /\ lowlink'[w] = lowlink[w]
                                  /\ onStack'[w] = onStack[w]
                      /\ index[w] \in Nat /\ lowlink[w] \in Nat /\ onStack[w] \in BOOLEAN
  BY <1>1, <1>6, Parts DEF Typed
<1>8. index'[v] = N /\ lowlink'[v] = N /\ onStack'[v] = TRUE
  BY <1>1, <1>6 DEF Typed
<1>9. \A w \in View : onStack[w] => w # v /\ index[w] # 0
  BY <1>1 DEF ColorsOk
<1>10. \A k \in 1..d : /\ frames[k].view \in View /\ frames[k].view # v
                       /\ onStack[frames[k].view]
                       /\ \A w \in frames[k].left : w \in frames'[k].left \/ w = v
                       /\ frames'[k].left \subseteq frames[k].left
  BY <1>1, <1>4, <1>5, <1>9, Parts DEF FramesOk
<1>11. \A w \in View, u \in View : Pending(w, u) /\ u # v => Pending(w, u)'
  <2> SUFFICES ASSUME NEW w \in View, NEW u \in View, u # v,
                      NEW k \in 1..d, frames[k].view = w, u \in frames[k].left
               PROVE  Pending(w, u)'
    BY <1>4 DEF Pending
  <2>1. k \in DOMAIN frames' /\ frames'[k].view = w /\ u \in frames'[k].left
    BY <1>4, <1>5, <1>10
  <2> QED
    BY <2>1 DEF Pending
<1>12. sccStack' \in Seq(View) /\ DOMAIN sccStack = 1..Len(sccStack) /\ Len(sccStack) \in Nat
       /\ DOMAIN sccStack' = 1..(Len(sccStack) + 1)
       /\ (\A i \in 1..Len(sccStack) : sccStack'[i] = sccStack[i] /\ sccStack[i] \in View)
       /\ sccStack'[Len(sccStack) + 1] = v
  BY <1>1, Appended DEF Typed, Visit
<1>13. Typed'
  <2>1. index' \in [View -> Nat] /\ lowlink' \in [View -> Nat] /\ onStack' \in [View -> BOOLEAN]
    BY <1>1, <1>2, <1>6 DEF Typed
  <2>2. /\ graph' \in [View -> SUBSET View] /\ role' \in Roles
        /\ stratum' \in [View -> Nat] /\ nextStratum' \in Nat \ {0}
    BY <1>1 DEF Typed
  <2> QED
    BY <1>5, <1>12, <2>1, <2>2 DEF Typed
<1>14. ColorsOk'
  BY <1>1, <1>2, <1>7, <1>8 DEF ColorsOk
<1>15. StackOk'
  <2>1. ASSUME NEW i \in DOMAIN sccStack', NEW j \in DOMAIN sccStack', i < j
        PROVE  index'[sccStack'[i]] < index'[sccStack'[j]]
    <3>1. i \in 1..Len(sccStack) /\ sccStack'[i] = sccStack[i] /\ sccStack[i] \in View
      BY <1>12, <2>1
    <3>2. onStack[sccStack[i]] /\ sccStack[i] # v
      BY <1>1, <1>9, <1>12, <3>1 DEF StackOk
    <3>3. CASE j \in 1..Len(sccStack)
      <4>1. sccStack'[j] = sccStack[j] /\ sccStack[j] \in View
        BY <1>12, <3>3
      <4>2. onStack[sccStack[j]] /\ sccStack[j] # v
        BY <1>1, <1>9, <1>12, <3>3, <4>1 DEF StackOk
      <4> QED
        BY <1>1, <1>7, <1>12, <2>1, <3>1, <3>2, <3>3, <4>1, <4>2 DEF StackOk
    <3>4. CASE j = Len(sccStack) + 1
      BY <1>2, <1>7, <1>8, <1>12, <3>1, <3>2, <3>4
    <3> QED
      BY <1>12, <3>3, <3>4
  <2>2. ASSUME NEW w \in View
        PROVE  onStack'[w] <=> \E i \in DOMAIN sccStack' : sccStack'[i] = w
    <3>1. CASE w = v
      BY <1>8, <1>12, <3>1
    <3>2. CASE w # v
      <4>1. onStack'[w] <=> \E i \in DOMAIN sccStack : sccStack[i] = w
        BY <1>1, <1>7, <3>2 DEF StackOk
      <4> QED
        BY <1>12, <3>2, <4>1
    <3> QED
      BY <3>1, <3>2
  <2> QED
    BY <2>1, <2>2 DEF StackOk
<1>16. FramesOk'
  <2>1. \A k \in DOMAIN frames' : onStack'[frames'[k].view]
    BY <1>4, <1>5, <1>7, <1>8, <1>10
  <2>2. ASSUME NEW k \in DOMAIN frames'
        PROVE  frames'[k].left \subseteq Sources(frames'[k].view)
    <3>1. CASE k \in 1..d
      BY <1>1, <1>3, <1>4, <1>5, <1>10, <3>1 DEF FramesOk
    <3>2. CASE k = d + 1
      BY <1>3, <1>5, <3>2
    <3> QED
      BY <1>4, <1>5, <3>1, <3>2
  <2>3. ASSUME NEW j \in DOMAIN frames', NEW k \in DOMAIN frames', j < k
        PROVE  index'[frames'[j].view] < index'[frames'[k].view]
    <3>1. j \in 1..d
      BY <1>4, <1>5, <2>3
    <3>2. CASE k \in 1..d
      BY <1>1, <1>4, <1>5, <1>7, <1>10, <2>3, <3>1, <3>2 DEF FramesOk
    <3>3. CASE k = d + 1
      BY <1>2, <1>5, <1>7, <1>8, <1>10, <3>1, <3>3
    <3> QED
      BY <1>4, <1>5, <3>2, <3>3
  <2> QED
    BY <1>3, <2>1, <2>2, <2>3 DEF FramesOk
<1>17. FollowedOk'
  <2> SUFFICES ASSUME NEW w \in View, index'[w] # 0, NEW u \in Sources(w)
               PROVE  Pending(w, u)' \/ index'[u] # 0
    BY <1>3 DEF FollowedOk
  <2>1. u \in View
    BY <1>3
  <2>2. CASE w = v
    <3>1. d + 1 \in DOMAIN frames' /\ frames'[d + 1].view = w /\ u \in frames'[d + 1].left
      BY <1>4, <1>5, <2>2
    <3> QED
      BY <3>1 DEF Pending
  <2>3. CASE w # v /\ u = v
    BY <1>2, <1>8, <2>3
  <2>4. CASE w # v /\ u # v
    <3>1. Pending(w, u) \/ index[u] # 0
      BY <1>1, <1>7, <2>4 DEF FollowedOk
    <3> QED
      BY <1>7, <1>11, <2>1, <2>4, <3>1
  <2> QED
    BY <2>2, <2>3, <2>4
<1>18. ReachOk'
  <2>1. ASSUME NEW k \in DOMAIN frames', NEW w \in View, onStack'[w],
               index'[frames'[k].view] <= index'[w]
        PROVE  w \in Reads(frames'[k].view)
    <3>1. CASE k = d + 1
      <4>1. w = v
        BY <1>2, <1>5, <1>7, <1>8, <2>1, <3>1
      <4> QED
        BY <1>3, <1>5, <3>1, <4>1
    <3>2. CASE k \in 1..d /\ w # v
      <4>1. onStack[w] /\ index[frames[k].view] <= index[w]
        BY <1>5, <1>7, <1>10, <2>1, <3>2
      <4>2. w \in Reads(frames[k].view)
        BY <1>1, <1>4, <3>2, <4>1 DEF ReachOk
      <4> QED
        BY <1>5, <3>2, <4>2
    <3>3. CASE k \in 1..d /\ w = v
      <4>1. d \in 1..d /\ (k < d \/ k = d)
        BY <1>4, <3>3
      <4>2. /\ onStack[frames[d].view] /\ frames[d].view \in View /\ frames[k].view \in View
            /\ v \in Sources(frames[d].view)
        BY <1>10, <3>3, <4>1
      <4>3. index[frames[k].view] <= index[frames[d].view]
        BY <1>1, <1>4, <1>7, <3>3, <4>1, <4>2 DEF FramesOk
      <4>4. frames[d].view \in Reads(frames[k].view)
        BY <1>1, <1>4, <3>3, <4>2, <4>3 DEF ReachOk
      <4>5. v \in Reads(frames[k].view)
        BY <1>3, <4>2, <4>4 DEF ClosedReads
      <4> QED
        BY <1>5, <3>3, <4>5
    <3> QED
      BY <1>4, <1>5, <3>1, <3>2, <3>3
  <2>2. ASSUME NEW w \in View, onStack'[w]
        PROVE  \E k \in DOMAIN frames' : /\ index'[frames'[k].view] <= index'[w]
                                         /\ frames'[k].view \in Reads(w)
    <3>1. CASE w = v
      <4>1. d + 1 \in DOMAIN frames' /\ index'[frames'[d + 1].view] <= index'[w]
            /\ frames'[d + 1].view \in Reads(w)
        BY <1>2, <1>3, <1>4, <1>5, <1>8, <3>1
      <4> QED
        BY <4>1
    <3>2. CASE w # v
      <4>1. PICK k \in 1..d : /\ index[frames[k].view] <= index[w]
                              /\ frames[k].view \in Reads(w)
        BY <1>1, <1>4, <1>7, <2>2, <3>2 DEF ReachOk
      <4>2. k \in DOMAIN frames' /\ index'[frames'[k].view] <= index'[w]
            /\ frames'[k].view \in Reads(w)
        BY <1>4, <1>5, <1>7, <1>10, <3>2, <4>1
      <4> QED
        BY <4>2
    <3> QED
      BY <3>1, <3>2
  <2> QED
    BY <1>3, <2>1, <2>2 DEF ReachOk
<1>19. LowlinkOk'
  <2> DEFINE x(k) == frames'[k].view
  <2>1. ASSUME NEW k \in DOMAIN frames'
        PROVE  /\ lowlink'[x(k)] <= index'[x(k)]
               /\ \E u \in View : onStack'[u] /\ index'[u] = lowlink'[x(k)] /\ u \in Reads(x(k))
    <3>1. CASE k = d + 1
      BY <1>2, <1>3, <1>5, <1>8, <3>1
    <3>2. CASE k \in 1..d
      <4>1. /\ lowlink[frames[k].view] <= index[frames[k].view]
            /\ \E u \in View : /\ onStack[u] /\ index[u] = lowlink[frames[k].view]
                               /\ u \in Reads(frames[k].view)
        BY <1>1, <1>4, <3>2 DEF LowlinkOk
      <4>2. PICK u \in View : /\ onStack[u] /\ index[u] = lowlink[frames[k].view]
                              /\ u \in Reads(frames[k].view)
        BY <4>1
      <4>3. onStack'[u] /\ index'[u] = index[u]
        BY <1>7, <1>9, <4>2
      <4>4. /\ x(k) = frames[k].view /\ lowlink'[x(k)] = lowlink[frames[k].view]
            /\ index'[x(k)] = index[frames[k].view]
        BY <1>5, <1>7, <1>10, <3>2
      <4> QED
        BY <4>1, <4>2, <4>3, <4>4
    <3> QED
      BY <1>4, <1>5, <3>1, <3>2
  <2>2. ASSUME NEW k \in DOMAIN frames', NEW w \in View, onStack'[w], BelongsTo(w, k)',
               NEW u \in Sources(w), onStack'[u], ~ Pending(w, u)'
        PROVE  lowlink'[x(k)] <= index'[u]
    <3>1. u \in View
      BY <1>3
    <3>2. /\ index'[frames'[k].view] <= index'[w]
          /\ \A j \in 1..(d + 1) : k < j => index'[w] < index'[frames'[j].view]
      BY <1>5, <2>2 DEF BelongsTo
    <3>3. CASE k = d + 1
      <4>1. w = v
        BY <1>2, <1>5, <1>7, <1>8, <3>2, <3>3
      <4>2. Pending(w, u)'
        <5>1. d + 1 \in DOMAIN frames' /\ frames'[d + 1].view = w /\ u \in frames'[d + 1].left
          BY <1>4, <1>5, <4>1
        <5> QED
          BY <5>1 DEF Pending
      <4> QED
        BY <2>2, <4>2
    <3>4. CASE k \in 1..d
      <4>1. w # v
        BY <1>2, <1>4, <1>5, <1>8, <3>2, <3>4
      <4>2. onStack[w] /\ BelongsTo(w, k)
        <5>1. index[frames[k].view] <= index[w]
          BY <1>5, <1>7, <1>10, <3>2, <3>4, <4>1
        <5>2. ASSUME NEW j \in 1..d, k < j PROVE index[w] < index[frames[j].view]
          BY <1>4, <1>5, <1>7, <1>10, <3>2, <4>1, <5>2
        <5> QED
          BY <1>4, <1>7, <2>2, <4>1, <5>1, <5>2 DEF BelongsTo
      <4>3. lowlink[frames[k].view] <= index[frames[k].view]
        BY <1>1, <1>4, <3>4 DEF LowlinkOk
      <4>4. CASE u = v
        BY <1>2, <1>5, <1>7, <1>8, <1>10, <3>4, <4>3, <4>4
      <4>5. CASE u # v
        <5>1. onStack[u] /\ ~ Pending(w, u)
          BY <1>7, <1>11, <2>2, <3>1, <4>5
        <5>2. lowlink[frames[k].view] <= index[u]
          BY <1>1, <1>4, <3>4, <4>2, <5>1 DEF LowlinkOk
        <5> QED
          BY <1>5, <1>7, <1>10, <3>1, <3>4, <4>5, <5>2
      <4> QED
        BY <4>4, <4>5
    <3> QED
      BY <1>4, <1>5, <3>3, <3>4
  <2> QED
    BY <1>3, <2>1, <2>2 DEF LowlinkOk
<1>20. ClosedOk' /\ SourcesFirst'
  BY <1>1, <1>3 DEF ClosedOk, SourcesFirst
<1> QED
  BY <1>13, <1>14, <1>15, <1>16, <1>17, <1>18, <1>19, <1>20 DEF WalkOk

(* The lowlink of one view is lowered to a number, those of others stay.   *)
LEMMA LoweredFacts ==
    ASSUME Typed, NEW v \in View, NEW n \in Nat
    PROVE  /\ Lowered(v, n) \in [View -> Nat]
           /\ \A w \in View : w # v => Lowered(v, n)[w] = lowlink[w]
           /\ Lowered(v, n)[v] = IF lowlink[v] <= n THEN lowlink[v] ELSE n
<1>1. lowlink \in [View -> Nat] /\ lowlink[v] \in Nat
  BY DEF Typed
<1>2. Min({lowlink[v], n}) = IF lowlink[v] <= n THEN lowlink[v] ELSE n
  BY <1>1, MinOfTwo
<1>3. Lowered(v, n) = [lowlink EXCEPT ![v] = IF lowlink[v] <= n THEN lowlink[v] ELSE n]
  BY <1>2 DEF Lowered
<1> QED
  BY <1>1, <1>3

(* The frames with one edge less to follow from the view in hand.          *)
LEMMA Trimmed ==
    ASSUME Typed, frames # <<>>, NEW w
    PROVE  LET below == Append(Front(frames), [view |-> Top,
                                               left |-> EdgesLeft(Last(frames).left, w)])
               d     == Len(frames)
           IN  /\ below \in Seq(Frame) /\ Len(below) = d /\ DOMAIN below = 1..d
               /\ \A k \in 1..d :
                     /\ below[k].view = frames[k].view
                     /\ below[k].left \subseteq frames[k].left
                     /\ \A u \in frames[k].left :
                           u \in below[k].left \/ (k = d /\ u = w)
<1> DEFINE d == Len(frames)
           G == [view |-> frames[d].view, left |-> frames[d].left \ {w}]
           F == Front(frames)
<1>1. /\ d \in Nat \ {0} /\ DOMAIN frames = 1..d
      /\ Last(frames) = frames[d] /\ Top = frames[d].view
      /\ F \in Seq(Frame) /\ Len(F) = d - 1
      /\ \A k \in 1..(d - 1) : F[k] = frames[k]
  BY FrontAndLast DEF Typed, Top
<1>2. \A k \in 1..d : frames[k].view \in View /\ frames[k].left \in SUBSET View
  BY Parts
<1>3. G \in Frame /\ G.view = frames[d].view /\ G.left = frames[d].left \ {w}
  BY <1>1, <1>2 DEF Frame
<1>4. [view |-> Top, left |-> EdgesLeft(Last(frames).left, w)] = G
  BY <1>1 DEF EdgesLeft
<1> HIDE DEF F, G, d
<1>5. /\ Append(F, G) \in Seq(Frame) /\ DOMAIN Append(F, G) = 1..(Len(F) + 1)
      /\ Len(Append(F, G)) = Len(F) + 1
      /\ \A k \in 1..Len(F) : Append(F, G)[k] = F[k]
      /\ Append(F, G)[Len(F) + 1] = G
  BY <1>1, <1>3, Appended
<1>6. Len(F) + 1 = d
  BY <1>1
<1>7. ASSUME NEW k \in 1..d
      PROVE  /\ Append(F, G)[k].view = frames[k].view
             /\ Append(F, G)[k].left \subseteq frames[k].left
             /\ \A u \in frames[k].left : u \in Append(F, G)[k].left \/ (k = d /\ u = w)
  <2>1. CASE k = d
    BY <1>3, <1>5, <1>6, <2>1
  <2>2. CASE k # d
    BY <1>1, <1>5, <1>6, <2>2
  <2> QED
    BY <2>1, <2>2
<1> QED
  BY <1>4, <1>5, <1>6, <1>7 DEF F, d

(* An edge to a view that was visited keeps the walk in order: only the    *)
(* view in hand has its lowlink lowered, to an open view it reads from.    *)
LEMMA FollowKeeps ==
    ASSUME StratifyParameters, WalkOk, frames # <<>>,
           NEW w \in Last(frames).left, index[w] # 0,
           lowlink' = IF LinksBack(w) THEN Lowered(Top, index[w]) ELSE lowlink,
           frames' = Append(Front(frames),
                            [view |-> Top, left |-> EdgesLeft(Last(frames).left, w)]),
           UNCHANGED <<index, onStack, sccStack, graph, role, stratum, nextStratum>>
    PROVE  WalkOk'
<1> DEFINE d == Len(frames)
           v == frames[d].view
<1>1. /\ Typed /\ ColorsOk /\ StackOk /\ FramesOk /\ FollowedOk /\ ReachOk /\ LowlinkOk
      /\ ClosedOk /\ SourcesFirst
  BY DEF WalkOk
<1>2. /\ \A u : Sources(u)' = Sources(u)
      /\ \A u : Reads(u)' = Reads(u)
      /\ \A u \in View : /\ Sources(u) \subseteq View /\ u \in Reads(u)
                         /\ ClosedReads(Reads(u)) /\ Reads(u) \subseteq View
  BY <1>1, ReadsFacts, SameProgram DEF Typed
<1>3. /\ d \in Nat \ {0} /\ DOMAIN frames = 1..d
      /\ Last(frames) = frames[d] /\ Top = v
      /\ Front(frames) \in Seq(Frame) /\ Len(Front(frames)) = d - 1
      /\ \A k \in 1..(d - 1) : Front(frames)[k] = frames[k]
  BY <1>1, FrontAndLast DEF Typed, Top
<1>4. \A k \in 1..d : frames[k].view \in View /\ frames[k].left \in SUBSET View
  BY <1>1, Parts
<1>5. v \in View /\ w \in frames[d].left /\ w \in View /\ v = frames[d].view
  BY <1>3, <1>4
<1> HIDE DEF d, v
<1>6. DOMAIN frames' = 1..d /\ frames' \in Seq(Frame)
  BY <1>1, <1>3, Trimmed
<1>7. \A k \in 1..d : /\ frames'[k].view = frames[k].view
                      /\ frames'[k].left \subseteq frames[k].left
                      /\ \A u \in frames[k].left : u \in frames'[k].left \/ (k = d /\ u = w)
  BY <1>1, <1>3, Trimmed
<1>8. \A x \in View, u \in View : Pending(x, u) => Pending(x, u)' \/ (x = v /\ u = w)
  <2> SUFFICES ASSUME NEW x \in View, NEW u \in View,
                      NEW k \in 1..d, frames[k].view = x, u \in frames[k].left,
                      ~ (x = v /\ u = w)
               PROVE  Pending(x, u)'
    BY <1>3 DEF Pending
  <2>1. k \in DOMAIN frames' /\ frames'[k].view = x
    BY <1>6, <1>7
  <2>2. u \in frames'[k].left
    <3>1. u \in frames'[k].left \/ (k = d /\ u = w)
      BY <1>7
    <3> QED
      BY <1>5, <3>1
  <2> QED
    BY <2>1, <2>2 DEF Pending
<1>9. \A x \in View : index[x] \in Nat /\ lowlink[x] \in Nat
  BY <1>1, Parts
<1>10. /\ lowlink' \in [View -> Nat]
       /\ \A x \in View : x # v => lowlink'[x] = lowlink[x]
       /\ lowlink'[v] \in Nat /\ lowlink'[v] <= lowlink[v]
       /\ onStack[w] => lowlink'[v] <= index[w]
       /\ lowlink'[v] = lowlink[v] \/ (lowlink'[v] = index[w] /\ onStack[w])
  <2>1. CASE onStack[w]
    <3>1. lowlink' = Lowered(v, index[w]) /\ index[w] \in Nat
      BY <1>3, <1>5, <1>9, <2>1 DEF LinksBack
    <3>2. /\ lowlink' \in [View -> Nat]
          /\ \A x \in View : x # v => lowlink'[x] = lowlink[x]
          /\ lowlink'[v] = IF lowlink[v] <= index[w] THEN lowlink[v] ELSE index[w]
      <4>1. /\ Lowered(v, index[w]) \in [View -> Nat]
            /\ \A x \in View : x # v => Lowered(v, index[w])[x] = lowlink[x]
            /\ Lowered(v, index[w])[v] = IF lowlink[v] <= index[w] THEN lowlink[v]
                                         ELSE index[w]
        BY <1>1, <1>5, <3>1, LoweredFacts
      <4> QED
        BY <3>1, <4>1
    <3> QED
      BY <1>5, <1>9, <2>1, <3>2
  <2>2. CASE ~ onStack[w]
    <3>1. lowlink' = lowlink /\ lowlink \in [View -> Nat]
      BY <1>1, <2>2 DEF LinksBack, Typed
    <3> QED
      BY <1>5, <1>9, <2>2, <3>1
  <2> QED
    BY <2>1, <2>2
<1>11. Typed'
  BY <1>1, <1>6, <1>10 DEF Typed
<1>12. ColorsOk' /\ StackOk'
  BY <1>1 DEF ColorsOk, StackOk
<1>13. FramesOk'
  <2>1. \A k \in DOMAIN frames' : onStack'[frames'[k].view]
    BY <1>1, <1>3, <1>6, <1>7 DEF FramesOk
  <2>2. \A k \in DOMAIN frames' : frames'[k].left \subseteq Sources(frames'[k].view)
    BY <1>1, <1>3, <1>6, <1>7 DEF FramesOk
  <2>3. ASSUME NEW j \in 1..d, NEW k \in 1..d, j < k
        PROVE  index'[frames'[j].view] < index'[frames'[k].view]
    <3>1. index[frames[j].view] < index[frames[k].view]
      BY <1>1, <1>3, <2>3 DEF FramesOk
    <3> QED
      BY <1>7, <3>1
  <2> QED
    BY <1>2, <1>6, <2>1, <2>2, <2>3 DEF FramesOk
<1>14. FollowedOk'
  <2> SUFFICES ASSUME NEW x \in View, index[x] # 0, NEW u \in Sources(x)
               PROVE  Pending(x, u)' \/ index[u] # 0
    BY <1>2 DEF FollowedOk
  <2>1. u \in View /\ (Pending(x, u) \/ index[u] # 0)
    BY <1>1, <1>2 DEF FollowedOk
  <2> QED
    BY <1>8, <2>1
<1>15. ReachOk'
  <2>1. ASSUME NEW k \in DOMAIN frames', NEW x \in View, onStack'[x],
               index'[frames'[k].view] <= index'[x]
        PROVE  x \in Reads(frames'[k].view)
    BY <1>1, <1>3, <1>6, <1>7, <2>1 DEF ReachOk
  <2>2. ASSUME NEW x \in View, onStack'[x]
        PROVE  \E k \in DOMAIN frames' : /\ index'[frames'[k].view] <= index'[x]
                                         /\ frames'[k].view \in Reads(x)
    BY <1>1, <1>3, <1>6, <1>7, <2>2 DEF ReachOk
  <2> QED
    BY <1>2, <2>1, <2>2 DEF ReachOk
<1>16. \A k \in 1..(d - 1) : frames[k].view # v /\ index[frames[k].view] < index[v]
  <2> TAKE k \in 1..(d - 1)
  <2>1. k \in 1..d /\ d \in 1..d /\ k < d
    BY <1>3
  <2>2. index[frames[k].view] < index[v]
    BY <1>1, <1>3, <1>5, <2>1 DEF FramesOk
  <2> QED
    BY <1>5, <1>9, <2>2
<1>17. LowlinkOk'
  <2>1. ASSUME NEW k \in 1..d
        PROVE  /\ lowlink'[frames[k].view] <= index[frames[k].view]
               /\ \E u \in View : /\ onStack[u] /\ index[u] = lowlink'[frames[k].view]
                                  /\ u \in Reads(frames[k].view)
    <3>1. /\ lowlink[frames[k].view] <= index[frames[k].view]
          /\ \E u \in View : /\ onStack[u] /\ index[u] = lowlink[frames[k].view]
                             /\ u \in Reads(frames[k].view)
      BY <1>1, <1>3 DEF LowlinkOk
    <3>2. CASE k # d
      BY <1>3, <1>4, <1>10, <1>16, <3>1, <3>2
    <3>3. CASE k = d
      <4>1. w \in Sources(v)
        BY <1>1, <1>3, <1>5 DEF FramesOk
      <4>2. w \in Reads(v)
        BY <1>2, <1>5, <4>1 DEF ClosedReads
      <4>3. lowlink'[v] <= index[v]
        <5>1. lowlink[v] <= index[v]
          BY <1>5, <3>1, <3>3
        <5> QED
          BY <1>5, <1>9, <1>10, <5>1
      <4>4. \E u \in View : onStack[u] /\ index[u] = lowlink'[v] /\ u \in Reads(v)
        BY <1>5, <1>10, <3>1, <3>3, <4>2
      <4> QED
        BY <1>5, <3>3, <4>3, <4>4
    <3> QED
      BY <3>2, <3>3
  <2>2. ASSUME NEW k \in 1..d, NEW x \in View, onStack[x], BelongsTo(x, k)',
               NEW u \in Sources(x), onStack[u], ~ Pending(x, u)'
        PROVE  lowlink'[frames[k].view] <= index[u]
    <3>1. u \in View
      BY <1>2
    <3>2. BelongsTo(x, k)
      BY <1>3, <1>6, <1>7, <2>2 DEF BelongsTo
    <3>3. CASE ~ Pending(x, u)
      <4>1. lowlink[frames[k].view] <= index[u]
        BY <1>1, <1>3, <2>2, <3>2, <3>3 DEF LowlinkOk
      <4>2. lowlink'[frames[k].view] <= lowlink[frames[k].view]
            /\ lowlink'[frames[k].view] \in Nat
        BY <1>4, <1>9, <1>10
      <4> QED
        BY <1>4, <1>9, <3>1, <4>1, <4>2
    <3>4. CASE Pending(x, u)
      <4>1. x = v /\ u = w
        BY <1>8, <2>2, <3>1, <3>4
      <4>2. k = d
        <5>1. k < d => index[v] < index[v]
          BY <1>3, <1>5, <3>2, <4>1 DEF BelongsTo
        <5> QED
          BY <1>3, <1>5, <1>9, <5>1
      <4> QED
        BY <1>5, <1>10, <2>2, <4>1, <4>2
    <3> QED
      BY <3>3, <3>4
  <2>3. \A k \in 1..d : frames'[k].view = frames[k].view
    BY <1>7
  <2>4. ASSUME NEW k \in DOMAIN frames'
        PROVE  /\ lowlink'[frames'[k].view] <= index'[frames'[k].view]
               /\ \E u \in View : /\ onStack'[u] /\ index'[u] = lowlink'[frames'[k].view]
                                  /\ u \in Reads(frames'[k].view)
    BY <1>6, <2>1, <2>3
  <2>5. ASSUME NEW k \in DOMAIN frames', NEW x \in View, onStack'[x], BelongsTo(x, k)',
               NEW u \in Sources(x), onStack'[u], ~ Pending(x, u)'
        PROVE  lowlink'[frames'[k].view] <= index'[u]
    BY <1>6, <2>2, <2>3, <2>5
  <2> QED
    BY <1>2, <2>4, <2>5 DEF LowlinkOk
<1>18. ClosedOk' /\ SourcesFirst'
  BY <1>1, <1>2 DEF ClosedOk, SourcesFirst
<1> QED
  BY <1>11, <1>12, <1>13, <1>14, <1>15, <1>17, <1>18 DEF WalkOk

-----------------------------------------------------------------------------
(* What a component pops: the open views that came no earlier than its     *)
(* root, which are the end of the stack.                                   *)
LEMMA Popped ==
    ASSUME Typed, StackOk, NEW v \in View, onStack[v]
    PROVE  /\ Component(v) = {w \in View : onStack[w] /\ index[v] <= index[w]}
           /\ \E m \in 0..Len(sccStack) :
                 /\ Len(sccStack) - Cardinality(Component(v)) = m
                 /\ \A i \in 1..Len(sccStack) :
                       i <= m <=> index[sccStack[i]] < index[v]
<1> DEFINE at == CHOOSE i \in DOMAIN sccStack : sccStack[i] = v
           n == Len(sccStack)
           C == {sccStack[i] : i \in at..n}
<1>1. /\ n \in Nat /\ DOMAIN sccStack = 1..n /\ \A i \in 1..n : sccStack[i] \in View
      /\ \A w \in View : index[w] \in Nat
  BY Parts
<1>2. at \in 1..n /\ sccStack[at] = v
  <2>1. \E i \in DOMAIN sccStack : sccStack[i] = v
    BY DEF StackOk
  <2> QED
    BY <1>1, <2>1
<1>3. Component(v) = C
  BY DEF Component
<1> HIDE DEF at, n, C
<1>4. \A i, j \in 1..n : i < j => index[sccStack[i]] < index[sccStack[j]]
  BY <1>1 DEF StackOk
<1>5. \A i \in 1..n : /\ i < at <=> index[sccStack[i]] < index[v]
                      /\ at <= i <=> index[v] <= index[sccStack[i]]
  BY <1>1, <1>2, <1>4
<1>6. \A w \in View : onStack[w] <=> \E i \in 1..n : sccStack[i] = w
  BY <1>1 DEF StackOk
<1>7. C = {w \in View : onStack[w] /\ index[v] <= index[w]}
  <2>1. ASSUME NEW w \in C
        PROVE  w \in View /\ onStack[w] /\ index[v] <= index[w]
    <3>1. PICK i \in at..n : sccStack[i] = w
      BY DEF C
    <3>2. i \in 1..n /\ at <= i
      BY <1>1, <1>2, <3>1
    <3> QED
      BY <1>1, <1>5, <1>6, <3>1, <3>2
  <2>2. ASSUME NEW w \in View, onStack[w], index[v] <= index[w]
        PROVE  w \in C
    <3>1. PICK i \in 1..n : sccStack[i] = w
      BY <1>6, <2>2
    <3>2. i \in at..n
      BY <1>1, <1>2, <1>5, <2>2, <3>1
    <3> QED
      BY <3>1, <3>2 DEF C
  <2> QED
    BY <2>1, <2>2
<1>8. Cardinality(C) = n - at + 1
  <2> DEFINE f == [i \in at..n |-> sccStack[i]]
  <2>1. \A i, j \in at..n : sccStack[i] = sccStack[j] => i = j
    <3> TAKE i, j \in at..n
    <3>1. i \in 1..n /\ j \in 1..n
      BY <1>1, <1>2
    <3>2. i < j \/ j < i \/ i = j
      BY <3>1
    <3> QED
      BY <1>1, <1>4, <3>1, <3>2
  <2>2. f \in Injection(at..n, C)
    BY <2>1 DEF C, Injection, IsInjective
  <2>3. f \in Surjection(at..n, C)
    BY <2>2 DEF C, Surjection, Injection
  <2>4. ExistsBijection(at..n, C)
    BY <2>2, <2>3 DEF ExistsBijection, Bijection
  <2>5. IsFiniteSet(at..n) /\ Cardinality(at..n) = n - at + 1
    BY <1>1, <1>2, FS_Interval
  <2> QED
    BY <2>4, <2>5, FS_Bijection
<1>9. /\ at - 1 \in 0..n /\ n - Cardinality(C) = at - 1
      /\ \A i \in 1..n : i <= at - 1 <=> i < at
  BY <1>1, <1>2, <1>8
<1> QED
  BY <1>3, <1>5, <1>7, <1>9 DEF n

(* A view with no edge left leaves the walk in order: what it reached is   *)
(* its parent's or, at the root of a component, is done.                   *)
LEMMA RetreatKeeps ==
    ASSUME StratifyParameters, WalkOk, frames # <<>>, Last(frames).left = {}, Retreat
    PROVE  WalkOk'
<1> DEFINE d == Len(frames)
           v == frames[d].view
           p == frames[d - 1].view
<1>1. /\ Typed /\ ColorsOk /\ StackOk /\ FramesOk /\ FollowedOk /\ ReachOk /\ LowlinkOk
      /\ ClosedOk /\ SourcesFirst
  BY DEF WalkOk
<1>2. /\ \A u : Sources(u)' = Sources(u)
      /\ \A u : Reads(u)' = Reads(u)
      /\ \A u \in View : /\ Sources(u) \subseteq View /\ u \in Reads(u)
                         /\ ClosedReads(Reads(u)) /\ Reads(u) \subseteq View
                         /\ \A w \in Reads(u) : Reads(w) \subseteq Reads(u)
  BY <1>1, ReadsFacts, SameProgram DEF Typed, Retreat
<1>3. /\ d \in Nat \ {0} /\ DOMAIN frames = 1..d
      /\ Last(frames) = frames[d] /\ Last(frames).view = v
      /\ Front(frames) \in Seq(Frame) /\ Len(Front(frames)) = d - 1
      /\ DOMAIN Front(frames) = 1..(d - 1)
      /\ \A k \in 1..(d - 1) : Front(frames)[k] = frames[k]
  BY <1>1, FrontAndLast DEF Typed
<1>4. /\ \A k \in 1..d : frames[k].view \in View /\ frames[k].left \in SUBSET View
      /\ \A x \in View : /\ index[x] \in Nat /\ lowlink[x] \in Nat /\ stratum[x] \in Nat
                         /\ onStack[x] \in BOOLEAN
  BY <1>1, Parts
<1>5. /\ v \in View /\ v = frames[d].view /\ frames[d].left = {} /\ d \in 1..d
      /\ onStack[v] /\ p = frames[d - 1].view
  BY <1>1, <1>3, <1>4 DEF FramesOk
<1>6. /\ frames' \in Seq(Frame) /\ DOMAIN frames' = 1..(d - 1)
      /\ \A k \in 1..(d - 1) : frames'[k] = frames[k]
  BY <1>3 DEF Retreat
<1>7. /\ d = 1 => lowlink' = lowlink
      /\ d # 1 => lowlink' = Lowered(p, lowlink[v])
  <2>1. lowlink' = PassUp(v, Front(frames))
    BY <1>3 DEF Retreat
  <2>2. CASE d = 1
    <3>1. Front(frames) = <<>>
      BY <1>3, <2>2
    <3> QED
      BY <2>1, <2>2, <3>1 DEF PassUp
  <2>3. CASE d # 1
    <3> DEFINE F == Front(frames)
    <3>1. F \in Seq(Frame) /\ Len(F) = d - 1 /\ d - 1 \in 1..(d - 1) /\ F[d - 1] = frames[d - 1]
      BY <1>3, <2>3
    <3>2. PassUp(v, F) = IF F = <<>> THEN lowlink ELSE Lowered(Last(F).view, lowlink[v])
      BY DEF PassUp
    <3> HIDE DEF F
    <3>3. F # <<>> /\ Last(F) = F[Len(F)]
      <4>1. F # <<>>
        <5>1. Len(<<>>) = 0 /\ Len(F) >= 1
          BY <1>3, <2>3, <3>1
        <5> QED
          BY <5>1
      <4> QED
        BY <3>1, <4>1, FrontAndLast
    <3>4. Last(F).view = p
      BY <3>1, <3>3
    <3> QED
      BY <2>1, <2>3, <3>2, <3>3, <3>4 DEF F
  <2> QED
    BY <2>2, <2>3
<1> HIDE DEF d, v, p
<1>8. \A j, k \in 1..d : j < k => index[frames[j].view] < index[frames[k].view]
  BY <1>1, <1>3 DEF FramesOk
<1>9. /\ \A k \in 1..(d - 1) : /\ k \in 1..d /\ frames[k].view \in View
                               /\ index[frames[k].view] < index[v] /\ frames[k].view # v
      /\ d # 1 => p \in View /\ d - 1 \in 1..(d - 1)
  BY <1>3, <1>4, <1>5, <1>8
<1>10. \A x \in View, u \in View : Pending(x, u) => Pending(x, u)'
  <2> SUFFICES ASSUME NEW x \in View, NEW u \in View,
                      NEW k \in 1..d, frames[k].view = x, u \in frames[k].left
               PROVE  Pending(x, u)'
    BY <1>3 DEF Pending
  <2>1. k \in 1..(d - 1)
    BY <1>3, <1>5
  <2>2. k \in DOMAIN frames' /\ frames'[k].view = x /\ u \in frames'[k].left
    BY <1>6, <2>1
  <2> QED
    BY <2>2 DEF Pending
<1>11. /\ lowlink' \in [View -> Nat]
       /\ \A k \in 1..(d - 1) : k # d - 1 => lowlink'[frames[k].view] = lowlink[frames[k].view]
       /\ d # 1 => lowlink'[p] = IF lowlink[p] <= lowlink[v] THEN lowlink[p] ELSE lowlink[v]
  <2>1. CASE d = 1
    <3>1. \A k \in 1..(d - 1) : FALSE
      BY <2>1
    <3> QED
      BY <1>1, <1>7, <2>1, <3>1 DEF Typed
  <2>2. CASE d # 1
    <3>1. /\ Lowered(p, lowlink[v]) \in [View -> Nat]
          /\ \A w \in View : w # p => Lowered(p, lowlink[v])[w] = lowlink[w]
          /\ Lowered(p, lowlink[v])[p] = IF lowlink[p] <= lowlink[v] THEN lowlink[p]
                                        ELSE lowlink[v]
      <4>1. p \in View /\ lowlink[v] \in Nat
        BY <1>4, <1>5, <1>9, <2>2
      <4> QED
        BY <1>1, <4>1, LoweredFacts
    <3>2. ASSUME NEW k \in 1..(d - 1), k # d - 1 PROVE frames[k].view # p
      <4>1. index[frames[k].view] < index[p]
        BY <1>3, <1>5, <1>8, <1>9, <2>2, <3>2
      <4> QED
        BY <1>4, <1>9, <2>2, <4>1
    <3> QED
      BY <1>7, <1>9, <2>2, <3>1, <3>2
  <2> QED
    BY <2>1, <2>2
<1>12. UNCHANGED <<graph, role, index>>
  BY DEF Retreat
<1>13. /\ lowlink[v] <= index[v]
       /\ \E u \in View : onStack[u] /\ index[u] = lowlink[v] /\ u \in Reads(v)
  BY <1>1, <1>3, <1>5 DEF LowlinkOk
<1>14. FollowedOk'
  <2> SUFFICES ASSUME NEW x \in View, index[x] # 0, NEW u \in Sources(x)
               PROVE  Pending(x, u)' \/ index[u] # 0
    BY <1>2, <1>12 DEF FollowedOk
  <2>1. u \in View /\ (Pending(x, u) \/ index[u] # 0)
    BY <1>1, <1>2 DEF FollowedOk
  <2> QED
    BY <1>10, <2>1
<1>15. CASE lowlink[v] # index[v]
  <2>1. UNCHANGED <<sccStack, onStack, stratum, nextStratum>>
    BY <1>3, <1>15 DEF Retreat
  <2>2. PICK u \in View : onStack[u] /\ index[u] = lowlink[v] /\ u \in Reads(v)
    BY <1>13
  <2>3. PICK e \in 1..d : index[frames[e].view] <= index[u] /\ frames[e].view \in Reads(u)
    BY <1>1, <1>3, <2>2 DEF ReachOk
  <2>4. index[u] < index[v] /\ e \in 1..(d - 1) /\ d # 1
    BY <1>3, <1>4, <1>5, <1>13, <1>15, <2>2, <2>3
  <2>5. frames[e].view \in Reads(v)
    BY <1>2, <1>5, <2>2, <2>3
  <2>6. Typed' /\ ColorsOk' /\ StackOk'
    BY <1>1, <1>6, <1>11, <1>12, <2>1 DEF Typed, ColorsOk, StackOk
  <2>7. FramesOk'
    <3>1. \A k \in DOMAIN frames' : /\ onStack'[frames'[k].view]
                                    /\ frames'[k].left \subseteq Sources(frames'[k].view)
      BY <1>1, <1>3, <1>6, <1>9, <2>1 DEF FramesOk
    <3>2. \A j, k \in DOMAIN frames' : j < k => index'[frames'[j].view] < index'[frames'[k].view]
      BY <1>6, <1>8, <1>9, <1>12
    <3> QED
      BY <1>2, <3>1, <3>2 DEF FramesOk
  <2>8. ReachOk'
    <3>1. ASSUME NEW k \in DOMAIN frames', NEW x \in View, onStack'[x],
                 index'[frames'[k].view] <= index'[x]
          PROVE  x \in Reads(frames'[k].view)
      BY <1>1, <1>3, <1>6, <1>9, <1>12, <2>1, <3>1 DEF ReachOk
    <3>2. ASSUME NEW x \in View, onStack'[x]
          PROVE  \E k \in DOMAIN frames' : /\ index'[frames'[k].view] <= index'[x]
                                           /\ frames'[k].view \in Reads(x)
      <4>1. PICK k \in 1..d : index[frames[k].view] <= index[x] /\ frames[k].view \in Reads(x)
        BY <1>1, <1>3, <2>1, <3>2 DEF ReachOk
      <4>2. CASE k # d
        BY <1>3, <1>6, <1>12, <4>1, <4>2
      <4>3. CASE k = d
        <5>1. frames[e].view \in Reads(x)
          BY <1>2, <1>5, <2>5, <4>1, <4>3
        <5>2. index[frames[e].view] <= index[x]
          BY <1>4, <1>5, <1>9, <2>3, <2>4, <4>1, <4>3
        <5> QED
          BY <1>6, <1>12, <2>4, <5>1, <5>2
      <4> QED
        BY <4>2, <4>3
    <3> QED
      BY <1>2, <3>1, <3>2 DEF ReachOk
  <2>9. LowlinkOk'
    <3>1. ASSUME NEW k \in 1..(d - 1)
          PROVE  /\ lowlink'[frames[k].view] <= index[frames[k].view]
                 /\ \E w \in View : /\ onStack[w] /\ index[w] = lowlink'[frames[k].view]
                                    /\ w \in Reads(frames[k].view)
      <4>1. /\ lowlink[frames[k].view] <= index[frames[k].view]
            /\ \E w \in View : /\ onStack[w] /\ index[w] = lowlink[frames[k].view]
                               /\ w \in Reads(frames[k].view)
        BY <1>1, <1>3, <1>9 DEF LowlinkOk
      <4>2. CASE lowlink'[frames[k].view] = lowlink[frames[k].view]
        BY <4>1, <4>2
      <4>3. CASE lowlink'[frames[k].view] # lowlink[frames[k].view]
        <5>1. k = d - 1 /\ frames[k].view = p
          BY <1>5, <1>11, <4>3
        <5>2. lowlink'[p] = lowlink[v] /\ lowlink[v] <= lowlink[p]
          BY <1>4, <1>5, <1>9, <1>11, <2>4, <4>3, <5>1
        <5>3. v \in Reads(p)
          <6>1. k \in DOMAIN frames /\ onStack[v] /\ index[frames[k].view] <= index[v]
            BY <1>3, <1>4, <1>5, <1>9
          <6> QED
            BY <1>1, <1>5, <5>1, <6>1 DEF ReachOk
        <5>4. u \in Reads(p)
          BY <1>2, <1>9, <2>2, <2>4, <5>3
        <5>5. lowlink[v] <= index[p]
          BY <1>4, <1>5, <1>9, <2>4, <4>1, <5>1, <5>2
        <5> QED
          BY <2>2, <5>1, <5>2, <5>4, <5>5
      <4> QED
        BY <4>2, <4>3
    <3>2. ASSUME NEW k \in 1..(d - 1), NEW x \in View, onStack[x], BelongsTo(x, k)',
                 NEW w \in Sources(x), onStack[w], ~ Pending(x, w)'
          PROVE  lowlink'[frames[k].view] <= index[w]
      <4>1. w \in View /\ ~ Pending(x, w)
        BY <1>2, <1>10, <3>2
      <4>2. /\ index[frames[k].view] <= index[x]
            /\ \A j \in 1..(d - 1) : k < j => index[x] < index[frames[j].view]
        BY <1>6, <1>12, <3>2 DEF BelongsTo
      <4>3. CASE index[v] <= index[x] /\ k = d - 1
        <5>1. BelongsTo(x, d)
          <6>1. \A j \in 1..d : ~(d < j)
            BY <1>3
          <6> QED
            BY <1>3, <1>5, <4>3, <6>1 DEF BelongsTo
        <5>2. lowlink[v] <= index[w]
          BY <1>1, <1>3, <1>5, <3>2, <4>1, <5>1 DEF LowlinkOk
        <5>3. lowlink'[p] <= lowlink[v]
          BY <1>4, <1>5, <1>9, <1>11, <2>4
        <5>4. lowlink'[p] \in Nat /\ frames[k].view = p
          BY <1>5, <1>9, <1>11, <2>4, <4>3
        <5> QED
          BY <1>4, <1>5, <4>1, <5>2, <5>3, <5>4
      <4>4. CASE ~ (index[v] <= index[x] /\ k = d - 1)
        <5>1. index[x] < index[v]
          <6>1. CASE k = d - 1
            BY <1>4, <1>5, <4>4, <6>1
          <6>2. CASE k # d - 1
            <7>1. d - 1 \in 1..(d - 1) /\ k < d - 1
              BY <1>3, <2>4, <6>2
            <7> QED
              BY <1>4, <1>5, <1>9, <4>2, <7>1
          <6> QED
            BY <6>1, <6>2
        <5>2. BelongsTo(x, k)
          <6>1. ASSUME NEW j \in 1..d, k < j PROVE index[x] < index[frames[j].view]
            BY <1>3, <1>5, <4>2, <5>1, <6>1
          <6> QED
            BY <1>3, <4>2, <6>1 DEF BelongsTo
        <5>3. lowlink[frames[k].view] <= index[w]
          BY <1>1, <1>3, <1>9, <3>2, <4>1, <5>2 DEF LowlinkOk
        <5>4. lowlink'[frames[k].view] <= lowlink[frames[k].view]
              /\ lowlink'[frames[k].view] \in Nat
          <6>1. CASE k = d - 1
            BY <1>4, <1>5, <1>9, <1>11, <2>4, <6>1
          <6>2. CASE k # d - 1
            BY <1>4, <1>9, <1>11, <6>2
          <6> QED
            BY <6>1, <6>2
        <5> QED
          BY <1>4, <1>9, <4>1, <5>3, <5>4
      <4> QED
        BY <4>3, <4>4
    <3> QED
      BY <1>2, <1>6, <1>12, <2>1, <3>1, <3>2 DEF LowlinkOk
  <2>10. ClosedOk' /\ SourcesFirst'
    BY <1>1, <1>2, <2>1 DEF ClosedOk, SourcesFirst
  <2> QED
    BY <1>14, <2>6, <2>7, <2>8, <2>9, <2>10 DEF WalkOk
<1>16. CASE lowlink[v] = index[v]
  <2> DEFINE C == Component(v)
             n == Len(sccStack)
             m == n - Cardinality(C)
  <2>1. /\ sccStack' = SubSeq(sccStack, 1, m)
        /\ onStack' = [w \in View |-> onStack[w] /\ w \notin C]
        /\ stratum' = [w \in View |-> IF w \in C THEN nextStratum ELSE stratum[w]]
        /\ nextStratum' = nextStratum + 1
    BY <1>3, <1>16 DEF Retreat
  <2>2. /\ C = {w \in View : onStack[w] /\ index[v] <= index[w]}
        /\ m \in 0..n /\ \A i \in 1..n : i <= m <=> index[sccStack[i]] < index[v]
    BY <1>1, <1>5, Popped
  <2> HIDE DEF C, m
  <2>3. /\ \A w \in View : onStack'[w] <=> onStack[w] /\ index[w] < index[v]
        /\ \A w \in View : w \in C <=> onStack[w] /\ index[v] <= index[w]
    <3>1. \A w \in View : w \in C <=> onStack[w] /\ index[v] <= index[w]
      BY <2>2
    <3>2. \A w \in View : onStack'[w] <=> onStack[w] /\ w \notin C
      BY <2>1
    <3>3. \A w \in View : index[v] <= index[w] <=> ~(index[w] < index[v])
      BY <1>4, <1>5
    <3> QED
      BY <3>1, <3>2, <3>3
  <2>4. nextStratum \in Nat \ {0} /\ \A w \in View : onStack[w] => stratum[w] = 0 /\ index[w] # 0
    BY <1>1 DEF Typed, ColorsOk
  <2>5. \A w \in C : w \in View /\ w \in Reads(v) /\ v \in Reads(w)
    <3> TAKE w \in C
    <3>1. w \in View /\ onStack[w] /\ index[v] <= index[w]
      BY <2>2
    <3>2. w \in Reads(v)
      BY <1>1, <1>3, <1>5, <3>1 DEF ReachOk
    <3>3. PICK k \in 1..d : index[frames[k].view] <= index[w] /\ frames[k].view \in Reads(w)
      BY <1>1, <1>3, <3>1 DEF ReachOk
    <3>4. CASE k = d
      BY <1>5, <3>1, <3>2, <3>3, <3>4
    <3>5. CASE k # d
      <4>1. k \in 1..(d - 1) /\ index[frames[k].view] <= index[v]
        BY <1>3, <1>4, <1>5, <1>9, <3>5
      <4>2. v \in Reads(frames[k].view)
        BY <1>1, <1>3, <1>5, <4>1 DEF ReachOk
      <4> QED
        BY <1>2, <3>1, <3>2, <3>3, <4>2
    <3> QED
      BY <3>4, <3>5
  <2>6. \A w \in C : \A u \in Sources(w) : u \in C \/ (stratum[u] # 0 /\ ~ onStack[u])
    <3> TAKE w \in C
    <3> TAKE u \in Sources(w)
    <3>1. w \in View /\ onStack[w] /\ index[v] <= index[w] /\ u \in View
      BY <1>2, <2>2
    <3>2. ~ Pending(w, u)
      <4> SUFFICES ASSUME NEW k \in 1..d, frames[k].view = w, u \in frames[k].left
                   PROVE  FALSE
        BY <1>3 DEF Pending
      <4>1. CASE k = d
        BY <1>5, <4>1
      <4>2. CASE k # d
        <5>1. k \in 1..(d - 1)
          BY <1>3, <4>2
        <5> QED
          BY <1>4, <1>5, <1>9, <3>1, <5>1
      <4> QED
        BY <4>1, <4>2
    <3>3. index[u] # 0
      BY <1>1, <2>4, <3>1, <3>2 DEF FollowedOk
    <3>4. CASE onStack[u]
      <4>1. BelongsTo(w, d)
        <5>1. \A j \in 1..d : ~(d < j)
          BY <1>3
        <5> QED
          BY <1>3, <1>5, <3>1, <5>1 DEF BelongsTo
      <4>2. lowlink[v] <= index[u]
        BY <1>1, <1>3, <1>5, <3>1, <3>2, <3>4, <4>1 DEF LowlinkOk
      <4> QED
        BY <1>16, <2>3, <3>1, <3>4, <4>2
    <3>5. CASE ~ onStack[u]
      BY <1>1, <3>1, <3>3, <3>5 DEF ColorsOk
    <3> QED
      BY <3>4, <3>5
  <2>7. /\ DOMAIN sccStack = 1..n /\ n \in Nat
        /\ sccStack' \in Seq(View) /\ DOMAIN sccStack' = 1..m
        /\ \A i \in 1..m : i \in 1..n /\ sccStack'[i] = sccStack[i] /\ sccStack[i] \in View
    <3>1. sccStack \in Seq(View) /\ n \in Nat /\ DOMAIN sccStack = 1..n
      BY <1>1 DEF Typed
    <3>2. m \in Nat /\ m <= n
      BY <2>2, <3>1
    <3>3. /\ SubSeq(sccStack, 1, m) \in Seq(View) /\ Len(SubSeq(sccStack, 1, m)) = m
          /\ \A i \in 1..m : SubSeq(sccStack, 1, m)[i] = sccStack[i]
      BY <3>1, <3>2
    <3> QED
      BY <2>1, <3>1, <3>2, <3>3
  <2>8. Typed'
    <3>1. onStack' \in [View -> BOOLEAN]
      BY <1>4, <2>1
    <3>2. stratum' \in [View -> Nat] /\ nextStratum' \in Nat \ {0}
      BY <1>4, <2>1, <2>4
    <3> QED
      BY <1>1, <1>6, <1>11, <1>12, <2>7, <3>1, <3>2 DEF Typed
  <2>9. \A w \in View : /\ w \in C => stratum'[w] = nextStratum
                        /\ w \notin C => stratum'[w] = stratum[w]
                        /\ stratum[w] < nextStratum
    BY <1>1, <2>1 DEF ColorsOk
  <2>10. ColorsOk'
    <3> SUFFICES ASSUME NEW w \in View
                 PROVE  /\ index'[w] = 0 => ~ onStack'[w] /\ stratum'[w] = 0
                        /\ index'[w] # 0 => (onStack'[w] <=> stratum'[w] = 0)
                        /\ stratum'[w] < nextStratum'
      BY DEF ColorsOk
    <3>1. /\ index[w] = 0 => ~ onStack[w] /\ stratum[w] = 0
          /\ index[w] # 0 => (onStack[w] <=> stratum[w] = 0)
      BY <1>1 DEF ColorsOk
    <3>2. CASE w \in C
      BY <1>4, <1>5, <1>12, <2>1, <2>3, <2>4, <2>9, <3>1, <3>2
    <3>3. CASE w \notin C
      BY <1>4, <1>5, <1>12, <2>1, <2>3, <2>4, <2>9, <3>1, <3>3
    <3> QED
      BY <3>2, <3>3
  <2>11. StackOk'
    <3>1. \A i, j \in DOMAIN sccStack' : i < j => index'[sccStack'[i]] < index'[sccStack'[j]]
      BY <1>1, <1>12, <2>7 DEF StackOk
    <3>2. ASSUME NEW w \in View
          PROVE  onStack'[w] <=> \E i \in DOMAIN sccStack' : sccStack'[i] = w
      <4>1. onStack[w] <=> \E i \in 1..n : sccStack[i] = w
        BY <1>1, <2>7 DEF StackOk
      <4> QED
        BY <2>2, <2>3, <2>7, <4>1
    <3> QED
      BY <3>1, <3>2 DEF StackOk
  <2>12. FramesOk'
    <3>1. \A k \in DOMAIN frames' : /\ onStack'[frames'[k].view]
                                    /\ frames'[k].left \subseteq Sources(frames'[k].view)
      BY <1>1, <1>3, <1>6, <1>9, <2>3 DEF FramesOk
    <3>2. \A j, k \in DOMAIN frames' : j < k => index'[frames'[j].view] < index'[frames'[k].view]
      BY <1>6, <1>8, <1>9, <1>12
    <3> QED
      BY <1>2, <3>1, <3>2 DEF FramesOk
  <2>13. ReachOk'
    <3>1. ASSUME NEW k \in DOMAIN frames', NEW x \in View, onStack'[x],
                 index'[frames'[k].view] <= index'[x]
          PROVE  x \in Reads(frames'[k].view)
      BY <1>1, <1>3, <1>6, <1>9, <1>12, <2>3, <3>1 DEF ReachOk
    <3>2. ASSUME NEW x \in View, onStack'[x]
          PROVE  \E k \in DOMAIN frames' : /\ index'[frames'[k].view] <= index'[x]
                                           /\ frames'[k].view \in Reads(x)
      <4>1. onStack[x] /\ index[x] < index[v]
        BY <2>3, <3>2
      <4>2. PICK k \in 1..d : index[frames[k].view] <= index[x] /\ frames[k].view \in Reads(x)
        BY <1>1, <1>3, <4>1 DEF ReachOk
      <4>3. k \in 1..(d - 1)
        BY <1>3, <1>4, <1>5, <4>1, <4>2
      <4> QED
        BY <1>6, <1>12, <4>2, <4>3
    <3> QED
      BY <1>2, <3>1, <3>2 DEF ReachOk
  <2>14. \A k \in 1..(d - 1) : lowlink'[frames[k].view] = lowlink[frames[k].view]
    <3> TAKE k \in 1..(d - 1)
    <3>1. CASE k # d - 1
      BY <1>11, <3>1
    <3>2. CASE k = d - 1
      <4>1. lowlink[p] <= index[p] /\ index[p] < index[v] /\ p \in View /\ d # 1
        BY <1>1, <1>3, <1>5, <1>9, <3>2 DEF LowlinkOk
      <4>2. lowlink'[p] = lowlink[p]
        BY <1>4, <1>5, <1>11, <1>16, <4>1
      <4> QED
        BY <1>5, <3>2, <4>2
    <3> QED
      BY <3>1, <3>2
  <2>15. LowlinkOk'
    <3>1. ASSUME NEW k \in 1..(d - 1)
          PROVE  /\ lowlink[frames[k].view] <= index[frames[k].view]
                 /\ \E w \in View : /\ onStack'[w] /\ index[w] = lowlink[frames[k].view]
                                    /\ w \in Reads(frames[k].view)
      <4>1. lowlink[frames[k].view] <= index[frames[k].view]
        BY <1>1, <1>3, <1>9 DEF LowlinkOk
      <4>2. PICK w \in View : /\ onStack[w] /\ index[w] = lowlink[frames[k].view]
                              /\ w \in Reads(frames[k].view)
        BY <1>1, <1>3, <1>9 DEF LowlinkOk
      <4>3. index[w] < index[v]
        BY <1>4, <1>5, <1>9, <4>1, <4>2
      <4> QED
        BY <2>3, <4>1, <4>2, <4>3
    <3>2. ASSUME NEW k \in 1..(d - 1), NEW x \in View, onStack'[x], BelongsTo(x, k)',
                 NEW w \in Sources(x), onStack'[w], ~ Pending(x, w)'
          PROVE  lowlink[frames[k].view] <= index[w]
      <4>1. w \in View /\ ~ Pending(x, w) /\ onStack[w] /\ onStack[x] /\ index[x] < index[v]
        BY <1>2, <1>10, <2>3, <3>2
      <4>2. BelongsTo(x, k)
        <5>1. /\ index[frames[k].view] <= index[x]
              /\ \A j \in 1..(d - 1) : k < j => index[x] < index[frames[j].view]
          BY <1>6, <1>12, <3>2 DEF BelongsTo
        <5>2. ASSUME NEW j \in 1..d, k < j PROVE index[x] < index[frames[j].view]
          BY <1>3, <1>5, <4>1, <5>1, <5>2
        <5> QED
          BY <1>3, <5>1, <5>2 DEF BelongsTo
      <4> QED
        BY <1>1, <1>3, <1>9, <3>2, <4>1, <4>2 DEF LowlinkOk
    <3> QED
      BY <1>2, <1>6, <1>12, <2>14, <3>1, <3>2 DEF LowlinkOk
  <2>16. ClosedOk'
    <3> SUFFICES ASSUME NEW x \in View, NEW y \in View, stratum'[x] # 0, stratum'[x] = stratum'[y]
                 PROVE  y \in Reads(x)
      BY <1>2 DEF ClosedOk
    <3>1. CASE x \in C /\ y \in C
      BY <1>2, <2>5, <3>1
    <3>2. CASE x \notin C /\ y \notin C
      BY <1>1, <2>9, <3>2 DEF ClosedOk
    <3>3. CASE ~(x \in C <=> y \in C)
      BY <1>4, <2>4, <2>9, <3>3
    <3> QED
      BY <3>1, <3>2, <3>3
  <2>17. SourcesFirst'
    <3> SUFFICES ASSUME NEW x \in View, stratum'[x] # 0, NEW u \in Sources(x)
                 PROVE  stratum'[u] \in 1..stratum'[x]
      BY <1>2 DEF SourcesFirst
    <3>1. u \in View
      BY <1>2
    <3>2. CASE x \in C
      <4>1. u \in C \/ (stratum[u] # 0 /\ ~ onStack[u])
        BY <2>6, <3>2
      <4> QED
        BY <1>4, <2>3, <2>4, <2>9, <3>1, <3>2, <4>1
    <3>3. CASE x \notin C
      <4>1. stratum[x] # 0 /\ stratum'[x] = stratum[x] /\ stratum[u] \in 1..stratum[x]
        BY <1>1, <2>9, <3>3 DEF SourcesFirst
      <4>2. stratum[u] # 0
        BY <1>4, <3>1, <4>1
      <4>3. u \notin C
        BY <2>3, <2>4, <3>1, <4>2
      <4> QED
        BY <2>9, <3>1, <4>1, <4>3
    <3> QED
      BY <3>2, <3>3
  <2> QED
    BY <1>14, <2>8, <2>10, <2>11, <2>12, <2>13, <2>15, <2>16, <2>17 DEF WalkOk
<1> QED
  BY <1>15, <1>16

-----------------------------------------------------------------------------
(* The least view that was not visited.                                    *)
LEMMA LeastView ==
    ASSUME StratifyParameters, NEW S \in SUBSET View, S # {}
    PROVE  Min(S) \in S
<1>1. S \subseteq Nat
  BY DEF StratifyParameters, View
<1>2. PICK x \in S : \A y \in S : ~(<<y, x>> \in OpToRel(<, Nat))
  BY <1>1, NatLessThanWellFounded, WFMin
<1>3. \A y \in S : ~(y < x)
  BY <1>1, <1>2 DEF OpToRel
<1>4. \A y \in S : x <= y
  BY <1>1, <1>3
<1> QED
  BY <1>4 DEF Min

(* A walk starts in order.                                                 *)
LEMMA InitOk == ASSUME StratifyParameters, Init PROVE WalkOk
<1>1. \A v \in View : index[v] = 0 /\ onStack[v] = FALSE /\ stratum[v] = 0
  BY DEF Init
<1>2. Typed
  <2>1. graph \in [View -> SUBSET View] /\ role \in Roles
    BY DEF Init, StratifyParameters
  <2> QED
    BY <2>1 DEF Init, Typed
<1>3. ColorsOk /\ FollowedOk /\ ClosedOk /\ SourcesFirst
  BY <1>1 DEF Init, ColorsOk, FollowedOk, ClosedOk, SourcesFirst
<1>4. DOMAIN sccStack = {} /\ DOMAIN frames = {}
  BY DEF Init
<1>5. StackOk /\ FramesOk /\ ReachOk /\ LowlinkOk
  BY <1>1, <1>4 DEF StackOk, FramesOk, ReachOk, LowlinkOk
<1> QED
  BY <1>2, <1>3, <1>5 DEF WalkOk

(* Every step of the walk keeps it in order.                               *)
LEMMA WalkKeeps ==
    ASSUME StratifyParameters, WalkOk, StartRoot \/ FollowEdge \/ Retreat
    PROVE  WalkOk'
<1>1. Typed /\ FramesOk
  BY DEF WalkOk
<1>2. CASE StartRoot
  <2> DEFINE S == {v \in View : index[v] = 0}
             r == Min(S)
  <2>1. S \in SUBSET View /\ S # {}
    BY <1>2 DEF StartRoot
  <2>2. r \in S
    BY <2>1, LeastView
  <2>3. r \in View /\ index[r] = 0
    BY <2>2
  <2>4. Visit(r, <<>>) /\ UNCHANGED <<graph, role, stratum, nextStratum>> /\ Len(frames) = 0
    BY <1>2 DEF StartRoot
  <2> HIDE DEF r
  <2>5. <<>> \in Seq(Frame) /\ Len(<<>>) = Len(frames) /\ \A k \in 1..Len(frames) : FALSE
    BY <2>4
  <2> QED
    BY <2>3, <2>4, <2>5, VisitKeeps
<1>3. CASE FollowEdge
  <2>1. frames # <<>> /\ UNCHANGED <<graph, role, stratum, nextStratum>>
    BY <1>3 DEF FollowEdge
  <2> DEFINE below(w) == Append(Front(frames),
                                [view |-> Top, left |-> EdgesLeft(Last(frames).left, w)])
  <2>2. PICK w \in Last(frames).left :
              \/ index[w] = 0 /\ Visit(w, below(w))
              \/ /\ index[w] # 0
                 /\ lowlink' = IF LinksBack(w) THEN Lowered(Top, index[w]) ELSE lowlink
                 /\ frames' = below(w)
                 /\ UNCHANGED <<index, onStack, sccStack>>
    BY <1>3 DEF FollowEdge, Top
  <2>3. CASE index[w] = 0
    <3>1. /\ Len(frames) \in Nat \ {0} /\ DOMAIN frames = 1..Len(frames)
          /\ Last(frames) = frames[Len(frames)]
      BY <1>1, <2>1, FrontAndLast DEF Typed
    <3>2. Len(frames) \in 1..Len(frames) /\ Last(frames).left \subseteq View
      BY <1>1, <3>1, Parts
    <3>3. w \in View /\ w \in Sources(frames[Len(frames)].view)
      BY <1>1, <3>1, <3>2 DEF FramesOk
    <3>4. /\ below(w) \in Seq(Frame) /\ Len(below(w)) = Len(frames)
          /\ \A k \in 1..Len(frames) :
                /\ below(w)[k].view = frames[k].view
                /\ below(w)[k].left \subseteq frames[k].left
                /\ \A u \in frames[k].left : u \in below(w)[k].left \/ u = w
      BY <1>1, <2>1, Trimmed
    <3>5. Visit(w, below(w))
      BY <2>2, <2>3
    <3> HIDE DEF below
    <3> QED
      BY <2>1, <2>3, <3>3, <3>4, <3>5, VisitKeeps
  <2>4. CASE index[w] # 0
    BY <2>1, <2>2, <2>4, FollowKeeps
  <2> QED
    BY <2>3, <2>4
<1>4. CASE Retreat
  <2>1. frames # <<>> /\ Last(frames).left = {}
    BY <1>4 DEF Retreat
  <2> QED
    BY <1>4, <2>1, RetreatKeeps
<1> QED
  BY <1>2, <1>3, <1>4

(* When the walk is over every view has a stratum, the strata are the      *)
(* components, and what is in one with its input is rejected.              *)
LEMMA Finished ==
    ASSUME StratifyParameters, WalkOk, Finish
    PROVE  WalkOk' /\ DoneOk' /\ StrataAreComponents' /\ RejectsUnstratified'
<1>1. /\ Typed /\ ColorsOk /\ StackOk /\ FramesOk /\ FollowedOk /\ ReachOk /\ LowlinkOk
      /\ ClosedOk /\ SourcesFirst
  BY DEF WalkOk
<1>2. /\ \A u : Sources(u)' = Sources(u)
      /\ \A u : Reads(u)' = Reads(u)
      /\ \A u \in View : /\ Sources(u) \subseteq View /\ u \in Reads(u)
                         /\ ClosedReads(Reads(u)) /\ Reads(u) \subseteq View
                         /\ \A w \in Reads(u) : Reads(w) \subseteq Reads(u)
                         /\ \A S \in SUBSET View : u \in S /\ ClosedReads(S) => Reads(u) \subseteq S
  BY <1>1, ReadsFacts, SameProgram DEF Typed, Finish
<1>3. \A v \in View : stratum[v] \in Nat
  BY <1>1, Parts
<1>4. UNCHANGED <<graph, role, index, lowlink, onStack, stratum, sccStack, frames, nextStratum>>
  BY DEF Finish
<1>5. WalkOk'
  <2>1. Typed' /\ ColorsOk' /\ StackOk'
    BY <1>1, <1>4 DEF Typed, ColorsOk, StackOk
  <2>2. FramesOk' /\ FollowedOk'
    BY <1>1, <1>2, <1>4 DEF FramesOk, FollowedOk, Pending
  <2>3. ReachOk' /\ ClosedOk' /\ SourcesFirst'
    BY <1>1, <1>2, <1>4 DEF ReachOk, ClosedOk, SourcesFirst
  <2>4. LowlinkOk'
    BY <1>1, <1>2, <1>4 DEF LowlinkOk, BelongsTo, Pending
  <2> QED
    BY <2>1, <2>2, <2>3, <2>4 DEF WalkOk
<1>6. \A v \in View : stratum[v] # 0
  <2>1. DOMAIN frames = {}
    BY DEF Finish
  <2>2. \A v \in View : ~ onStack[v] /\ index[v] # 0
    BY <1>1, <2>1 DEF ReachOk, Finish
  <2> QED
    BY <1>1, <2>2 DEF ColorsOk
<1>7. DoneOk'
  BY <1>4, <1>6 DEF DoneOk
<1>8. ASSUME NEW v \in View, NEW w \in Reads(v)
      PROVE  w \in View /\ stratum[w] <= stratum[v]
  <2> DEFINE S == {x \in View : stratum[x] \in 1..stratum[v]}
  <2>1. v \in S
    BY <1>3, <1>6
  <2>2. ClosedReads(S)
    <3> SUFFICES ASSUME NEW x \in S, NEW u \in Sources(x) PROVE u \in S
      BY DEF ClosedReads
    <3>1. u \in View /\ stratum[u] \in 1..stratum[x] /\ x \in View /\ stratum[x] \in 1..stratum[v]
      BY <1>1, <1>2, <1>6 DEF SourcesFirst
    <3> QED
      BY <1>3, <3>1
  <2>3. Reads(v) \subseteq S
    BY <1>2, <2>1, <2>2
  <2> QED
    BY <2>3
<1>9. \A v, w \in View : stratum[v] = stratum[w] <=> v \in Reads(w) /\ w \in Reads(v)
  <2> TAKE v, w \in View
  <2>1. ASSUME stratum[v] = stratum[w] PROVE v \in Reads(w) /\ w \in Reads(v)
    BY <1>1, <1>6, <2>1 DEF ClosedOk
  <2>2. ASSUME v \in Reads(w), w \in Reads(v) PROVE stratum[v] = stratum[w]
    <3>1. stratum[v] <= stratum[w] /\ stratum[w] <= stratum[v]
      BY <1>8, <2>2
    <3> QED
      BY <1>3, <3>1
  <2> QED
    BY <2>1, <2>2
<1>10. StrataAreComponents'
  BY <1>2, <1>4, <1>9 DEF StrataAreComponents
<1>11. ASSUME NEW v \in View, NEW w \in Sources(v)
       PROVE  w \in View /\ (stratum[v] = stratum[w] <=> v \in Reads(w))
  <2>1. w \in View /\ w \in Reads(v)
    BY <1>2 DEF ClosedReads
  <2> QED
    BY <1>9, <2>1
<1>12. role \in Roles /\ role.negates \subseteq View \X View /\ role.aggs \subseteq View
  BY <1>1 DEF Typed, StratifyParameters
<1>13. \A n \in role.negates : n[1] \in View /\ n[2] \in Sources(n[1])
  BY <1>12 DEF Sources
<1>14. \A v \in View : \A w \in graph[v] : w \in Sources(v)
  BY DEF Sources
<1> DEFINE Bad == {v \in View : \/ \E n \in role.negates : n[1] = v /\ v \in Reads(n[2])
                                \/ v \in role.aggs /\ \E w \in graph[v] : v \in Reads(w)}
<1>15. \A v : v \in InSccNegates <=>
                 v \in View /\ \E n \in role.negates : n[1] = v /\ v \in Reads(n[2])
  <2>1. \A v : v \in InSccNegates <=>
                  \E n \in role.negates : n[1] = v /\ stratum[n[1]] = stratum[n[2]]
    BY DEF InSccNegates
  <2>2. \A n \in role.negates : stratum[n[1]] = stratum[n[2]] <=> n[1] \in Reads(n[2])
    BY <1>11, <1>13
  <2> QED
    BY <1>13, <2>1, <2>2
<1>16. \A v : v \in InSccAggs <=>
                 v \in View /\ v \in role.aggs /\ \E w \in graph[v] : v \in Reads(w)
  BY <1>11, <1>12, <1>14 DEF InSccAggs
<1>17. rejected' = Bad
  <2>1. rejected' = InSccNegates \cup InSccAggs
    BY DEF Finish
  <2> QED
    BY <1>15, <1>16, <2>1
<1>18. RejectsUnstratified'
  BY <1>2, <1>4, <1>17 DEF RejectsUnstratified
<1> QED
  BY <1>5, <1>7, <1>10, <1>18

-----------------------------------------------------------------------------
(* The inductive invariant.                                                *)
LEMMA InvInit == ASSUME StratifyParameters, Init PROVE Inv
<1>1. WalkOk /\ SourcesFirst
  BY InitOk DEF WalkOk
<1>2. stage # "done"
  BY DEF Init
<1> QED
  BY <1>1, <1>2 DEF Inv, DoneOk, StrataOrdered, StrataAreComponents, RejectsUnstratified

(* Every step keeps it.                                                    *)
LEMMA InvNext == ASSUME StratifyParameters, Inv, [Next]_vars PROVE Inv'
<1>1. WalkOk
  BY DEF Inv
<1>2. CASE StartRoot \/ FollowEdge \/ Retreat
  <2>1. WalkOk'
    BY <1>1, <1>2, WalkKeeps
  <2>2. stage' # "done"
    BY <1>2 DEF StartRoot, FollowEdge, Retreat
  <2>3. SourcesFirst'
    BY <2>1 DEF WalkOk
  <2> QED
    BY <2>1, <2>2, <2>3 DEF Inv, DoneOk, StrataOrdered, StrataAreComponents, RejectsUnstratified
<1>3. CASE Finish
  <2>1. WalkOk' /\ DoneOk' /\ StrataAreComponents' /\ RejectsUnstratified'
    BY <1>1, <1>3, Finished
  <2>2. SourcesFirst'
    BY <2>1 DEF WalkOk
  <2> QED
    BY <2>1, <2>2 DEF Inv, StrataOrdered
<1>4. CASE UNCHANGED vars
  <2>1. UNCHANGED <<graph, role, index, lowlink, onStack, stratum, sccStack, frames,
                    nextStratum, rejected, stage>>
    BY <1>4 DEF vars
  <2>2. /\ \A u : Sources(u)' = Sources(u)
        /\ \A u : Reads(u)' = Reads(u)
    BY <2>1, SameProgram
  <2>3. WalkOk /\ DoneOk /\ StrataAreComponents /\ SourcesFirst /\ RejectsUnstratified
    BY DEF Inv, StrataOrdered
  <2>4. Typed' /\ ColorsOk' /\ StackOk' /\ DoneOk'
    BY <2>1, <2>3 DEF WalkOk, Typed, ColorsOk, StackOk, DoneOk
  <2>5. FramesOk' /\ FollowedOk'
    BY <2>1, <2>2, <2>3 DEF WalkOk, FramesOk, FollowedOk, Pending
  <2>6. ReachOk' /\ ClosedOk' /\ SourcesFirst'
    BY <2>1, <2>2, <2>3 DEF WalkOk, ReachOk, ClosedOk, SourcesFirst
  <2>7. LowlinkOk'
    BY <2>1, <2>2, <2>3 DEF WalkOk, LowlinkOk, BelongsTo, Pending
  <2>8. StrataAreComponents' /\ RejectsUnstratified'
    BY <2>1, <2>2, <2>3 DEF StrataAreComponents, RejectsUnstratified
  <2> QED
    BY <2>4, <2>5, <2>6, <2>7, <2>8 DEF Inv, WalkOk, StrataOrdered
<1> QED
  BY <1>2, <1>3, <1>4 DEF Next

(* Strata are the strongly connected components of what views read, and    *)
(* have numbers with sources first throughout the walk.                    *)
THEOREM Ordered == Spec => []StrataOrdered
<1>1. Init => Inv
  BY StratifyAssumption, InvInit
<1>2. Inv /\ [Next]_vars => Inv'
  BY StratifyAssumption, InvNext
<1>3. Inv => StrataOrdered
  BY DEF Inv
<1> QED
  BY <1>1, <1>2, <1>3, PTL DEF Spec

(* A negation or an aggregation is rejected exactly when its input reads   *)
(* from it.                                                                *)
THEOREM Rejected == Spec => []RejectsUnstratified
<1>1. Init => Inv
  BY StratifyAssumption, InvInit
<1>2. Inv /\ [Next]_vars => Inv'
  BY StratifyAssumption, InvNext
<1>3. Inv => RejectsUnstratified
  BY DEF Inv
<1> QED
  BY <1>1, <1>2, <1>3, PTL DEF Spec
=============================================================================
