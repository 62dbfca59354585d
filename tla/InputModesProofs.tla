-------------------------- MODULE InputModesProofs --------------------------
(***************************************************************************)
(* What keys, the mouse, output and the death of panes keep, for any text, *)
(* any sizes, any number of panes and any user.                            *)
(*                                                                         *)
(* The inductive invariant IInv says that the tab is well-formed, that the *)
(* screens fit the layout unless a border is dragged or they were not      *)
(* fitted again since a pane died or full screen was toggled, and that     *)
(* copy mode's cursor is inside its pane unless it strayed.  Each command  *)
(* keeps its part of that (KeyStep for keys, MouseEvent for whole events), *)
(* and an event is one or two commands.  What the layout does comes from   *)
(* LayoutProofs.  The search and the shrinking of a screen recurse over    *)
(* their input; both are followed by P!Climb, which needs no operator as a *)
(* parameter.                                                              *)
(***************************************************************************)
EXTENDS InputModes, SequenceTheorems, FiniteSetTheorems, TLAPS
P == INSTANCE LayoutProofs WITH
       Ids <- PaneId, Sentinel <- None, Amounts <- {}, Templates <- {}, root <- None, size <- None

-----------------------------------------------------------------------------
(* Trees of panes, in the names that InputModes uses *)

(* What LayoutProofs says of trees, in the names that InputModes uses. *)
LEMMA SameTrees ==
  \A t : (P!IsTree(t) <=> L!IsTree(t)) /\ P!Leaves(t) = L!Leaves(t) /\ (P!IsLeaf(t) <=> L!IsLeaf(t))
BY DEF P!IsTree, L!IsTree, P!Nodes, L!Nodes, P!Child, L!Child, P!Direction, L!Direction,
       P!IsFiniteSet, L!IsFiniteSet, P!Front, L!Front, P!Leaves, L!Leaves, P!IsLeaf, L!IsLeaf

(* PathOf is found the same way. *)
LEMMA SamePath ==
  \A t, id : P!PathOf(t, id) = L!PathOf(t, id)
BY DEF P!PathOf, L!PathOf, P!Before, L!Before

(* So is the list of the leaves. *)
LEMMA SamePaths ==
  \A t : P!leaf_paths(t) = L!leaf_paths(t)
BY DEF P!leaf_paths, L!leaf_paths, P!Before, L!Before, P!Cardinality, L!Cardinality

(* And the area of a node. *)
LEMMA SameArea ==
  \A t, p, sz : P!AreaOf(t, p, sz) = L!AreaOf(t, p, sz)
BY DEF P!AreaOf, L!AreaOf, P!ChildArea, L!ChildArea, P!FirstCells, L!FirstCells,
       P!RatioUnit, L!RatioUnit

(* The assumption of the layout holds of the pane ids. *)
LEMMA Assumed ==
  /\ None \notin PaneId
  /\ Sizes # {} /\ Sizes \subseteq Nat \X Nat
  /\ {} \subseteq Int
  /\ \A template \in {} : P!IsTree(template)
BY InputModesAssumption

(* A tree of one pane. *)
LEMMA TreeLeaf ==
  ASSUME NEW id
  PROVE  L!IsTree(L!Leaf(id)) /\ L!Leaves(L!Leaf(id)) = {id}
<1>1. P!Leaf(id) = L!Leaf(id)
  BY DEF P!Leaf, L!Leaf
<1> QED BY <1>1, Assumed, P!LeafIsTree, SameTrees

(* A pane is split. *)
LEMMA TreeSplit ==
  ASSUME NEW t, L!IsTree(t), NEW target \in L!Leaves(t), NEW id, id \notin L!Leaves(t),
         NEW direction \in {"Vertical", "Horizontal"}
  PROVE  /\ L!IsTree(L!SplitLeaf(t, target, id, direction))
         /\ L!Leaves(L!SplitLeaf(t, target, id, direction)) = L!Leaves(t) \cup {id}
<1>1. P!SplitLeaf(t, target, id, direction) = L!SplitLeaf(t, target, id, direction)
  BY DEF P!SplitLeaf, L!SplitLeaf, P!SplitAt, L!SplitAt, P!Child, L!Child, P!Leaves, L!Leaves,
         P!PathOf, L!PathOf, P!Before, L!Before
<1>2. P!IsTree(t) /\ target \in P!Leaves(t) /\ id \notin P!Leaves(t) /\ direction \in P!Direction
  BY SameTrees DEF P!Direction
<1>3. P!IsTree(P!SplitLeaf(t, target, id, direction))
      /\ P!Leaves(P!SplitLeaf(t, target, id, direction)) = P!Leaves(t) \cup {id}
  BY <1>2, Assumed, P!SplitLeafIs
<1> QED BY <1>1, <1>3, SameTrees

(* A pane goes. *)
LEMMA TreeRemove ==
  ASSUME NEW t, L!IsTree(t), ~L!IsLeaf(t), NEW id \in L!Leaves(t)
  PROVE  /\ L!IsTree(L!RemovePane(t, id))
         /\ L!Leaves(L!RemovePane(t, id)) = L!Leaves(t) \ {id}
<1>1. P!RemovePane(t, id) = L!RemovePane(t, id)
  BY DEF P!RemovePane, L!RemovePane, P!Collapsed, L!Collapsed, P!Lifted, L!Lifted, P!Sibling, L!Sibling,
         P!PathOf, L!PathOf, P!Before, L!Before, P!Front, L!Front, P!IsPrefix, L!IsPrefix, P!RemoveAt, L!RemoveAt,
         P!InsertAt, L!InsertAt, P!Last, L!Last
<1>2. P!IsTree(t) /\ ~P!IsLeaf(t) /\ id \in P!Leaves(t)
  BY SameTrees
<1>3. P!IsTree(P!RemovePane(t, id)) /\ P!Leaves(P!RemovePane(t, id)) = P!Leaves(t) \ {id}
  BY <1>2, Assumed, P!RemovePaneIs
<1> QED BY <1>1, <1>3, SameTrees

(* A border moves. *)
LEMMA TreeAdjust ==
  ASSUME NEW t, L!IsTree(t), NEW id \in L!Leaves(t), NEW axis \in {"Vertical", "Horizontal"},
         NEW amount \in Int, NEW total \in Int, total > 0
  PROVE  /\ L!IsTree(L!adjust_ratio(t, id, axis, L!RatioDelta(amount, total)))
         /\ L!Leaves(L!adjust_ratio(t, id, axis, L!RatioDelta(amount, total))) = L!Leaves(t)
<1>1. P!adjust_ratio(t, id, axis, P!RatioDelta(amount, total))
        = L!adjust_ratio(t, id, axis, L!RatioDelta(amount, total))
  BY DEF P!adjust_ratio, L!adjust_ratio, P!SplitsAbove, L!SplitsAbove, P!NewRatio, L!NewRatio, P!Clamp, L!Clamp,
         P!MinRatio, L!MinRatio, P!MaxRatio, L!MaxRatio, P!IsStrictPrefix, L!IsStrictPrefix, P!IsPrefix, L!IsPrefix,
         P!Leaves, L!Leaves, P!PathOf, L!PathOf, P!Before, L!Before, P!RatioDelta, L!RatioDelta, P!RatioUnit, L!RatioUnit
<1>2. P!IsTree(t) /\ id \in P!Leaves(t) /\ axis \in P!Direction
  BY SameTrees DEF P!Direction
<1>3. P!RatioDelta(amount, total) \in Int
  BY Assumed, P!RatioDeltaIs
<1>4. P!IsTree(P!adjust_ratio(t, id, axis, P!RatioDelta(amount, total)))
      /\ P!Leaves(P!adjust_ratio(t, id, axis, P!RatioDelta(amount, total))) = P!Leaves(t)
  BY <1>2, <1>3, Assumed, P!AdjustIs
<1> QED BY <1>1, <1>4, SameTrees

(* A pane's place. *)
LEMMA PlaceIs ==
  ASSUME NEW t, L!IsTree(t), NEW id \in L!Leaves(t), NEW sz \in Nat \X Nat
  PROVE  /\ L!PositionOf(t, sz, id).col \in Nat
         /\ L!PositionOf(t, sz, id).row \in Nat
         /\ L!PositionOf(t, sz, id).cols \in Nat
         /\ L!PositionOf(t, sz, id).rows \in Nat
<1> DEFINE p == L!PathOf(t, id)
<1>1. P!IsTree(t) /\ id \in P!Leaves(t)
  BY SameTrees
<1>2. p \in P!Nodes(t)
  BY <1>1, Assumed, P!PathOfIs, SamePath DEF P!Nodes
<1>3. Len(p) \in Nat
  <2>1. p \in P!Path
    BY <1>1, <1>2, Assumed, P!TreeNodes
  <2> QED BY <2>1, Assumed, P!PathAt
<1>4. P!AreaOf(t, p, sz) \in P!Box
  <2>1. sz[1] \in Nat /\ sz[2] \in Nat /\ 0 \in 0..Len(p)
    BY <1>3
  <2> HIDE DEF p
  <2> QED BY <1>1, <1>2, <2>1, Assumed, P!AreasNest
<1>5. L!AreaOf(t, p, sz) \in [col : Nat, row : Nat, cols : Nat, rows : Nat]
  BY <1>4, SameArea DEF P!Box
<1> QED BY <1>5 DEF L!PositionOf, L!Placed, L!PanePosition

(* The list of places. *)
LEMMA PlacesAre ==
  ASSUME NEW t, L!IsTree(t), NEW sz
  PROVE  /\ \E n \in Nat : DOMAIN L!compute_positions(t, sz) = 1..n
         /\ \A i \in DOMAIN L!compute_positions(t, sz) : L!compute_positions(t, sz)[i].id \in L!Leaves(t)
<1>1. P!IsTree(t)
  BY SameTrees
<1>2. Len(L!leaf_paths(t)) \in Nat
      /\ \A i \in 1..Len(L!leaf_paths(t)) : L!leaf_paths(t)[i] \in DOMAIN t.leaf
  BY <1>1, Assumed, P!PaneIdsAre, SamePaths
<1>3. DOMAIN L!leaf_paths(t) = 1..Len(L!leaf_paths(t))
  <2>1. P!leaf_paths(t) \in Seq(DOMAIN t.leaf)
    BY <1>1, Assumed, P!PaneIdsAre
  <2> QED BY <2>1, SamePaths
<1> QED BY <1>2, <1>3 DEF L!compute_positions, L!Placed, L!PanePosition, L!Leaves

(* Moving the focus finds a pane of the tab. *)
LEMMA NeighborIs ==
  ASSUME NEW t, L!IsTree(t), NEW sz, NEW id, NEW direction
  PROVE  L!find_neighbor_in_direction(t, sz, id, direction) \subseteq L!Leaves(t)
<1>1. L!find_neighbor_in_direction(t, sz, id, direction)
        \subseteq {L!compute_positions(t, sz)[i].id : i \in DOMAIN L!compute_positions(t, sz)}
  BY DEF L!find_neighbor_in_direction
<1> QED BY <1>1, PlacesAre

(* The first pane. *)
LEMMA FirstPaneIs ==
  ASSUME NEW t, L!IsTree(t)
  PROVE  Head(L!pane_ids(t)) \in L!Leaves(t)
<1>1. P!IsTree(t)
  BY SameTrees
<1>2. P!pane_ids(t) = L!pane_ids(t)
  BY DEF P!pane_ids, L!pane_ids, P!PanesAt, L!PanesAt, P!leaf_paths, L!leaf_paths, P!Before, L!Before,
         P!Cardinality, L!Cardinality
<1>3. P!pane_ids(t) \in Seq(P!Leaves(t))
  BY <1>1, Assumed, P!PaneIdsAre
<1>4. Len(P!pane_ids(t)) >= 1
  BY <1>1, Assumed, P!SomeLeaf
<1> QED BY <1>2, <1>3, <1>4, SameTrees

(* A tree of more than one pane is a split. *)
LEMMA SeveralPanes ==
  ASSUME NEW t, L!IsTree(t), Cardinality(L!Leaves(t)) > 1
  PROVE  ~L!IsLeaf(t)
<1> DEFINE z == <<>>
<1> SUFFICES ASSUME L!IsLeaf(t) PROVE FALSE
  OBVIOUS
<1>1. P!IsTree(t) /\ z \in DOMAIN t.leaf
  BY SameTrees DEF L!IsLeaf
<1>2. ASSUME NEW p \in DOMAIN t.leaf PROVE p = z
  <2>1. p \in P!Path /\ p \in P!Nodes(t)
    BY <1>1, Assumed, P!TreeNodes
  <2>2. Len(p) \in Nat /\ SubSeq(p, 1, 0) = z
    BY <2>1 DEF P!Path
  <2>3. CASE 0 < Len(p)
    <3>1. SubSeq(p, 1, 0) \in DOMAIN t.split
      BY <1>1, <2>1, <2>3, Assumed, P!AncestorsSplit
    <3> QED BY <1>1, <2>2, <3>1, Assumed, P!TreeNodes
  <2>4. CASE Len(p) = 0
    BY <2>1, <2>4 DEF P!Path
  <2> QED BY <2>2, <2>3, <2>4
<1>3. L!Leaves(t) = {t.leaf[z]}
  BY <1>1, <1>2 DEF L!Leaves
<1> HIDE DEF z
<1>4. Cardinality(L!Leaves(t)) = 1
  BY <1>3, FS_Singleton
<1> QED BY <1>4

-----------------------------------------------------------------------------
(* Screens *)

LineId == 0..Len(Text)

(* A screen: the cursor is on it, an empty one has its cursor at 0. *)
ScreenType == [cols : Nat, sb : Seq(LineId), lines : Seq(LineId), row : Nat, off : Nat,
               tracking : BOOLEAN]
ScreenOK(s) == s \in ScreenType /\ s.row <= Most(Rows(s) - 1, 0)

(* Screens have these sizes. *)
Sized(s, cols, rows) == ScreenOK(s) /\ s.cols = cols /\ Rows(s) = rows

(* Least and Most. *)
LEMMA LeastMost ==
  ASSUME NEW a \in Int, NEW b \in Int
  PROVE  /\ Least(a, b) \in Int /\ Least(a, b) <= a /\ Least(a, b) <= b /\ Least(a, b) \in {a, b}
         /\ Most(a, b) \in Int /\ Most(a, b) >= a /\ Most(a, b) >= b /\ Most(a, b) \in {a, b}
BY DEF Least, Most

(* The numbers of lines. *)
LEMMA LinesAre ==
  LineId \subseteq Nat /\ 0 \in LineId /\ Len(Text) \in Nat
  /\ ScrollbackLimit \in Nat
<1>1. Text \in Seq(Seq(STRING)) /\ ScrollbackLimit \in Nat
  BY InputModesAssumption
<1> QED BY <1>1 DEF LineId

(* The fields of a screen. *)
LEMMA ScreenHas ==
  ASSUME NEW s, ScreenOK(s)
  PROVE  /\ DOMAIN s = {"cols", "sb", "lines", "row", "off", "tracking"}
         /\ s.cols \in Nat /\ s.sb \in Seq(LineId) /\ s.lines \in Seq(LineId) /\ s.row \in Nat
         /\ s.off \in Nat /\ s.tracking \in BOOLEAN
         /\ Rows(s) \in Nat /\ Len(s.sb) \in Nat
         /\ Rows(s) = Len(s.lines)
         /\ s.row <= Most(Rows(s) - 1, 0)
<1>1. s \in ScreenType
  BY DEF ScreenOK
<1> QED BY <1>1 DEF ScreenOK, ScreenType, Rows

(* A record of such fields is one. *)
LEMMA ScreenMade ==
  ASSUME NEW s, DOMAIN s = {"cols", "sb", "lines", "row", "off", "tracking"},
         s = [k \in DOMAIN s |-> s[k]],
         s.cols \in Nat, s.sb \in Seq(LineId), s.lines \in Seq(LineId), s.row \in Nat,
         s.off \in Nat, s.tracking \in BOOLEAN, s.row <= Most(Len(s.lines) - 1, 0)
  PROVE  Sized(s, s.cols, Len(s.lines))
BY DEF Sized, ScreenOK, ScreenType, Rows

(* A new pane has a screen of its size. *)
LEMMA NewScreenIs ==
  ASSUME NEW cols \in Nat, NEW rows \in Nat
  PROVE  Sized(NewScreen(cols, rows), cols, rows)
<1> DEFINE lines == [i \in 1..rows |-> 0]
           none == <<>>
           s == [cols |-> cols, sb |-> none, lines |-> lines, row |-> 0, off |-> 0, tracking |-> FALSE]
<1>1. lines \in Seq(LineId) /\ Len(lines) = rows
  BY LinesAre
<1>2. none \in Seq(LineId)
  OBVIOUS
<1>3. 0 <= Most(Len(lines) - 1, 0)
  BY <1>1 DEF Most
<1>4. NewScreen(cols, rows) = s
  BY DEF NewScreen
<1> HIDE DEF lines, none
<1>5. Sized(s, cols, Len(lines))
  BY <1>1, <1>2, <1>3 DEF Sized, ScreenOK, ScreenType, Rows
<1> QED BY <1>1, <1>4, <1>5

(* What is kept of the history. *)
LEMMA TrimIs ==
  ASSUME NEW S, NEW sb \in Seq(S)
  PROVE  Trim(sb) \in Seq(S)
<1> DEFINE n == Len(sb)
           k == n - Least(n, ScrollbackLimit) + 1
<1>0. n \in Nat
  OBVIOUS
<1>1. k \in Int /\ k >= 1
  <2> HIDE DEF n
  <2>1. n \in Int /\ ScrollbackLimit \in Int
    BY <1>0, LinesAre
  <2>2. Least(n, ScrollbackLimit) \in Int /\ Least(n, ScrollbackLimit) <= n
    BY <2>1, LeastMost
  <2> QED BY <1>0, <2>2
<1>2. \A i \in k..n : sb[i] \in S
  <2> HIDE DEF k
  <2> QED BY <1>1
<1>3. SubSeq(sb, k, n) \in Seq(S)
  <2> HIDE DEF k
  <2> QED BY <1>0, <1>1, <1>2, SubSeqProperties
<1> QED BY <1>3 DEF Trim

(* One row taken from a sequence. *)
LEMMA HeadTailFront ==
  ASSUME NEW S, NEW q \in Seq(S), Len(q) > 0
  PROVE  /\ Tail(q) \in Seq(S) /\ Len(Tail(q)) = Len(q) - 1
         /\ Front(q) \in Seq(S) /\ Len(Front(q)) = Len(q) - 1
         /\ q[1] \in S
<1>1. Len(q) \in Nat /\ \A i \in 1..Len(q) - 1 : q[i] \in S
  OBVIOUS
<1>2. Front(q) \in Seq(S) /\ Len(Front(q)) = Len(q) - 1
  <2> DEFINE n == Len(q) - 1
  <2>1. n \in Nat /\ \A i \in 1..n : q[i] \in S
    BY <1>1
  <2>2. Front(q) = SubSeq(q, 1, n)
    BY DEF Front
  <2> HIDE DEF n
  <2>3. SubSeq(q, 1, n) \in Seq(S) /\ Len(SubSeq(q, 1, n)) = IF 1 <= n THEN n - 1 + 1 ELSE 0
    BY <2>1, SubSeqProperties
  <2>4. Len(SubSeq(q, 1, n)) = n
    BY <2>1, <2>3
  <2> QED BY <2>2, <2>3, <2>4 DEF n
<1>3. Tail(q) \in Seq(S) /\ Len(Tail(q)) = Len(q) - 1 /\ q[1] \in S
  <2>1. q # <<>>
    OBVIOUS
  <2> QED BY <2>1, HeadTailProperties
<1> QED BY <1>2, <1>3

(* A line of output. *)
LEMMA PrintLineIs ==
  ASSUME NEW s, ScreenOK(s), HasCell(s), NEW n \in LineId
  PROVE  Sized(PrintLine(s, n), s.cols, Rows(s))
<1> DEFINE lines == [s.lines EXCEPT ![s.row + 1] = n]
           w == [s EXCEPT !.lines = lines, !.off = 0]
           down == [w EXCEPT !.row = @ + 1]
           full == [w EXCEPT !.sb = Trim(Append(@, w.lines[1])), !.lines = Append(Tail(@), 0)]
<1>1. /\ s.cols \in Nat /\ s.sb \in Seq(LineId) /\ s.lines \in Seq(LineId) /\ s.row \in Nat
      /\ s.off \in Nat /\ s.tracking \in BOOLEAN /\ Rows(s) \in Nat /\ Rows(s) = Len(s.lines)
      /\ s.row <= Most(Rows(s) - 1, 0) /\ Rows(s) > 0 /\ 0 \in LineId /\ 0 \in Nat
      /\ DOMAIN s = {"cols", "sb", "lines", "row", "off", "tracking"}
  BY ScreenHas, LinesAre DEF HasCell
<1>2. s.row <= Rows(s) - 1
  BY <1>1 DEF Most
<1>3. lines \in Seq(LineId) /\ Len(lines) = Rows(s)
  <2>1. s.row + 1 \in 1..Len(s.lines)
    BY <1>1, <1>2
  <2> QED BY <1>1, <2>1, ExceptSeq
<1>4. PrintLine(s, n) = IF s.row < Rows(s) - 1 THEN down ELSE full
  BY DEF PrintLine
<1> HIDE DEF lines
<1>w. /\ DOMAIN w = {"cols", "sb", "lines", "row", "off", "tracking"}
      /\ w.cols = s.cols /\ w.sb = s.sb /\ w.lines = lines /\ w.row = s.row /\ w.off = 0
      /\ w.tracking = s.tracking
  BY <1>1
<1> HIDE DEF w
<1>5. CASE s.row < Rows(s) - 1
  <2>1. s.row + 1 <= Most(Len(lines) - 1, 0) /\ s.row + 1 \in Nat
    BY <1>1, <1>3, <1>5 DEF Most
  <2>2. /\ DOMAIN down = {"cols", "sb", "lines", "row", "off", "tracking"}
        /\ down.cols = s.cols /\ down.sb = s.sb /\ down.lines = lines /\ down.row = s.row + 1
        /\ down.off = 0 /\ down.tracking = s.tracking /\ down = [k \in DOMAIN down |-> down[k]]
    BY <1>w
  <2> HIDE DEF down
  <2>3. Sized(down, down.cols, Len(down.lines))
    BY <1>1, <1>3, <2>1, <2>2, ScreenMade
  <2> QED BY <1>3, <1>4, <1>5, <2>2, <2>3
<1>6. CASE ~(s.row < Rows(s) - 1)
  <2> DEFINE sb == Trim(Append(s.sb, lines[1]))
             below == Append(Tail(lines), 0)
  <2>1. Tail(lines) \in Seq(LineId) /\ Len(Tail(lines)) = Rows(s) - 1 /\ lines[1] \in LineId
    BY <1>1, <1>3, HeadTailFront
  <2>2. below \in Seq(LineId) /\ Len(below) = Rows(s)
    BY <1>1, <2>1, AppendProperties
  <2>3. sb \in Seq(LineId)
    <3>1. Append(s.sb, lines[1]) \in Seq(LineId)
      BY <1>1, <2>1, AppendProperties
    <3> QED BY <3>1, TrimIs
  <2>4. s.row <= Most(Len(below) - 1, 0)
    BY <1>1, <2>2
  <2>5. /\ DOMAIN full = {"cols", "sb", "lines", "row", "off", "tracking"}
        /\ full.cols = s.cols /\ full.sb = sb /\ full.lines = below /\ full.row = s.row
        /\ full.off = 0 /\ full.tracking = s.tracking /\ full = [k \in DOMAIN full |-> full[k]]
    BY <1>w
  <2> HIDE DEF sb, below, full
  <2>6. Sized(full, full.cols, Len(full.lines))
    BY <1>1, <2>2, <2>3, <2>4, <2>5, ScreenMade
  <2> QED BY <1>4, <1>6, <2>2, <2>5, <2>6
<1> QED BY <1>5, <1>6

-----------------------------------------------------------------------------
(* A screen gets fewer rows *)

(* A screen of that size whose cursor may be anywhere. *)
Shaped(s, cols, rows) == s \in ScreenType /\ s.cols = cols /\ Rows(s) = rows

(* Its fields. *)
LEMMA ShapeHas ==
  ASSUME NEW s \in ScreenType
  PROVE  /\ DOMAIN s = {"cols", "sb", "lines", "row", "off", "tracking"}
         /\ s.cols \in Nat /\ s.sb \in Seq(LineId) /\ s.lines \in Seq(LineId) /\ s.row \in Nat
         /\ s.off \in Nat /\ s.tracking \in BOOLEAN
         /\ Rows(s) \in Nat /\ Len(s.sb) \in Nat
         /\ Rows(s) = Len(s.lines)
BY DEF ScreenType, Rows

(* And a screen made of them. *)
LEMMA ShapeMade ==
  ASSUME NEW s, DOMAIN s = {"cols", "sb", "lines", "row", "off", "tracking"},
         s = [k \in DOMAIN s |-> s[k]],
         s.cols \in Nat, s.sb \in Seq(LineId), s.lines \in Seq(LineId), s.row \in Nat,
         s.off \in Nat, s.tracking \in BOOLEAN
  PROVE  Shaped(s, s.cols, Len(s.lines))
BY DEF Shaped, ScreenType, Rows

(* One row less. *)
LEMMA ShrinkIs ==
  ASSUME NEW s \in ScreenType, Rows(s) > 0
  PROVE  Shaped(Shrink(s), s.cols, Rows(s) - 1)
<1> DEFINE low == Least(s.row, Most(Rows(s) - 2, 0))
           cut == [s EXCEPT !.lines = Front(@), !.row = Least(@, Most(Rows(s) - 2, 0))]
           sb == Trim(Append(s.sb, s.lines[1]))
           up == [s EXCEPT !.sb = Trim(Append(@, s.lines[1])), !.lines = Tail(@), !.row = Most(@ - 1, 0)]
<1>1. /\ DOMAIN s = {"cols", "sb", "lines", "row", "off", "tracking"}
      /\ s.cols \in Nat /\ s.sb \in Seq(LineId) /\ s.lines \in Seq(LineId) /\ s.row \in Nat
      /\ s.off \in Nat /\ s.tracking \in BOOLEAN
      /\ Rows(s) \in Nat /\ Rows(s) = Len(s.lines)
  BY ShapeHas
<1>2. /\ Tail(s.lines) \in Seq(LineId) /\ Len(Tail(s.lines)) = Len(s.lines) - 1
      /\ Front(s.lines) \in Seq(LineId) /\ Len(Front(s.lines)) = Len(s.lines) - 1
      /\ s.lines[1] \in LineId
  BY <1>1, HeadTailFront
<1>3. Shrink(s) = IF Last(s.lines) = 0 THEN cut ELSE up
  BY DEF Shrink
<1>4. Shaped(cut, s.cols, Rows(s) - 1)
  <2>1. low \in Nat
    BY <1>1 DEF Least, Most
  <2>2. /\ DOMAIN cut = {"cols", "sb", "lines", "row", "off", "tracking"}
        /\ cut.cols = s.cols /\ cut.sb = s.sb /\ cut.lines = Front(s.lines) /\ cut.row = low
        /\ cut.off = s.off /\ cut.tracking = s.tracking /\ cut = [k \in DOMAIN cut |-> cut[k]]
    BY <1>1
  <2> HIDE DEF cut, low
  <2>3. Shaped(cut, cut.cols, Len(cut.lines))
    BY <1>1, <1>2, <2>1, <2>2, ShapeMade
  <2> QED BY <1>1, <1>2, <2>2, <2>3
<1>5. Shaped(up, s.cols, Rows(s) - 1)
  <2>1. Most(s.row - 1, 0) \in Nat
    BY <1>1 DEF Most
  <2>2. sb \in Seq(LineId)
    <3>1. Append(s.sb, s.lines[1]) \in Seq(LineId)
      BY <1>1, <1>2, AppendProperties
    <3> QED BY <3>1, TrimIs
  <2>3. /\ DOMAIN up = {"cols", "sb", "lines", "row", "off", "tracking"}
        /\ up.cols = s.cols /\ up.sb = sb /\ up.lines = Tail(s.lines) /\ up.row = Most(s.row - 1, 0)
        /\ up.off = s.off /\ up.tracking = s.tracking /\ up = [k \in DOMAIN up |-> up[k]]
    BY <1>1
  <2> HIDE DEF up, sb
  <2>4. Shaped(up, up.cols, Len(up.lines))
    BY <1>1, <1>2, <2>1, <2>2, <2>3, ShapeMade
  <2> QED BY <1>1, <1>2, <2>3, <2>4
<1> QED BY <1>3, <1>4, <1>5

(* The rows are given up one by one. *)
LEMMA ShrinkToRuns ==
  ASSUME NEW s, NEW rows, Rows(s) - rows \in Nat
  PROVE  \E f : /\ f = [i \in 0..Rows(s) - rows |-> IF i = 0 THEN s ELSE Shrink(f[i - 1])]
                /\ ShrinkTo(s, rows) = f[Rows(s) - rows]
<1> DEFINE Runs(f, n) == f = [i \in 0..n |-> IF i = 0 THEN s ELSE Shrink(f[i - 1])]
           S == {n \in Nat : \E f : Runs(f, n)}
           k == Rows(s) - rows
<1>1. 0 \in S
  <2> DEFINE f == [i \in 0..0 |-> s]
  <2>1. Runs(f, 0)
    OBVIOUS
  <2> HIDE DEF f, Runs
  <2> QED BY <2>1
<1>2. ASSUME NEW i \in 1..k, i - 1 \in S PROVE i \in S
  <2>1. PICK f : Runs(f, i - 1)
    BY <1>2
  <2> DEFINE g == [j \in 0..i |-> IF j = i THEN Shrink(f[i - 1]) ELSE f[j]]
  <2>2. \A j \in 0..i : g[j] = IF j = 0 THEN s ELSE Shrink(g[j - 1])
    <3>1. ASSUME NEW j \in 0..i PROVE g[j] = IF j = 0 THEN s ELSE Shrink(g[j - 1])
      <4>1. CASE j = i
        <5>1. j # 0 /\ g[j] = Shrink(f[i - 1]) /\ j - 1 \in 0..i /\ j - 1 # i
          BY <4>1
        <5>2. g[j - 1] = f[i - 1]
          BY <4>1, <5>1
        <5> QED BY <5>1, <5>2
      <4>2. CASE j # i
        <5>1. j \in 0..i - 1 /\ g[j] = f[j]
          BY <4>2
        <5>2. f[j] = IF j = 0 THEN s ELSE Shrink(f[j - 1])
          BY <2>1, <5>1
        <5>3. CASE j = 0
          BY <5>1, <5>2, <5>3
        <5>4. CASE j # 0
          <6>1. j - 1 \in 0..i /\ j - 1 # i
            BY <5>1, <5>4
          <6>2. g[j - 1] = f[j - 1]
            BY <6>1
          <6> QED BY <5>1, <5>2, <5>4, <6>2
        <5> QED BY <5>3, <5>4
      <4> QED BY <4>1, <4>2
    <3> QED BY <3>1
  <2>3. g = [j \in 0..i |-> g[j]]
    OBVIOUS
  <2> HIDE DEF g
  <2>4. Runs(g, i)
    BY <2>2, <2>3
  <2> HIDE DEF Runs
  <2>5. i \in Nat
    OBVIOUS
  <2> QED BY <2>4, <2>5
<1>3. k \in S
  <2>1. 0 \in Nat /\ k \in Nat /\ \A i \in 0 + 1..k : i - 1 \in S => i \in S
    BY <1>2
  <2>2. 0..k \subseteq S
    <3> HIDE DEF S, k
    <3> QED BY <1>1, <2>1, Assumed, P!Climb
  <2> QED BY <2>1, <2>2
<1>4. \E f : Runs(f, k)
  BY <1>3
<1>5. Runs(CHOOSE f : Runs(f, k), k)
  <2> HIDE DEF Runs
  <2> QED BY <1>4
<1>6. ShrinkTo(s, rows) = (CHOOSE f : Runs(f, k))[k]
  BY DEF ShrinkTo
<1> QED BY <1>5, <1>6

(* A screen is shrunk to any number of rows. *)
LEMMA ShrinkToIs ==
  ASSUME NEW s \in ScreenType, NEW rows \in Nat, rows <= Rows(s)
  PROVE  Shaped(ShrinkTo(s, rows), s.cols, rows)
<1> DEFINE k == Rows(s) - rows
<1>1. Rows(s) \in Nat /\ k \in Nat /\ s.cols \in Nat
  BY ShapeHas
<1>2. PICK f : /\ f = [i \in 0..k |-> IF i = 0 THEN s ELSE Shrink(f[i - 1])]
               /\ ShrinkTo(s, rows) = f[k]
  BY <1>1, ShrinkToRuns
<1> DEFINE S == {i \in 0..k : Shaped(f[i], s.cols, Rows(s) - i)}
<1>3. 0 \in S
  <2>1. f[0] = s /\ 0 \in 0..k /\ Rows(s) - 0 = Rows(s)
    BY <1>1, <1>2
  <2>2. Shaped(s, s.cols, Rows(s))
    BY DEF Shaped
  <2> QED BY <2>1, <2>2
<1>4. ASSUME NEW i \in 1..k, i - 1 \in S PROVE i \in S
  <2>1. i \in 0..k /\ i # 0 /\ i - 1 \in 0..k
    BY <1>1
  <2>2. f[i] = Shrink(f[i - 1])
    BY <1>2, <2>1
  <2>3. Shaped(f[i - 1], s.cols, Rows(s) - (i - 1))
    BY <1>4
  <2>4. f[i - 1] \in ScreenType /\ Rows(f[i - 1]) = Rows(s) - (i - 1) /\ f[i - 1].cols = s.cols
    BY <2>3 DEF Shaped
  <2>5. Rows(f[i - 1]) > 0 /\ Rows(f[i - 1]) - 1 = Rows(s) - i
    BY <1>1, <2>4
  <2>6. Shaped(Shrink(f[i - 1]), s.cols, Rows(s) - i)
    BY <2>4, <2>5, ShrinkIs
  <2> QED BY <2>1, <2>2, <2>6
<1>5. k \in S
  <2>1. 0 \in Nat /\ k \in Nat /\ \A i \in 0 + 1..k : i - 1 \in S => i \in S
    BY <1>1, <1>4
  <2>2. 0..k \subseteq S
    <3> HIDE DEF S, k
    <3> QED BY <1>3, <2>1, Assumed, P!Climb
  <2> QED BY <2>1, <2>2
<1>6. Rows(s) - k = rows
  BY <1>1
<1> QED BY <1>2, <1>5, <1>6

-----------------------------------------------------------------------------
(* A screen gets more rows, and another width *)

(* Part of a sequence. *)
LEMMA PartIs ==
  ASSUME NEW S, NEW q \in Seq(S), NEW m \in Nat, NEW n \in Nat, m >= 1, n <= Len(q)
  PROVE  /\ SubSeq(q, m, n) \in Seq(S)
         /\ Len(SubSeq(q, m, n)) = IF m <= n THEN n - m + 1 ELSE 0
<1>1. \A i \in m..n : q[i] \in S
  OBVIOUS
<1> QED BY <1>1, SubSeqProperties

(* Rows from the history. *)
LEMMA GrowByIs ==
  ASSUME NEW s \in ScreenType, NEW n \in Nat
  PROVE  Shaped(GrowBy(s, n), s.cols, Rows(s) + n)
<1> DEFINE h == Len(s.sb)
           k == Least(n, h)
           kept == h - k
           part == SubSeq(s.sb, kept + 1, h)
           old == Reverse(part)
           blank == [i \in 1..n - k |-> 0]
           sb == SubSeq(s.sb, 1, kept)
           lines == old \o s.lines \o blank
           t == [s EXCEPT !.sb = SubSeq(@, 1, kept), !.row = @ + k, !.lines = old \o @ \o blank]
<1>1. /\ DOMAIN s = {"cols", "sb", "lines", "row", "off", "tracking"}
      /\ s.cols \in Nat /\ s.sb \in Seq(LineId) /\ s.lines \in Seq(LineId) /\ s.row \in Nat
      /\ s.off \in Nat /\ s.tracking \in BOOLEAN
      /\ Rows(s) \in Nat /\ Rows(s) = Len(s.lines) /\ h \in Nat /\ 0 \in LineId
  BY ShapeHas, LinesAre
<1>2. k \in Nat /\ k <= n /\ k <= h /\ n - k \in Nat
  BY <1>1 DEF Least
<1>3. kept \in Nat /\ kept <= h
  <2> HIDE DEF k, h
  <2> QED BY <1>1, <1>2
<1>4. part \in Seq(LineId) /\ Len(part) = k
  <2>1. kept + 1 \in Nat /\ kept + 1 >= 1 /\ h \in Nat /\ h <= Len(s.sb)
    BY <1>1, <1>3
  <2>2. part \in Seq(LineId) /\ Len(part) = IF kept + 1 <= h THEN h - (kept + 1) + 1 ELSE 0
    <3> HIDE DEF kept, h
    <3> QED BY <1>1, <2>1, PartIs
  <2> HIDE DEF part, h, k
  <2> QED BY <1>1, <1>2, <2>2
<1>5. old \in Seq(LineId) /\ Len(old) = k
  <2>1. \A i \in 1..k : part[(Len(part) - i) + 1] \in LineId
    <3> HIDE DEF part, k
    <3> QED BY <1>2, <1>4
  <2>2. old = [i \in 1..k |-> part[(Len(part) - i) + 1]]
    BY <1>4 DEF Reverse
  <2> HIDE DEF part, k, old
  <2> QED BY <1>2, <2>1, <2>2
<1>6. blank \in Seq(LineId) /\ Len(blank) = n - k
  <2> HIDE DEF k
  <2> QED BY <1>1, <1>2
<1>7. sb \in Seq(LineId)
  <2>1. 1 \in Nat /\ 1 >= 1 /\ kept <= Len(s.sb)
    BY <1>3
  <2> HIDE DEF kept, h
  <2> QED BY <1>1, <1>3, <2>1, PartIs
<1>8. lines \in Seq(LineId) /\ Len(lines) = Rows(s) + n
  <2> HIDE DEF h, k, kept, part, old, blank
  <2>1. s.lines \in Seq(LineId) /\ old \in Seq(LineId) /\ blank \in Seq(LineId)
    BY <1>1, <1>5, <1>6
  <2>2. old \o s.lines \in Seq(LineId) /\ Len(old \o s.lines) = Len(old) + Len(s.lines)
    BY <2>1, ConcatProperties
  <2>3. (old \o s.lines) \o blank \in Seq(LineId)
        /\ Len((old \o s.lines) \o blank) = Len(old \o s.lines) + Len(blank)
    BY <2>1, <2>2, ConcatProperties
  <2>4. Len(old) + Len(s.lines) + Len(blank) = Rows(s) + n
    BY <1>1, <1>2, <1>5, <1>6
  <2> QED BY <2>2, <2>3, <2>4
<1>9. GrowBy(s, n) = t
  BY DEF GrowBy
<1>10. s.row + k \in Nat
  <2> HIDE DEF k
  <2> QED BY <1>1, <1>2
<1> HIDE DEF h, k, kept, part, old, blank
<1>11. /\ DOMAIN t = {"cols", "sb", "lines", "row", "off", "tracking"}
       /\ t.cols = s.cols /\ t.sb = sb /\ t.lines = lines /\ t.row = s.row + k
       /\ t.off = s.off /\ t.tracking = s.tracking /\ t = [f \in DOMAIN t |-> t[f]]
  BY <1>1
<1> HIDE DEF t, sb, lines
<1>12. Shaped(t, t.cols, Len(t.lines))
  BY <1>1, <1>7, <1>8, <1>10, <1>11, ShapeMade
<1> QED BY <1>8, <1>9, <1>11, <1>12

(* The rows of another width. *)
LEMMA ReflowedIs ==
  ASSUME NEW s \in ScreenType, NEW rows \in Nat
  PROVE  /\ Reflowed(s, rows) \in ScreenType
         /\ Reflowed(s, rows).cols = s.cols
<1> DEFINE all == AllLines(s)
           n == Len(all)
           above == Most(n - rows, 0)
           sb == Trim(SubSeq(all, 1, above))
           lines == SubSeq(all, above + 1, n)
           row == Most(Len(s.sb) + s.row - above, 0)
           t == [s EXCEPT !.sb = sb, !.lines = lines, !.row = Most(Len(s.sb) + @ - above, 0)]
<1>1. /\ DOMAIN s = {"cols", "sb", "lines", "row", "off", "tracking"}
      /\ s.cols \in Nat /\ s.sb \in Seq(LineId) /\ s.lines \in Seq(LineId) /\ s.row \in Nat
      /\ s.off \in Nat /\ s.tracking \in BOOLEAN
      /\ Rows(s) \in Nat /\ Rows(s) = Len(s.lines) /\ Len(s.sb) \in Nat
  BY ShapeHas
<1>2. all \in Seq(LineId) /\ n \in Nat
  <2>1. all \in Seq(LineId)
    BY <1>1, ConcatProperties DEF AllLines
  <2> QED BY <2>1
<1>3. above \in Nat /\ above <= n
  <2> HIDE DEF n
  <2> QED BY <1>2 DEF Most
<1>4. sb \in Seq(LineId)
  <2>1. SubSeq(all, 1, above) \in Seq(LineId)
    <3>1. 1 \in Nat /\ 1 >= 1 /\ above <= Len(all)
      BY <1>3
    <3> HIDE DEF above, all
    <3> QED BY <1>2, <1>3, <3>1, PartIs
  <2> QED BY <2>1, TrimIs
<1>5. lines \in Seq(LineId)
  <2>1. above + 1 \in Nat /\ above + 1 >= 1 /\ n <= Len(all)
    <3> HIDE DEF above
    <3> QED BY <1>2, <1>3
  <2> HIDE DEF above, all
  <2> QED BY <1>2, <2>1, PartIs
<1>6. row \in Nat
  <2> HIDE DEF above
  <2> QED BY <1>1, <1>3 DEF Most
<1>7. Reflowed(s, rows) = t
  BY DEF Reflowed
<1> HIDE DEF all, n, above, sb, lines
<1>8. /\ DOMAIN t = {"cols", "sb", "lines", "row", "off", "tracking"}
      /\ t.cols = s.cols /\ t.sb = sb /\ t.lines = lines /\ t.row = row
      /\ t.off = s.off /\ t.tracking = s.tracking /\ t = [f \in DOMAIN t |-> t[f]]
  BY <1>1
<1> HIDE DEF t, row
<1>9. Shaped(t, t.cols, Len(t.lines))
  BY <1>1, <1>4, <1>5, <1>6, <1>8, ShapeMade
<1> QED BY <1>7, <1>8, <1>9 DEF Shaped

(* Grown or shrunk, it has the rows asked for. *)
LEMMA FitRowsIs ==
  ASSUME NEW s \in ScreenType, NEW rows \in Nat
  PROVE  Shaped(FitRows(s, rows), s.cols, rows)
<1>1. Rows(s) \in Nat
  BY ShapeHas
<1>2. CASE rows > Rows(s)
  <2>1. rows - Rows(s) \in Nat /\ Rows(s) + (rows - Rows(s)) = rows
    BY <1>1, <1>2
  <2>2. Shaped(GrowBy(s, rows - Rows(s)), s.cols, rows)
    BY <2>1, GrowByIs
  <2> QED BY <1>2, <2>2 DEF FitRows
<1>3. CASE ~(rows > Rows(s))
  BY <1>1, <1>3, ShrinkToIs DEF FitRows
<1> QED BY <1>2, <1>3

(* Screen::resize gives the size that is asked for. *)
LEMMA ResizeScreenIs ==
  ASSUME NEW s, ScreenOK(s), NEW cols \in Nat, NEW rows \in Nat
  PROVE  Sized(ResizeScreen(s, cols, rows), cols, rows)
<1> DEFINE r == IF cols = s.cols THEN s ELSE Reflowed(s, rows)
           t == FitRows(r, rows)
           low == Least(t.row, Most(rows - 1, 0))
           u == [t EXCEPT !.cols = cols, !.row = Least(@, Most(rows - 1, 0))]
<1>1. s \in ScreenType
  BY DEF ScreenOK
<1>2. r \in ScreenType
  BY <1>1, ReflowedIs
<1>3. t \in ScreenType /\ Rows(t) = rows
  <2> HIDE DEF r
  <2> QED BY <1>2, FitRowsIs DEF Shaped
<1>4. ResizeScreen(s, cols, rows) = u
  BY DEF ResizeScreen
<1> HIDE DEF t
<1>5. /\ DOMAIN t = {"cols", "sb", "lines", "row", "off", "tracking"}
      /\ t.cols \in Nat /\ t.sb \in Seq(LineId) /\ t.lines \in Seq(LineId) /\ t.row \in Nat
      /\ t.off \in Nat /\ t.tracking \in BOOLEAN /\ Len(t.lines) = rows
  BY <1>3, ShapeHas
<1>6. low \in Nat /\ low <= Most(rows - 1, 0)
  BY <1>5 DEF Least, Most
<1>7. /\ DOMAIN u = {"cols", "sb", "lines", "row", "off", "tracking"}
      /\ u.cols = cols /\ u.sb = t.sb /\ u.lines = t.lines /\ u.row = low
      /\ u.off = t.off /\ u.tracking = t.tracking /\ u = [f \in DOMAIN u |-> u[f]]
  BY <1>5
<1> HIDE DEF u, low
<1>8. Sized(u, u.cols, Len(u.lines))
  BY <1>5, <1>6, <1>7, ScreenMade
<1> QED BY <1>4, <1>5, <1>7, <1>8

(* Only the offset of the view, or the wish for the mouse, is another. *)
LEMMA ViewMoved ==
  ASSUME NEW s, ScreenOK(s), NEW off \in Nat
  PROVE  /\ Sized([s EXCEPT !.off = off], s.cols, Rows(s))
         /\ Sized([s EXCEPT !.tracking = TRUE, !.off = 0], s.cols, Rows(s))
<1> DEFINE t == [s EXCEPT !.off = off]
           u == [s EXCEPT !.tracking = TRUE, !.off = 0]
<1>1. /\ DOMAIN s = {"cols", "sb", "lines", "row", "off", "tracking"}
      /\ s.cols \in Nat /\ s.sb \in Seq(LineId) /\ s.lines \in Seq(LineId) /\ s.row \in Nat
      /\ s.off \in Nat /\ s.tracking \in BOOLEAN /\ Rows(s) = Len(s.lines)
      /\ s.row <= Most(Len(s.lines) - 1, 0) /\ 0 \in Nat /\ TRUE \in BOOLEAN
  BY ScreenHas
<1>2. /\ DOMAIN t = {"cols", "sb", "lines", "row", "off", "tracking"}
      /\ t.cols = s.cols /\ t.sb = s.sb /\ t.lines = s.lines /\ t.row = s.row
      /\ t.off = off /\ t.tracking = s.tracking /\ t = [f \in DOMAIN t |-> t[f]]
  BY <1>1
<1>3. /\ DOMAIN u = {"cols", "sb", "lines", "row", "off", "tracking"}
      /\ u.cols = s.cols /\ u.sb = s.sb /\ u.lines = s.lines /\ u.row = s.row
      /\ u.off = 0 /\ u.tracking = TRUE /\ u = [f \in DOMAIN u |-> u[f]]
  BY <1>1
<1> HIDE DEF t, u
<1>4. Sized(t, t.cols, Len(t.lines))
  BY <1>1, <1>2, ScreenMade
<1>5. Sized(u, u.cols, Len(u.lines))
  BY <1>1, <1>3, ScreenMade
<1> QED BY <1>1, <1>2, <1>3, <1>4, <1>5 DEF t, u

(* Scrolling the view changes no size. *)
LEMMA ScrollsAre ==
  ASSUME NEW s, ScreenOK(s), NEW n \in Nat
  PROVE  /\ Sized(ScrollViewportUp(s, n), s.cols, Rows(s))
         /\ Sized(ScrollViewportDown(s, n), s.cols, Rows(s))
<1>1. s.off \in Nat /\ Len(s.sb) \in Nat
  BY ScreenHas
<1>2. Least(s.off + n, Len(s.sb)) \in Nat /\ Most(s.off - n, 0) \in Nat
  BY <1>1 DEF Least, Most
<1>3. ScrollViewportUp(s, n) = [s EXCEPT !.off = Least(s.off + n, Len(s.sb))]
  BY DEF ScrollViewportUp
<1>4. ScrollViewportDown(s, n) = [s EXCEPT !.off = Most(s.off - n, 0)]
  BY DEF ScrollViewportDown
<1> QED BY <1>2, <1>3, <1>4, ViewMoved

-----------------------------------------------------------------------------
(* The tab *)

AppFields ==
  {"root", "size", "next", "active", "fullscreen", "screens", "input_mode", "search_query", "search_state",
   "search_direction_active", "copy_mode", "border_drag", "mouse_selection", "sent", "fit"}

(* The panes of the tab are the leaves of its tree, each with a screen; the *)
(* active one is among them, and only it can be full screen; the next id is *)
(* above all of theirs.                                                     *)
Tabbed(a) ==
  /\ DOMAIN a = AppFields
  /\ L!IsTree(a.root)
  /\ a.size \in (Nat \ {0}) \X (Nat \ {0})
  /\ L!Leaves(a.root) = DOMAIN a.screens
  /\ DOMAIN a.screens \subseteq PaneId
  /\ a.screens = [id \in DOMAIN a.screens |-> a.screens[id]]
  /\ \A id \in DOMAIN a.screens : ScreenOK(a.screens[id]) /\ id < a.next
  /\ a.next \in Nat /\ a.next <= MaxPaneId
  /\ a.active \in DOMAIN a.screens
  /\ a.fullscreen \in {None, a.active}

MouseSelection == [pane_id : PaneId, selection : Selections]

(* The values of the modes. *)
Moded(a) ==
  /\ DOMAIN a = AppFields
  /\ a.input_mode \in {"Normal", "Search", "Copy"}
  /\ a.input_mode = "Copy" <=> a.copy_mode # None
  /\ a.copy_mode \in CopyModeState \cup {None}
  /\ a.border_drag \in BorderDrag \cup {None}
  /\ a.mouse_selection \in MouseSelection \cup {None}
  /\ a.fit \in BOOLEAN

AppOK(a) == Tabbed(a) /\ Moded(a)

(* The screen of every pane that is shown has the size of its place. *)
Fitted(a) ==
  \A id \in Shown(a) : Sized(a.screens[id], PositionOf(a, id).cols, PositionOf(a, id).rows)

SameTab(a, b) ==
  /\ b.root = a.root /\ b.size = a.size /\ b.next = a.next /\ b.active = a.active
  /\ b.fullscreen = a.fullscreen /\ b.screens = a.screens

SameModes(a, b) == b.input_mode = a.input_mode /\ b.copy_mode = a.copy_mode
SameDrag(a, b) == b.border_drag = a.border_drag /\ b.mouse_selection = a.mouse_selection

(* Neither the places nor the sizes of the screens are others. *)
Steady(a, b) ==
  /\ b.root = a.root /\ b.size = a.size /\ b.fullscreen = a.fullscreen /\ Panes(b) = Panes(a)
  /\ \A id \in Panes(a) : b.screens[id].cols = a.screens[id].cols /\ Rows(b.screens[id]) = Rows(a.screens[id])

(* Or full screen was entered or left, which fits no screen. *)
Settled(a, b) == Steady(a, b) \/ b.fullscreen # a.fullscreen

(* The facts of Moded carry over. *)
LEMMA ModesKept ==
  ASSUME NEW a, NEW b, Moded(a), SameModes(a, b), SameDrag(a, b), DOMAIN b = AppFields,
         b.fit \in BOOLEAN
  PROVE  Moded(b)
BY DEF Moded, SameModes, SameDrag

(* So do those of Tabbed. *)
LEMMA TabKept ==
  ASSUME NEW a, NEW b, Tabbed(a), SameTab(a, b), DOMAIN b = AppFields
  PROVE  Tabbed(b) /\ Steady(a, b)
BY DEF Tabbed, SameTab, Steady, Panes

(* The sizes of a tab are natural numbers. *)
LEMMA Natural ==
  ASSUME NEW a, Tabbed(a)
  PROVE  a.size \in Nat \X Nat
BY DEF Tabbed

(* The panes shown are panes of the tab, the active one among them. *)
LEMMA ShownPanes ==
  ASSUME NEW a, Tabbed(a)
  PROVE  Shown(a) \subseteq Panes(a) /\ a.active \in Shown(a)
BY DEF Tabbed, Shown, Panes

(* A pane's place is made of natural numbers. *)
LEMMA PlaceNatural ==
  ASSUME NEW a, Tabbed(a), NEW id \in Panes(a)
  PROVE  /\ PositionOf(a, id).col \in Nat /\ PositionOf(a, id).row \in Nat
         /\ PositionOf(a, id).cols \in Nat /\ PositionOf(a, id).rows \in Nat
<1>1. L!IsTree(a.root) /\ id \in L!Leaves(a.root) /\ a.size \in Nat \X Nat
  BY Natural DEF Tabbed, Panes
<1>2. CASE a.fullscreen = None
  BY <1>1, <1>2, PlaceIs DEF PositionOf
<1>3. CASE a.fullscreen # None
  BY <1>1, <1>3 DEF PositionOf, WholeArea
<1> QED BY <1>2, <1>3

(* The list of the places has panes that are shown. *)
LEMMA PositionsAre ==
  ASSUME NEW a, Tabbed(a)
  PROVE  /\ \E n \in Nat : DOMAIN Positions(a) = 1..n
         /\ \A i \in DOMAIN Positions(a) : Positions(a)[i].id \in Shown(a)
<1>1. CASE a.fullscreen = None
  <2>1. L!IsTree(a.root) /\ L!Leaves(a.root) = Shown(a)
    BY <1>1 DEF Tabbed, Shown, Panes
  <2>2. Positions(a) = L!compute_positions(a.root, a.size)
    BY <1>1 DEF Positions
  <2> QED BY <2>1, <2>2, PlacesAre
<1>2. CASE a.fullscreen # None
  <2>1. Positions(a) = <<WholeArea(a)>> /\ Shown(a) = {a.fullscreen}
    BY <1>2 DEF Positions, Shown
  <2>2. DOMAIN Positions(a) = 1..1 /\ Positions(a)[1] = WholeArea(a)
    BY <2>1
  <2> QED BY <2>1, <2>2 DEF WholeArea
<1> QED BY <1>1, <1>2

(* Screens go on fitting when neither places nor sizes change. *)
LEMMA SteadyFits ==
  ASSUME NEW a, NEW b, Tabbed(b), Steady(a, b), Fitted(a)
  PROVE  Fitted(b)
<1>0. Shown(b) = Shown(a) /\ Shown(b) \subseteq Panes(b)
  BY ShownPanes DEF Steady, Shown
<1>1. ASSUME NEW id \in Shown(b)
      PROVE  Sized(b.screens[id], PositionOf(b, id).cols, PositionOf(b, id).rows)
  <2>1. ScreenOK(b.screens[id])
    BY <1>0 DEF Tabbed, Panes
  <2>2. PositionOf(b, id) = PositionOf(a, id) /\ id \in Shown(a)
        /\ b.screens[id].cols = a.screens[id].cols /\ Rows(b.screens[id]) = Rows(a.screens[id])
    BY <1>0, <1>1 DEF Steady, PositionOf, WholeArea
  <2>3. a.screens[id].cols = PositionOf(a, id).cols /\ Rows(a.screens[id]) = PositionOf(a, id).rows
    BY <2>2 DEF Fitted, Sized
  <2> QED BY <2>1, <2>2, <2>3 DEF Sized
<1> QED BY <1>1 DEF Fitted

(* sync_pty_sizes. *)
LEMMA SyncFits ==
  ASSUME NEW a, Tabbed(a)
  PROVE  LET b == sync_pty_sizes(a)
         IN  /\ Tabbed(b) /\ Fitted(b) /\ Panes(b) = Panes(a)
             /\ \A f \in AppFields \ {"screens"} : b[f] = a[f]
<1> DEFINE S == [id \in Panes(a) |-> IF id \in Shown(a) THEN Synced(a, id) ELSE a.screens[id]]
           b == [a EXCEPT !.screens = S]
<1>1. sync_pty_sizes(a) = b
  BY DEF sync_pty_sizes
<1>2. DOMAIN a = AppFields
  BY DEF Tabbed
<1>3. DOMAIN b = AppFields /\ b.screens = S /\ \A f \in AppFields \ {"screens"} : b[f] = a[f]
  <2> HIDE DEF S
  <2> QED BY <1>2 DEF AppFields
<1>4. DOMAIN S = Panes(a) /\ S = [id \in DOMAIN S |-> S[id]]
  OBVIOUS
<1>5. ASSUME NEW id \in Shown(a)
      PROVE  Sized(S[id], PositionOf(a, id).cols, PositionOf(a, id).rows)
  <2>1. id \in Panes(a)
    BY <1>5, ShownPanes
  <2>2. PositionOf(a, id).cols \in Nat /\ PositionOf(a, id).rows \in Nat
    BY <2>1, PlaceNatural
  <2>3. ScreenOK(a.screens[id])
    BY <2>1 DEF Tabbed, Panes
  <2>4. Sized(Synced(a, id), PositionOf(a, id).cols, PositionOf(a, id).rows)
    BY <2>2, <2>3, ResizeScreenIs DEF Synced
  <2>5. S[id] = Synced(a, id)
    BY <1>5, <2>1
  <2> HIDE DEF S
  <2> QED BY <2>4, <2>5
<1>9. ASSUME NEW id \in Panes(a), id \notin Shown(a) PROVE ScreenOK(S[id])
  <2>1. S[id] = a.screens[id]
    BY <1>9
  <2> HIDE DEF S
  <2> QED BY <1>9, <2>1 DEF Tabbed, Panes
<1> HIDE DEF S, b
<1>6. /\ b.root = a.root /\ b.size = a.size /\ b.next = a.next /\ b.active = a.active
      /\ b.fullscreen = a.fullscreen /\ Panes(b) = Panes(a)
  BY <1>3, <1>4 DEF AppFields, Panes
<1>7. Fitted(b)
  <2>1. Shown(b) = Shown(a) /\ \A id \in Shown(b) : PositionOf(b, id) = PositionOf(a, id)
    BY <1>6 DEF PositionOf, WholeArea, Shown
  <2> QED BY <1>3, <1>5, <2>1 DEF Fitted
<1>8. Tabbed(b)
  <2>1. \A id \in Panes(a) : ScreenOK(b.screens[id])
    BY <1>3, <1>5, <1>9 DEF Sized
  <2> QED BY <1>3, <1>4, <1>6, <2>1 DEF Tabbed, Panes
<1> QED BY <1>1, <1>3, <1>6, <1>7, <1>8

(* Full screen is entered or left. *)
LEMMA FullscreenIs ==
  ASSUME NEW a, AppOK(a), NEW v \in {None, a.active}
  PROVE  LET b == [a EXCEPT !.fullscreen = v]
         IN  /\ AppOK(b) /\ Settled(a, b) /\ SameModes(a, b) /\ SameDrag(a, b) /\ b.fit = a.fit
             /\ b.active = a.active /\ b.screens = a.screens
<1> DEFINE b == [a EXCEPT !.fullscreen = v]
<1>1. DOMAIN a = AppFields
  BY DEF AppOK, Tabbed
<1>2. /\ DOMAIN b = AppFields /\ b.root = a.root /\ b.size = a.size /\ b.next = a.next
      /\ b.active = a.active /\ b.fullscreen = v /\ b.screens = a.screens /\ b.fit = a.fit
      /\ SameModes(a, b) /\ SameDrag(a, b)
  BY <1>1 DEF AppFields, SameModes, SameDrag
<1> HIDE DEF b
<1>3. Moded(b)
  BY <1>2, ModesKept DEF AppOK, Moded
<1>4. Tabbed(b)
  BY <1>2 DEF AppOK, Tabbed
<1>5. Settled(a, b)
  BY <1>2 DEF Settled, Steady, Panes
<1> QED BY <1>2, <1>3, <1>4, <1>5 DEF AppOK, b

(* Another active pane. *)
LEMMA FocusIs ==
  ASSUME NEW a, AppOK(a), NEW id \in Panes(a)
  PROVE  LET b == Focus(a, id)
         IN  /\ AppOK(b) /\ Settled(a, b) /\ SameModes(a, b) /\ SameDrag(a, b) /\ b.fit = a.fit
             /\ b.screens = a.screens /\ b.active = id
             /\ a.fullscreen = None => Steady(a, b)
<1> DEFINE b == Focus(a, id)
<1>1. DOMAIN a = AppFields
  BY DEF AppOK, Tabbed
<1>2. /\ DOMAIN b = AppFields /\ b.root = a.root /\ b.size = a.size /\ b.next = a.next
      /\ b.active = id /\ b.fullscreen = None /\ b.screens = a.screens /\ b.fit = a.fit
      /\ SameModes(a, b) /\ SameDrag(a, b)
  BY <1>1 DEF AppFields, SameModes, SameDrag, Focus
<1> HIDE DEF b
<1>3. Moded(b)
  BY <1>2, ModesKept DEF AppOK, Moded
<1>4. Tabbed(b)
  BY <1>2 DEF AppOK, Tabbed, Panes
<1>5. Settled(a, b) /\ (a.fullscreen = None => Steady(a, b))
  BY <1>2 DEF Settled, Steady, Panes
<1> QED BY <1>2, <1>3, <1>4, <1>5 DEF AppOK, b

(* The focus goes to a pane of the tab. *)
LEMMA FocusDirectionIs ==
  ASSUME NEW a, AppOK(a), NEW direction
  PROVE  LET b == FocusDirection(a, direction)
         IN  /\ AppOK(b) /\ Settled(a, b) /\ SameModes(a, b) /\ SameDrag(a, b) /\ b.fit = a.fit
             /\ b.screens = a.screens
<1> DEFINE N == L!find_neighbor_in_direction(a.root, a.size, a.active, direction)
           id == CHOOSE i \in N : TRUE
<1>1. N \subseteq Panes(a)
  BY NeighborIs DEF AppOK, Tabbed, Panes
<1>2. CASE N = {}
  <2>1. FocusDirection(a, direction) = a
    BY <1>2 DEF FocusDirection, FocusOneOf
  <2> QED BY <2>1 DEF Settled, Steady, SameModes, SameDrag
<1>3. CASE N # {}
  <2>1. id \in Panes(a)
    <3> HIDE DEF N
    <3> QED BY <1>1, <1>3
  <2>2. FocusDirection(a, direction) = Focus(a, id)
    BY <1>3 DEF FocusDirection, FocusOneOf
  <2> HIDE DEF N, id
  <2> QED BY <2>1, <2>2, FocusIs
<1> QED BY <1>2, <1>3

(* Tab::split_pane. *)
LEMMA SplitIs ==
  ASSUME NEW a, AppOK(a), NEW direction \in {"Vertical", "Horizontal"}
  PROVE  LET b == dispatch_split_pane(a, direction)
         IN  AppOK(b) /\ SameModes(a, b) /\ SameDrag(a, b) /\ (Settled(a, b) \/ b.fit = TRUE)
<1> DEFINE root == L!SplitLeaf(a.root, a.active, a.next, direction)
           p == L!PositionOf(root, a.size, a.next)
           S == [id \in Panes(a) \cup {a.next} |-> IF id = a.next THEN NewScreen(p.cols, p.rows) ELSE a.screens[id]]
           n == a.next
           b == [a EXCEPT !.root = root, !.active = n, !.next = @ + 1, !.fit = TRUE,
                          !.fullscreen = None, !.screens = S]
<1>1. CASE n = MaxPaneId \/ ~L!can_split(a.root, a.size, a.active, direction)
  <2>1. dispatch_split_pane(a, direction) = [a EXCEPT !.fullscreen = None]
    BY <1>1 DEF dispatch_split_pane
  <2> QED BY <2>1, FullscreenIs
<1>2. CASE ~(n = MaxPaneId \/ ~L!can_split(a.root, a.size, a.active, direction))
  <2>1. dispatch_split_pane(a, direction) = b
    BY <1>2 DEF dispatch_split_pane
  <2>2. /\ DOMAIN a = AppFields /\ L!IsTree(a.root) /\ a.size \in Nat \X Nat
        /\ L!Leaves(a.root) = Panes(a) /\ Panes(a) \subseteq PaneId /\ n \in Nat /\ n <= MaxPaneId
        /\ a.active \in Panes(a) /\ \A id \in Panes(a) : ScreenOK(a.screens[id]) /\ id < n
    BY Natural DEF AppOK, Tabbed, Panes
  <2>3. n \notin Panes(a) /\ n \in PaneId /\ n + 1 <= MaxPaneId /\ n + 1 \in Nat
    <3>1. MaxPaneId \in Nat
      BY InputModesAssumption
    <3> QED BY <1>2, <2>2, <3>1 DEF PaneId
  <2>4. L!IsTree(root) /\ L!Leaves(root) = Panes(a) \cup {n}
    BY <2>2, <2>3, TreeSplit
  <2>5. Sized(NewScreen(p.cols, p.rows), p.cols, p.rows)
    <3>1. p.cols \in Nat /\ p.rows \in Nat
      <4> HIDE DEF root
      <4> QED BY <2>2, <2>4, PlaceIs
    <3> QED BY <3>1, NewScreenIs
  <2>6. DOMAIN S = Panes(a) \cup {n} /\ S = [id \in DOMAIN S |-> S[id]]
    OBVIOUS
  <2>7. ASSUME NEW id \in Panes(a) \cup {n} PROVE ScreenOK(S[id]) /\ id < n + 1
    <3>1. CASE id = n
      BY <2>2, <2>5, <3>1 DEF Sized
    <3>2. CASE id # n
      <4>1. id \in Panes(a) /\ S[id] = a.screens[id]
        BY <2>7, <3>2
      <4>2. id \in Nat
        BY <2>2, <4>1 DEF PaneId
      <4> QED BY <2>2, <4>1, <4>2
    <3> QED BY <3>1, <3>2
  <2> HIDE DEF S, root, p
  <2>8. /\ DOMAIN b = AppFields /\ b.root = root /\ b.size = a.size /\ b.next = n + 1
        /\ b.active = n /\ b.fullscreen = None /\ b.screens = S /\ b.fit = TRUE
        /\ SameModes(a, b) /\ SameDrag(a, b)
    BY <2>2 DEF AppFields, SameModes, SameDrag
  <2> HIDE DEF b
  <2>9. Moded(b)
    BY <2>8, ModesKept DEF AppOK
  <2>10. Tabbed(b)
    <3>1. a.size \in (Nat \ {0}) \X (Nat \ {0})
      BY DEF AppOK, Tabbed
    <3> QED BY <2>2, <2>3, <2>4, <2>6, <2>7, <2>8, <3>1 DEF Tabbed
  <2> QED BY <2>1, <2>8, <2>9, <2>10 DEF AppOK
<1> QED BY <1>1, <1>2

(* Tab::close_pane. *)
LEMMA CloseIs ==
  ASSUME NEW a, AppOK(a), NEW id \in Panes(a), Cardinality(Panes(a)) > 1
  PROVE  LET b == ClosePane(a, id)
         IN  AppOK(b) /\ SameModes(a, b) /\ SameDrag(a, b) /\ b.fit = a.fit
<1> DEFINE root == L!RemovePane(a.root, id)
           S == [i \in Panes(a) \ {id} |-> a.screens[i]]
           b == [a EXCEPT !.root = root, !.active = IF @ = id THEN Head(L!pane_ids(root)) ELSE @,
                          !.fullscreen = IF @ = id THEN None ELSE @, !.screens = S]
<1>1. /\ DOMAIN a = AppFields /\ L!IsTree(a.root) /\ a.size \in (Nat \ {0}) \X (Nat \ {0})
      /\ L!Leaves(a.root) = Panes(a) /\ Panes(a) \subseteq PaneId /\ a.next \in Nat /\ a.next <= MaxPaneId
      /\ a.active \in Panes(a) /\ \A i \in Panes(a) : ScreenOK(a.screens[i]) /\ i < a.next
      /\ a.fullscreen \in {None, a.active}
  BY DEF AppOK, Tabbed, Panes
<1>2. L!IsTree(root) /\ L!Leaves(root) = Panes(a) \ {id}
  <2>1. ~L!IsLeaf(a.root)
    BY <1>1, SeveralPanes
  <2> QED BY <1>1, <2>1, TreeRemove
<1>3. ClosePane(a, id) = b
  BY DEF ClosePane
<1>4. Head(L!pane_ids(root)) \in Panes(a) \ {id}
  BY <1>2, FirstPaneIs
<1>5. DOMAIN S = Panes(a) \ {id} /\ S = [i \in DOMAIN S |-> S[i]]
      /\ \A i \in Panes(a) \ {id} : S[i] = a.screens[i]
  OBVIOUS
<1> HIDE DEF S, root
<1>6. /\ DOMAIN b = AppFields /\ b.root = root /\ b.size = a.size /\ b.next = a.next
      /\ b.active = (IF a.active = id THEN Head(L!pane_ids(root)) ELSE a.active)
      /\ b.fullscreen = (IF a.fullscreen = id THEN None ELSE a.fullscreen)
      /\ b.screens = S /\ b.fit = a.fit /\ SameModes(a, b) /\ SameDrag(a, b)
  BY <1>1 DEF AppFields, SameModes, SameDrag
<1> HIDE DEF b
<1>7. Moded(b)
  BY <1>6, ModesKept DEF AppOK, Moded
<1>8. Tabbed(b)
  BY <1>1, <1>2, <1>4, <1>5, <1>6 DEF Tabbed
<1> QED BY <1>3, <1>6, <1>7, <1>8 DEF AppOK

(* Tab::resize_pane. *)
LEMMA ResizePaneIs ==
  ASSUME NEW a, AppOK(a), NEW id, NEW axis \in {"Vertical", "Horizontal"}, NEW amount \in Int
  PROVE  LET b == resize_pane(a, id, axis, amount)
         IN  /\ AppOK(b) /\ SameModes(a, b) /\ SameDrag(a, b) /\ b.fit = a.fit
             /\ b.active = a.active /\ b.fullscreen = a.fullscreen /\ b.screens = a.screens
<1> DEFINE total == IF axis = "Vertical" THEN a.size[1] ELSE a.size[2]
           root == L!adjust_ratio(a.root, id, axis, L!RatioDelta(amount, total))
           b == [a EXCEPT !.root = root]
<1>1. CASE id \notin Panes(a) \/ amount = 0
  <2>1. resize_pane(a, id, axis, amount) = a
    BY <1>1 DEF resize_pane
  <2> QED BY <2>1 DEF SameModes, SameDrag
<1>2. CASE ~(id \notin Panes(a) \/ amount = 0)
  <2>1. resize_pane(a, id, axis, amount) = b
    BY <1>2 DEF resize_pane
  <2>2. /\ DOMAIN a = AppFields /\ L!IsTree(a.root) /\ a.size \in (Nat \ {0}) \X (Nat \ {0})
        /\ L!Leaves(a.root) = Panes(a)
    BY DEF AppOK, Tabbed, Panes
  <2>3. total \in Int /\ total > 0
    BY <2>2
  <2>4. L!IsTree(root) /\ L!Leaves(root) = Panes(a)
    <3> HIDE DEF total
    <3> QED BY <1>2, <2>2, <2>3, TreeAdjust
  <2> HIDE DEF root
  <2>5. /\ DOMAIN b = AppFields /\ b.root = root /\ b.size = a.size /\ b.next = a.next
        /\ b.active = a.active /\ b.fullscreen = a.fullscreen /\ b.screens = a.screens
        /\ b.fit = a.fit /\ SameModes(a, b) /\ SameDrag(a, b)
    BY <2>2 DEF AppFields, SameModes, SameDrag
  <2> HIDE DEF b
  <2>6. Moded(b)
    BY <2>5, ModesKept DEF AppOK, Moded
  <2>7. Tabbed(b)
    BY <2>4, <2>5 DEF AppOK, Tabbed, Panes
  <2> QED BY <2>1, <2>5, <2>6, <2>7 DEF AppOK
<1> QED BY <1>1, <1>2

-----------------------------------------------------------------------------
(* Commands *)

(* What each command does, a tuple with what it is about. *)
LEMMA KeysDispatch ==
  ASSUME NEW a, NEW x
  PROVE  /\ dispatch(a, <<"SplitPane", x>>) = dispatch_split_pane(a, x)
         /\ dispatch(a, <<"CloseActivePane">>) = dispatch_close_active_pane(a)
         /\ dispatch(a, <<"FocusDirection", x>>) = FocusDirection(a, x)
         /\ dispatch(a, <<"ToggleFullscreen">>) = ToggleFullscreen(a)
         /\ dispatch(a, <<"NextTab">>) = a /\ dispatch(a, <<"PrevTab">>) = a
         /\ dispatch(a, <<"CloseTab">>) = a /\ dispatch(a, <<"ToggleFloat">>) = a
         /\ dispatch(a, <<"ScrollUp">>)
              = ScrollPane(a, a.active, ScrollViewportUp(Screen(a), half_page(Screen(a))))
         /\ dispatch(a, <<"ScrollDown">>)
              = ScrollPane(a, a.active, ScrollViewportDown(Screen(a), half_page(Screen(a))))
         /\ dispatch(a, <<"EnterSearchMode">>) = EnterSearchMode(a)
         /\ dispatch(a, <<"ExitSearchMode">>) = [a EXCEPT !.input_mode = "Normal"]
         /\ dispatch(a, <<"SearchAppendChar", x>>) = SearchAppendChar(a, x)
         /\ dispatch(a, <<"SearchDeleteChar">>) = SearchDeleteChar(a)
         /\ dispatch(a, <<"SearchNextMatch">>) = SearchNextMatch(a)
         /\ dispatch(a, <<"SearchPrevMatch">>) = SearchPrevMatch(a)
         /\ dispatch(a, <<"EnterCopyMode">>) = EnterCopyMode(a)
         /\ dispatch(a, <<"ExitCopyMode">>) = ExitCopyMode(a)
         /\ dispatch(a, <<"CopyToggleSelection">>) = CopyToggleSelection(a)
         /\ dispatch(a, <<"CopyYank">>) = CopyYank(a)
         /\ dispatch(a, <<"ForwardKeyToPty">>) = ForwardKeyToPty(a)
         /\ dispatch(a, <<"ForwardPaste">>) = [a EXCEPT !.sent = @ \cup {<<"paste", a.active>>}]
BY DEF dispatch, CopyMoves, NoOtherTabNorFloat

(* The moves of copy mode. *)
LEMMA MovesDispatch ==
  ASSUME NEW a, NEW command \in CopyMoves
  PROVE  dispatch(a, <<command>>) = copy_move(a, command)
BY DEF dispatch, CopyMoves, NoOtherTabNorFloat

(* The commands of the mouse. *)
LEMMA MouseDispatch ==
  ASSUME NEW a, NEW x, NEW y
  PROVE  /\ dispatch(a, <<"FocusPane", x>>) = FocusPane(a, x)
         /\ dispatch(a, <<"StartBorderDrag", x>>) = [a EXCEPT !.border_drag = x]
         /\ dispatch(a, <<"ContinueBorderDrag", x>>) = ContinueBorderDrag(a, x)
         /\ dispatch(a, <<"EndBorderDrag">>) = EndBorderDrag(a)
         /\ dispatch(a, <<"StartMouseSelection", x, y>>)
              = [a EXCEPT !.mouse_selection = [pane_id |-> x, selection |-> SelectFrom(y, "Normal")]]
         /\ dispatch(a, <<"ExtendMouseSelection", x>>)
              = [a EXCEPT !.mouse_selection.selection = Extend(@, x)]
         /\ dispatch(a, <<"FinalizeMouseSelection">>) = FinalizeMouseSelection(a)
         /\ dispatch(a, <<"ForwardMouseToPty", x>>) = [a EXCEPT !.sent = @ \cup {<<"mouse", x>>}]
         /\ dispatch(a, <<"ScrollPaneUp", x>>)
              = ScrollPane(a, x, ScrollViewportUp(a.screens[x], WHEEL_LINES))
         /\ dispatch(a, <<"ScrollPaneDown", x>>)
              = ScrollPane(a, x, ScrollViewportDown(a.screens[x], WHEEL_LINES))
         /\ dispatch(a, <<"Resize", x>>) = Resize(a, x)
BY DEF dispatch, CopyMoves, NoOtherTabNorFloat

-----------------------------------------------------------------------------
(* Steps of keys *)

(* The cursor of copy mode is in the active pane. *)
CopyIn(a) ==
  a.copy_mode # None =>
    /\ a.copy_mode.row <= Most(Rows(Screen(a)) - 1, 0)
    /\ a.copy_mode.col <= Most(Screen(a).cols - 1, 0)

(* What a command may do to copy mode: leave it, end it, or put the cursor  *)
(* into the pane, unless it was outside before; the latter without fitting  *)
(* the screens.                                                             *)
CopyStep(a, b) ==
  \/ b.copy_mode = a.copy_mode
  \/ b.copy_mode = None
  \/ ~b.fit /\ CopyIn(b)
  \/ ~b.fit /\ a.copy_mode # None /\ (CopyIn(a) => CopyIn(b))

(* A command for a key. *)
KeyStep(a, b) ==
  /\ AppOK(b) /\ SameDrag(a, b) /\ CopyStep(a, b)
  /\ b.fit \/ Settled(a, b)

(* A command that only looks at the tab. *)
LEMMA ModeStep ==
  ASSUME NEW a, AppOK(a), NEW b, DOMAIN b = AppFields, SameTab(a, b), SameDrag(a, b), b.fit = a.fit,
         b.input_mode \in {"Normal", "Search", "Copy"},
         b.input_mode = "Copy" <=> b.copy_mode # None,
         b.copy_mode \in CopyModeState \cup {None},
         CopyStep(a, b)
  PROVE  KeyStep(a, b)
<1>1. Tabbed(b) /\ Steady(a, b)
  BY TabKept DEF AppOK
<1>2. Moded(b)
  BY DEF AppOK, Moded, SameDrag
<1> QED BY <1>1, <1>2 DEF KeyStep, AppOK, Settled

(* The part of a screen that is shown, or its wish for the mouse. *)
LEMMA ScreenStep ==
  ASSUME NEW a, AppOK(a), NEW id \in Panes(a), NEW t,
         Sized(t, a.screens[id].cols, Rows(a.screens[id])),
         NEW b, DOMAIN b = AppFields, b.root = a.root, b.size = a.size, b.next = a.next,
         b.active = a.active, b.fullscreen = a.fullscreen,
         b.screens = [a.screens EXCEPT ![id] = t], b.fit = a.fit,
         SameModes(a, b), SameDrag(a, b)
  PROVE  KeyStep(a, b) /\ Steady(a, b)
<1>1. /\ DOMAIN b.screens = Panes(a) /\ b.screens = [i \in DOMAIN b.screens |-> b.screens[i]]
      /\ \A i \in Panes(a) : b.screens[i] = IF i = id THEN t ELSE a.screens[i]
  BY DEF Panes
<1>2. ASSUME NEW i \in Panes(a)
      PROVE  /\ ScreenOK(b.screens[i])
             /\ b.screens[i].cols = a.screens[i].cols /\ Rows(b.screens[i]) = Rows(a.screens[i])
  <2>1. ScreenOK(a.screens[i])
    BY DEF AppOK, Tabbed, Panes
  <2> QED BY <1>1, <2>1 DEF Sized
<1>3. Tabbed(b)
  BY <1>1, <1>2 DEF AppOK, Tabbed, Panes
<1>4. Steady(a, b)
  BY <1>1, <1>2 DEF Steady, Panes
<1>5. Moded(b)
  BY ModesKept DEF AppOK, Moded
<1> QED BY <1>3, <1>4, <1>5 DEF KeyStep, AppOK, CopyStep, SameModes, Settled

(* The active pane has a screen. *)
LEMMA ActiveScreen ==
  ASSUME NEW a, AppOK(a)
  PROVE  /\ a.active \in Panes(a) /\ ScreenOK(Screen(a)) /\ DOMAIN a = AppFields
         /\ Rows(Screen(a)) \in Nat /\ Screen(a).cols \in Nat /\ Screen(a).row \in Nat
         /\ Len(Screen(a).sb) \in Nat /\ Screen(a).row <= Most(Rows(Screen(a)) - 1, 0)
<1>1. a.active \in Panes(a) /\ ScreenOK(Screen(a)) /\ DOMAIN a = AppFields
  BY DEF AppOK, Tabbed, Panes, Screen
<1> QED BY <1>1, ScreenHas

(* Scrolling a pane. *)
LEMMA ScrollPaneStep ==
  ASSUME NEW a, AppOK(a), NEW id \in Panes(a), NEW n \in Nat
  PROVE  /\ KeyStep(a, ScrollPane(a, id, ScrollViewportUp(a.screens[id], n)))
         /\ KeyStep(a, ScrollPane(a, id, ScrollViewportDown(a.screens[id], n)))
         /\ Steady(a, ScrollPane(a, id, ScrollViewportUp(a.screens[id], n)))
         /\ Steady(a, ScrollPane(a, id, ScrollViewportDown(a.screens[id], n)))
         /\ ScrollPane(a, id, ScrollViewportUp(a.screens[id], n)).fit = a.fit
         /\ ScrollPane(a, id, ScrollViewportDown(a.screens[id], n)).fit = a.fit
<1>1. ASSUME NEW t, Sized(t, a.screens[id].cols, Rows(a.screens[id]))
      PROVE  KeyStep(a, ScrollPane(a, id, t)) /\ Steady(a, ScrollPane(a, id, t))
             /\ ScrollPane(a, id, t).fit = a.fit
  <2> DEFINE b == [a EXCEPT !.screens[id] = t]
  <2>1. DOMAIN a = AppFields
    BY DEF AppOK, Tabbed
  <2>2. /\ DOMAIN b = AppFields /\ b.root = a.root /\ b.size = a.size /\ b.next = a.next
        /\ b.active = a.active /\ b.fullscreen = a.fullscreen
        /\ b.screens = [a.screens EXCEPT ![id] = t] /\ b.fit = a.fit
        /\ SameModes(a, b) /\ SameDrag(a, b)
    BY <2>1 DEF AppFields, SameModes, SameDrag
  <2>3. ScrollPane(a, id, t) = b
    BY DEF ScrollPane
  <2> HIDE DEF b
  <2> QED BY <1>1, <2>2, <2>3, ScreenStep
<1>2. ScreenOK(a.screens[id])
  BY DEF AppOK, Tabbed, Panes
<1> QED BY <1>1, <1>2, ScrollsAre

(* Half a page is some rows. *)
LEMMA HalfPage ==
  ASSUME NEW a, AppOK(a)
  PROVE  half_page(Screen(a)) \in Nat /\ WHEEL_LINES \in Nat
<1>1. Rows(Screen(a)) \div 2 \in Int
  BY ActiveScreen
<1> QED BY <1>1 DEF half_page, WHEEL_LINES, Most

(* A key for the program. *)
LEMMA ForwardKeyStep ==
  ASSUME NEW a, AppOK(a)
  PROVE  KeyStep(a, ForwardKeyToPty(a)) /\ ForwardKeyToPty(a).fit = a.fit
<1> DEFINE t == [Screen(a) EXCEPT !.off = 0]
           b == [a EXCEPT !.screens[a.active].off = 0, !.sent = @ \cup {<<"key", a.active>>}]
<1>1. a.active \in Panes(a) /\ ScreenOK(Screen(a)) /\ DOMAIN a = AppFields
  BY ActiveScreen
<1>2. Sized(t, Screen(a).cols, Rows(Screen(a)))
  BY <1>1, ViewMoved
<1>3. /\ DOMAIN b = AppFields /\ b.root = a.root /\ b.size = a.size /\ b.next = a.next
      /\ b.active = a.active /\ b.fullscreen = a.fullscreen
      /\ b.screens = [a.screens EXCEPT ![a.active] = t] /\ b.fit = a.fit
      /\ SameModes(a, b) /\ SameDrag(a, b)
  BY <1>1 DEF AppFields, SameModes, SameDrag, Screen
<1>4. ForwardKeyToPty(a) = b
  BY DEF ForwardKeyToPty
<1> HIDE DEF b, t
<1> QED BY <1>1, <1>2, <1>3, <1>4, ScreenStep DEF Screen

(* The search, and what leaves everything alone but what was sent. *)
LEMMA SearchSteps ==
  ASSUME NEW a, AppOK(a), NEW x
  PROVE  /\ a.input_mode = "Normal" => KeyStep(a, EnterSearchMode(a)) /\ EnterSearchMode(a).fit = a.fit
         /\ a.input_mode = "Search" => KeyStep(a, [a EXCEPT !.input_mode = "Normal"])
                                       /\ [a EXCEPT !.input_mode = "Normal"].fit = a.fit
         /\ KeyStep(a, SearchAppendChar(a, x)) /\ SearchAppendChar(a, x).fit = a.fit
         /\ KeyStep(a, SearchDeleteChar(a)) /\ SearchDeleteChar(a).fit = a.fit
         /\ KeyStep(a, SearchNextMatch(a)) /\ SearchNextMatch(a).fit = a.fit
         /\ KeyStep(a, SearchPrevMatch(a)) /\ SearchPrevMatch(a).fit = a.fit
         /\ KeyStep(a, [a EXCEPT !.sent = @ \cup {x}]) /\ [a EXCEPT !.sent = @ \cup {x}].fit = a.fit
<1>1. /\ DOMAIN a = AppFields /\ a.input_mode \in {"Normal", "Search", "Copy"}
      /\ a.input_mode = "Copy" <=> a.copy_mode # None
      /\ a.copy_mode \in CopyModeState \cup {None}
  BY DEF AppOK, Moded
<1>2. ASSUME NEW b, DOMAIN b = AppFields, SameTab(a, b), SameDrag(a, b), b.fit = a.fit,
             SameModes(a, b)
      PROVE  KeyStep(a, b) /\ b.fit = a.fit
  BY <1>1, <1>2, ModeStep DEF SameModes, CopyStep
<1>3. ASSUME NEW b, DOMAIN b = AppFields
      PROVE  LET c == run_search(b) IN
             /\ DOMAIN c = AppFields /\ SameTab(b, c) /\ SameDrag(b, c) /\ c.fit = b.fit /\ SameModes(b, c)
  <2> DEFINE state == IF b.search_query = <<>> THEN NoSearch
                      ELSE FreshSearch(b.search_query, find_all_matches(LiveTexts(Screen(b)), b.search_query))
             c == [b EXCEPT !.search_state = state]
  <2>1. run_search(b) = c
    BY DEF run_search
  <2> HIDE DEF state
  <2> QED BY <1>3, <2>1 DEF AppFields, SameTab, SameDrag, SameModes
<1>4. a.input_mode = "Normal" => KeyStep(a, EnterSearchMode(a)) /\ EnterSearchMode(a).fit = a.fit
  <2> DEFINE b == EnterSearchMode(a)
  <2>1. /\ DOMAIN b = AppFields /\ SameTab(a, b) /\ SameDrag(a, b) /\ b.fit = a.fit
        /\ b.input_mode = "Search" /\ b.copy_mode = a.copy_mode
    BY <1>1 DEF EnterSearchMode, AppFields, SameTab, SameDrag
  <2> HIDE DEF b
  <2>2. SUFFICES ASSUME a.input_mode = "Normal" PROVE KeyStep(a, b) /\ b.fit = a.fit
    BY DEF b
  <2> QED BY <1>1, <2>1, <2>2, ModeStep DEF CopyStep
<1>5. a.input_mode = "Search" => KeyStep(a, [a EXCEPT !.input_mode = "Normal"])
                                 /\ [a EXCEPT !.input_mode = "Normal"].fit = a.fit
  <2> DEFINE b == [a EXCEPT !.input_mode = "Normal"]
  <2>1. /\ DOMAIN b = AppFields /\ SameTab(a, b) /\ SameDrag(a, b) /\ b.fit = a.fit
        /\ b.input_mode = "Normal" /\ b.copy_mode = a.copy_mode
    BY <1>1 DEF AppFields, SameTab, SameDrag
  <2> HIDE DEF b
  <2>2. SUFFICES ASSUME a.input_mode = "Search" PROVE KeyStep(a, b) /\ b.fit = a.fit
    BY DEF b
  <2> QED BY <1>1, <2>1, <2>2, ModeStep DEF CopyStep
<1>6. KeyStep(a, SearchAppendChar(a, x)) /\ SearchAppendChar(a, x).fit = a.fit
  <2> DEFINE b == [a EXCEPT !.search_query = Append(@, x)]
             c == run_search(b)
             d == [c EXCEPT !.search_direction_active = TRUE]
  <2>1. DOMAIN b = AppFields /\ SameTab(a, b) /\ SameDrag(a, b) /\ b.fit = a.fit /\ SameModes(a, b)
    BY <1>1 DEF AppFields, SameTab, SameDrag, SameModes
  <2> HIDE DEF b
  <2>2. DOMAIN c = AppFields /\ SameTab(b, c) /\ SameDrag(b, c) /\ c.fit = b.fit /\ SameModes(b, c)
    BY <1>3, <2>1
  <2>3. SearchAppendChar(a, x) = d
    BY DEF SearchAppendChar, b
  <2> HIDE DEF c
  <2>4. DOMAIN d = AppFields /\ SameTab(c, d) /\ SameDrag(c, d) /\ d.fit = c.fit /\ SameModes(c, d)
    BY <2>2 DEF AppFields, SameTab, SameDrag, SameModes
  <2> HIDE DEF d
  <2>5. SameTab(a, d) /\ SameDrag(a, d) /\ SameModes(a, d) /\ d.fit = a.fit
    BY <2>1, <2>2, <2>4 DEF SameTab, SameDrag, SameModes
  <2> QED BY <1>2, <2>3, <2>4, <2>5
<1>7. KeyStep(a, SearchDeleteChar(a)) /\ SearchDeleteChar(a).fit = a.fit
  <2> DEFINE b == [a EXCEPT !.search_query = IF @ = <<>> THEN @ ELSE Front(@)]
             c == run_search(b)
  <2>1. DOMAIN b = AppFields /\ SameTab(a, b) /\ SameDrag(a, b) /\ b.fit = a.fit /\ SameModes(a, b)
    BY <1>1 DEF AppFields, SameTab, SameDrag, SameModes
  <2> HIDE DEF b
  <2>2. DOMAIN c = AppFields /\ SameTab(b, c) /\ SameDrag(b, c) /\ c.fit = b.fit /\ SameModes(b, c)
    BY <1>3, <2>1
  <2>3. SearchDeleteChar(a) = c
    BY DEF SearchDeleteChar, b
  <2> HIDE DEF c
  <2>4. SameTab(a, c) /\ SameDrag(a, c) /\ SameModes(a, c) /\ c.fit = a.fit
    BY <2>1, <2>2 DEF SameTab, SameDrag, SameModes
  <2> QED BY <1>2, <2>2, <2>3, <2>4
<1>8. KeyStep(a, SearchNextMatch(a)) /\ SearchNextMatch(a).fit = a.fit
  <2> DEFINE b == SearchNextMatch(a)
  <2>1. DOMAIN b = AppFields /\ SameTab(a, b) /\ SameDrag(a, b) /\ b.fit = a.fit /\ SameModes(a, b)
    BY <1>1 DEF SearchNextMatch, AppFields, SameTab, SameDrag, SameModes
  <2> HIDE DEF b
  <2> QED BY <1>2, <2>1 DEF b
<1>9. KeyStep(a, SearchPrevMatch(a)) /\ SearchPrevMatch(a).fit = a.fit
  <2> DEFINE b == SearchPrevMatch(a)
  <2>1. DOMAIN b = AppFields /\ SameTab(a, b) /\ SameDrag(a, b) /\ b.fit = a.fit /\ SameModes(a, b)
    BY <1>1 DEF SearchPrevMatch, AppFields, SameTab, SameDrag, SameModes
  <2> HIDE DEF b
  <2> QED BY <1>2, <2>1 DEF b
<1>10. KeyStep(a, [a EXCEPT !.sent = @ \cup {x}]) /\ [a EXCEPT !.sent = @ \cup {x}].fit = a.fit
  <2> DEFINE b == [a EXCEPT !.sent = @ \cup {x}]
  <2>1. DOMAIN b = AppFields /\ SameTab(a, b) /\ SameDrag(a, b) /\ b.fit = a.fit /\ SameModes(a, b)
    BY <1>1 DEF AppFields, SameTab, SameDrag, SameModes
  <2> HIDE DEF b
  <2> QED BY <1>2, <2>1 DEF b
<1> QED BY <1>4, <1>5, <1>6, <1>7, <1>8, <1>9, <1>10

-----------------------------------------------------------------------------
(* Copy mode *)

(* A point and a selection that begins or ends at one. *)
LEMMA SelectionsAre ==
  ASSUME NEW p \in Points, NEW row \in Nat, NEW col \in Nat
  PROVE  /\ Point(row, col) \in Points
         /\ SelectFrom(p, "Normal") \in Selections
         /\ \A sel \in Selections : Extend(sel, p) \in Selections
BY DEF Point, Points, SelectFrom, Selections, SelectionMode, Extend

(* The cursor moves by whole cells, and from the pane into the pane. *)
LEMMA MoveCursorIs ==
  ASSUME NEW command \in CopyMoves, NEW row \in Nat, NEW col \in Nat,
         NEW s, Rows(s) \in Nat, s.cols \in Nat
  PROVE  LET to == MoveCursor(command, row, col, s)
             bottom == Most(Rows(s) - 1, 0)
             end == Most(s.cols - 1, 0)
         IN  /\ to[1] \in Nat /\ to[2] \in Nat
             /\ row <= bottom /\ col <= end => to[1] <= bottom /\ to[2] <= end
<1> DEFINE half == Rows(s) \div 2
           bottom == Most(Rows(s) - 1, 0)
           end == Most(s.cols - 1, 0)
<1>1. half \in Nat /\ bottom \in Nat /\ end \in Nat
  BY DEF Most
<1>2. /\ MoveCursor("CopyMoveLeft", row, col, s) = <<row, Most(col - 1, 0)>>
      /\ MoveCursor("CopyMoveDown", row, col, s) = <<Least(row + 1, bottom), col>>
      /\ MoveCursor("CopyMoveUp", row, col, s) = <<Most(row - 1, 0), col>>
      /\ MoveCursor("CopyMoveRight", row, col, s) = <<row, Least(col + 1, end)>>
      /\ MoveCursor("CopyStartOfLine", row, col, s) = <<row, 0>>
      /\ MoveCursor("CopyEndOfLine", row, col, s) = <<row, end>>
      /\ MoveCursor("CopyGotoTop", row, col, s) = <<0, col>>
      /\ MoveCursor("CopyGotoBottom", row, col, s) = <<bottom, col>>
      /\ MoveCursor("CopyHalfPageUp", row, col, s) = <<Most(row - half, 0), col>>
      /\ MoveCursor("CopyHalfPageDown", row, col, s) = <<Least(row + half, bottom), col>>
  BY DEF MoveCursor
<1>3. /\ Most(col - 1, 0) \in Nat /\ Most(col - 1, 0) <= col
      /\ Most(row - 1, 0) \in Nat /\ Most(row - 1, 0) <= row
      /\ Most(row - half, 0) \in Nat /\ Most(row - half, 0) <= row
      /\ Least(row + 1, bottom) \in Nat /\ Least(row + 1, bottom) <= bottom
      /\ Least(col + 1, end) \in Nat /\ Least(col + 1, end) <= end
      /\ Least(row + half, bottom) \in Nat /\ Least(row + half, bottom) <= bottom
  <2> HIDE DEF half, bottom, end
  <2> QED BY <1>1 DEF Most, Least
<1> HIDE DEF half, bottom, end
<1>4. LET to == MoveCursor(command, row, col, s)
      IN  /\ to[1] \in Nat /\ to[2] \in Nat
          /\ row <= bottom /\ col <= end => to[1] <= bottom /\ to[2] <= end
  BY <1>1, <1>2, <1>3 DEF CopyMoves
<1> QED BY <1>4 DEF bottom, end

(* The values of copy mode. *)
LEMMA CopyValues ==
  ASSUME NEW cm \in CopyModeState
  PROVE  /\ cm # None
         /\ DOMAIN cm = {"row", "col", "scrollback_len", "selection"}
         /\ cm.row \in Nat /\ cm.col \in Nat /\ cm.scrollback_len \in Nat
         /\ cm.selection \in Selections \cup {None}
         /\ CopyPoint(cm) \in Points
BY InputModesAssumption DEF CopyModeState, CopyPoint, Point, Points

(* Into copy mode and out of it. *)
LEMMA CopySteps ==
  ASSUME NEW a, AppOK(a)
  PROVE  /\ a.fit = FALSE => KeyStep(a, EnterCopyMode(a)) /\ EnterCopyMode(a).fit = a.fit
         /\ KeyStep(a, ExitCopyMode(a)) /\ ExitCopyMode(a).fit = a.fit
         /\ KeyStep(a, CopyYank(a)) /\ CopyYank(a).fit = a.fit
<1>1. DOMAIN a = AppFields
  BY DEF AppOK, Moded
<1>2. a.fit = FALSE => KeyStep(a, EnterCopyMode(a)) /\ EnterCopyMode(a).fit = a.fit
  <2> DEFINE b == EnterCopyMode(a)
             cm == [row |-> Screen(a).row, col |-> 0, scrollback_len |-> Len(Screen(a).sb), selection |-> None]
  <2>1. cm \in CopyModeState /\ cm # None
    BY ActiveScreen, CopyValues DEF CopyModeState
  <2>2. /\ DOMAIN b = AppFields /\ SameTab(a, b) /\ SameDrag(a, b) /\ b.fit = a.fit
        /\ b.input_mode = "Copy" /\ b.copy_mode = cm /\ Screen(b) = Screen(a)
    BY <1>1 DEF EnterCopyMode, AppFields, SameTab, SameDrag, Screen
  <2>3. cm.row <= Most(Rows(Screen(a)) - 1, 0) /\ cm.col <= Most(Screen(a).cols - 1, 0)
    BY ActiveScreen DEF Most
  <2> HIDE DEF b, cm
  <2>4. CopyIn(b)
    BY <2>2, <2>3 DEF CopyIn
  <2>5. SUFFICES ASSUME a.fit = FALSE PROVE KeyStep(a, b) /\ b.fit = a.fit
    BY DEF b
  <2> QED BY <2>1, <2>2, <2>4, <2>5, ModeStep DEF CopyStep
<1>3. ASSUME NEW b, DOMAIN b = AppFields, SameTab(a, b), SameDrag(a, b), b.fit = a.fit,
             b.input_mode = "Normal", b.copy_mode = None
      PROVE  KeyStep(a, b) /\ b.fit = a.fit
  BY <1>3, ModeStep DEF CopyStep
<1> DEFINE out == ExitCopyMode(a)
<1>4. /\ DOMAIN out = AppFields /\ SameTab(a, out) /\ SameDrag(a, out) /\ out.fit = a.fit
      /\ out.input_mode = "Normal" /\ out.copy_mode = None
  BY <1>1 DEF ExitCopyMode, AppFields, SameTab, SameDrag
<1>5. KeyStep(a, CopyYank(a)) /\ CopyYank(a).fit = a.fit
  <2> DEFINE sel == a.copy_mode.selection
             sent == IF sel = None THEN out.sent
                     ELSE IF get_text(sel, AllTexts(Screen(a))) = <<<<>>>> THEN out.sent
                     ELSE out.sent \cup {<<"clipboard", a.active>>}
             b == [out EXCEPT !.sent = sent]
  <2>1. CopyYank(a) = b
    BY DEF CopyYank
  <2> HIDE DEF out, sent
  <2>2. /\ DOMAIN b = AppFields /\ SameTab(out, b) /\ SameDrag(out, b) /\ b.fit = out.fit
        /\ b.input_mode = "Normal" /\ b.copy_mode = None
    BY <1>4 DEF AppFields, SameTab, SameDrag
  <2> HIDE DEF b
  <2>3. SameTab(a, b) /\ SameDrag(a, b)
    BY <1>4, <2>2 DEF SameTab, SameDrag
  <2> QED BY <1>3, <1>4, <2>1, <2>2, <2>3
<1>6. KeyStep(a, out) /\ out.fit = a.fit
  <2> HIDE DEF out
  <2> QED BY <1>3, <1>4
<1> QED BY <1>2, <1>5, <1>6

(* In copy mode: another state of it, which puts the cursor into the pane   *)
(* if it was there.                                                         *)
LEMMA CopyModeStep ==
  ASSUME NEW a, AppOK(a), a.fit = FALSE, a.input_mode = "Copy", NEW cm \in CopyModeState,
         CopyIn(a) => /\ cm.row <= Most(Rows(Screen(a)) - 1, 0)
                      /\ cm.col <= Most(Screen(a).cols - 1, 0)
  PROVE  LET b == [a EXCEPT !.copy_mode = cm] IN KeyStep(a, b) /\ b.fit = a.fit
<1> DEFINE b == [a EXCEPT !.copy_mode = cm]
<1>1. DOMAIN a = AppFields /\ a.copy_mode # None /\ cm # None
  BY CopyValues DEF AppOK, Moded
<1>2. /\ DOMAIN b = AppFields /\ SameTab(a, b) /\ SameDrag(a, b) /\ b.fit = a.fit
      /\ b.input_mode = a.input_mode /\ b.copy_mode = cm /\ Screen(b) = Screen(a)
  BY <1>1 DEF AppFields, SameTab, SameDrag, Screen
<1> HIDE DEF b
<1>3. CopyIn(a) => CopyIn(b)
  BY <1>2 DEF CopyIn
<1>4. CopyStep(a, b)
  BY <1>1, <1>2, <1>3 DEF CopyStep
<1> QED BY <1>1, <1>2, <1>4, ModeStep DEF b

(* Every move of copy mode keeps its cursor in the pane. *)
LEMMA CopyMovesStep ==
  ASSUME NEW a, AppOK(a), a.fit = FALSE, a.input_mode = "Copy", NEW command \in CopyMoves
  PROVE  KeyStep(a, copy_move(a, command)) /\ copy_move(a, command).fit = a.fit
<1> DEFINE c == a.copy_mode
           to == MoveCursor(command, c.row, c.col, Screen(a))
           cm == [c EXCEPT !.row = to[1], !.col = to[2]]
           sel == IF cm.selection = None THEN cm.selection ELSE Extend(cm.selection, CopyPoint(cm))
           d == [cm EXCEPT !.selection = sel]
<1>1. c \in CopyModeState /\ c # None
  BY DEF AppOK, Moded
<1>2. /\ DOMAIN c = {"row", "col", "scrollback_len", "selection"}
      /\ c.row \in Nat /\ c.col \in Nat /\ c.scrollback_len \in Nat
      /\ c.selection \in Selections \cup {None}
  BY <1>1, CopyValues
<1>3. /\ to[1] \in Nat /\ to[2] \in Nat
      /\ (c.row <= Most(Rows(Screen(a)) - 1, 0) /\ c.col <= Most(Screen(a).cols - 1, 0)
            => to[1] <= Most(Rows(Screen(a)) - 1, 0) /\ to[2] <= Most(Screen(a).cols - 1, 0))
  <2>1. Rows(Screen(a)) \in Nat /\ Screen(a).cols \in Nat
    BY ActiveScreen
  <2> HIDE DEF c
  <2> QED BY <1>2, <2>1, MoveCursorIs
<1>4. copy_move(a, command) = [a EXCEPT !.copy_mode = d]
  BY DEF copy_move
<1> HIDE DEF to, c
<1>5. /\ cm \in CopyModeState
      /\ DOMAIN cm = {"row", "col", "scrollback_len", "selection"}
      /\ cm.row = to[1] /\ cm.col = to[2] /\ cm.scrollback_len = c.scrollback_len
      /\ cm.selection = c.selection
  BY <1>2, <1>3 DEF CopyModeState
<1> HIDE DEF cm
<1>6. sel \in Selections \cup {None}
  <2>1. CopyPoint(cm) \in Points
    BY <1>5, CopyValues
  <2> QED BY <1>2, <1>5, <2>1, SelectionsAre
<1> HIDE DEF sel
<1>7. d \in CopyModeState /\ d.row = to[1] /\ d.col = to[2]
  BY <1>2, <1>3, <1>5, <1>6 DEF CopyModeState
<1> HIDE DEF d
<1>8. CopyIn(a) => c.row <= Most(Rows(Screen(a)) - 1, 0) /\ c.col <= Most(Screen(a).cols - 1, 0)
  BY <1>1 DEF CopyIn, c
<1>9. CopyIn(a) => d.row <= Most(Rows(Screen(a)) - 1, 0) /\ d.col <= Most(Screen(a).cols - 1, 0)
  BY <1>3, <1>7, <1>8
<1>10. KeyStep(a, [a EXCEPT !.copy_mode = d]) /\ [a EXCEPT !.copy_mode = d].fit = a.fit
  BY <1>7, <1>9, CopyModeStep
<1> QED BY <1>4, <1>10

(* The mark is set or lifted. *)
LEMMA CopyToggleStep ==
  ASSUME NEW a, AppOK(a), a.fit = FALSE, a.input_mode = "Copy"
  PROVE  KeyStep(a, CopyToggleSelection(a)) /\ CopyToggleSelection(a).fit = a.fit
<1> DEFINE c == a.copy_mode
           sel == IF c.selection = None THEN SelectFrom(CopyPoint(c), "Normal") ELSE None
           d == [c EXCEPT !.selection = sel]
<1>1. c \in CopyModeState /\ c # None /\ DOMAIN a = AppFields
  BY DEF AppOK, Moded
<1>2. /\ DOMAIN c = {"row", "col", "scrollback_len", "selection"}
      /\ c.row \in Nat /\ c.col \in Nat /\ c.scrollback_len \in Nat
      /\ CopyPoint(c) \in Points
  BY <1>1, CopyValues
<1>3. CopyToggleSelection(a) = [a EXCEPT !.copy_mode = d]
  BY DEF CopyToggleSelection
<1>4. CopyIn(a) => c.row <= Most(Rows(Screen(a)) - 1, 0) /\ c.col <= Most(Screen(a).cols - 1, 0)
  BY <1>1 DEF CopyIn
<1> HIDE DEF c
<1>5. sel \in Selections \cup {None}
  BY <1>2, SelectionsAre
<1> HIDE DEF sel
<1>6. d \in CopyModeState /\ d.row = c.row /\ d.col = c.col
  BY <1>2, <1>5 DEF CopyModeState
<1> HIDE DEF d
<1>7. CopyIn(a) => d.row <= Most(Rows(Screen(a)) - 1, 0) /\ d.col <= Most(Screen(a).cols - 1, 0)
  BY <1>4, <1>6
<1>8. KeyStep(a, [a EXCEPT !.copy_mode = d]) /\ [a EXCEPT !.copy_mode = d].fit = a.fit
  BY <1>6, <1>7, CopyModeStep
<1> QED BY <1>3, <1>8

-----------------------------------------------------------------------------
(* Any key, and the commands of an event *)

(* A step that changes nothing but the layout, and asks for fitting. *)
LEMMA LayoutStep ==
  ASSUME NEW a, NEW b, AppOK(b), SameModes(a, b), SameDrag(a, b),
         Settled(a, b) \/ b.fit = TRUE
  PROVE  KeyStep(a, b)
BY DEF KeyStep, CopyStep, SameModes

(* dispatch_close_active_pane. *)
LEMMA CloseActiveStep ==
  ASSUME NEW a, AppOK(a)
  PROVE  KeyStep(a, dispatch_close_active_pane(a))
<1>1. CASE Cardinality(Panes(a)) > 1
  <2> DEFINE c == ClosePane(a, a.active)
             b == [c EXCEPT !.fit = TRUE]
  <2>1. a.active \in Panes(a)
    BY ActiveScreen
  <2>2. AppOK(c) /\ SameModes(a, c) /\ SameDrag(a, c)
    BY <1>1, <2>1, CloseIs
  <2>3. dispatch_close_active_pane(a) = b
    BY <1>1 DEF dispatch_close_active_pane
  <2> HIDE DEF c
  <2>4. /\ DOMAIN b = AppFields /\ SameTab(c, b) /\ SameModes(c, b) /\ SameDrag(c, b) /\ b.fit = TRUE
    BY <2>2 DEF AppOK, Tabbed, AppFields, SameTab, SameModes, SameDrag
  <2> HIDE DEF b
  <2>5. AppOK(b)
    BY <2>2, <2>4, TabKept, ModesKept DEF AppOK
  <2>6. SameModes(a, b) /\ SameDrag(a, b)
    BY <2>2, <2>4 DEF SameModes, SameDrag
  <2> QED BY <2>3, <2>4, <2>5, <2>6, LayoutStep
<1>2. CASE ~(Cardinality(Panes(a)) > 1)
  <2>1. dispatch_close_active_pane(a) = a
    BY <1>2 DEF dispatch_close_active_pane
  <2> QED BY <2>1, LayoutStep DEF SameModes, SameDrag, Settled, Steady
<1> QED BY <1>1, <1>2

(* Full screen is entered or left. *)
LEMMA ToggleStep ==
  ASSUME NEW a, AppOK(a)
  PROVE  KeyStep(a, ToggleFullscreen(a))
<1> DEFINE v == IF a.fullscreen = None THEN a.active ELSE None
<1>1. v \in {None, a.active} /\ ToggleFullscreen(a) = [a EXCEPT !.fullscreen = v]
  BY DEF ToggleFullscreen
<1>2. \A w \in {None, a.active} : KeyStep(a, [a EXCEPT !.fullscreen = w])
  BY FullscreenIs, LayoutStep
<1> QED BY <1>1, <1>2

(* The focus moves. *)
LEMMA FocusStep ==
  ASSUME NEW a, AppOK(a), NEW direction
  PROVE  KeyStep(a, FocusDirection(a, direction))
BY FocusDirectionIs DEF KeyStep, CopyStep, SameModes

(* A pane is split. *)
LEMMA SplitStep ==
  ASSUME NEW a, AppOK(a), NEW direction \in {"Vertical", "Horizontal"}
  PROVE  KeyStep(a, dispatch_split_pane(a, direction))
BY SplitIs, LayoutStep

(* The keys of the normal mode. *)
LEMMA NormalKeyStep ==
  ASSUME NEW a, AppOK(a), a.fit = FALSE, a.input_mode = "Normal", NEW key
  PROVE  KeyStep(a, dispatch(a, resolve_normal_key(key)))
<1>1. /\ KeyStep(a, dispatch(a, <<"SplitPane", "Vertical">>))
      /\ KeyStep(a, dispatch(a, <<"SplitPane", "Horizontal">>))
  <2>1. /\ KeyStep(a, dispatch_split_pane(a, "Vertical"))
        /\ KeyStep(a, dispatch_split_pane(a, "Horizontal"))
    BY SplitStep
  <2>2. /\ dispatch(a, <<"SplitPane", "Vertical">>) = dispatch_split_pane(a, "Vertical")
        /\ dispatch(a, <<"SplitPane", "Horizontal">>) = dispatch_split_pane(a, "Horizontal")
    BY KeysDispatch
  <2> QED BY <2>1, <2>2
<1>2. KeyStep(a, dispatch(a, <<"CloseActivePane">>))
  <2>1. KeyStep(a, dispatch_close_active_pane(a))
    BY CloseActiveStep
  <2>2. dispatch(a, <<"CloseActivePane">>) = dispatch_close_active_pane(a)
    BY KeysDispatch
  <2> QED BY <2>1, <2>2
<1>3. /\ KeyStep(a, dispatch(a, <<"FocusDirection", "Left">>))
      /\ KeyStep(a, dispatch(a, <<"FocusDirection", "Right">>))
  <2>1. /\ KeyStep(a, FocusDirection(a, "Left"))
        /\ KeyStep(a, FocusDirection(a, "Right"))
    BY FocusStep
  <2>2. /\ dispatch(a, <<"FocusDirection", "Left">>) = FocusDirection(a, "Left")
        /\ dispatch(a, <<"FocusDirection", "Right">>) = FocusDirection(a, "Right")
    BY KeysDispatch
  <2> QED BY <2>1, <2>2
<1>4. KeyStep(a, dispatch(a, <<"EnterSearchMode">>))
  <2>1. KeyStep(a, EnterSearchMode(a))
    BY SearchSteps
  <2>2. dispatch(a, <<"EnterSearchMode">>) = EnterSearchMode(a)
    BY KeysDispatch
  <2> QED BY <2>1, <2>2
<1>5. /\ KeyStep(a, dispatch(a, <<"ScrollUp">>))
      /\ KeyStep(a, dispatch(a, <<"ScrollDown">>))
  <2>1. a.active \in Panes(a) /\ half_page(Screen(a)) \in Nat /\ Screen(a) = a.screens[a.active]
    BY ActiveScreen, HalfPage DEF Screen
  <2>2. /\ KeyStep(a, ScrollPane(a, a.active, ScrollViewportUp(Screen(a), half_page(Screen(a)))))
        /\ KeyStep(a, ScrollPane(a, a.active, ScrollViewportDown(Screen(a), half_page(Screen(a)))))
    BY <2>1, ScrollPaneStep
  <2> QED BY <2>2, KeysDispatch
<1>6. KeyStep(a, dispatch(a, <<"EnterCopyMode">>))
  <2>1. KeyStep(a, EnterCopyMode(a))
    BY CopySteps
  <2>2. dispatch(a, <<"EnterCopyMode">>) = EnterCopyMode(a)
    BY KeysDispatch
  <2> QED BY <2>1, <2>2
<1>7. KeyStep(a, dispatch(a, <<"ForwardKeyToPty">>))
  <2>1. KeyStep(a, ForwardKeyToPty(a))
    BY ForwardKeyStep
  <2>2. dispatch(a, <<"ForwardKeyToPty">>) = ForwardKeyToPty(a)
    BY KeysDispatch
  <2> QED BY <2>1, <2>2
<1>t. KeyStep(a, dispatch(a, <<"ToggleFullscreen">>))
  <2>1. KeyStep(a, ToggleFullscreen(a))
    BY ToggleStep
  <2>2. dispatch(a, <<"ToggleFullscreen">>) = ToggleFullscreen(a)
    BY KeysDispatch
  <2> QED BY <2>1, <2>2
<1>n. /\ KeyStep(a, dispatch(a, <<"NextTab">>)) /\ KeyStep(a, dispatch(a, <<"PrevTab">>))
      /\ KeyStep(a, dispatch(a, <<"CloseTab">>)) /\ KeyStep(a, dispatch(a, <<"ToggleFloat">>))
  <2>1. KeyStep(a, a)
    BY LayoutStep DEF SameModes, SameDrag, Settled, Steady
  <2>2. /\ dispatch(a, <<"NextTab">>) = a /\ dispatch(a, <<"PrevTab">>) = a
        /\ dispatch(a, <<"CloseTab">>) = a /\ dispatch(a, <<"ToggleFloat">>) = a
    BY KeysDispatch
  <2> QED BY <2>1, <2>2
<1>8. CASE key \notin DOMAIN Binding
  BY <1>7, <1>8 DEF resolve_normal_key
<1>9. CASE key \in DOMAIN Binding
  <2>1. DOMAIN Binding = {"split_right", "split_down", "close_pane", "focus_left", "focus_right",
                          "next_tab", "prev_tab", "close_tab", "toggle_fullscreen", "toggle_float",
                          "search", "scroll_up", "scroll_down", "copy_mode"}
    BY DEF Binding
  <2>2. /\ Binding["split_right"] = <<"SplitPane", "Vertical">>
        /\ Binding["split_down"] = <<"SplitPane", "Horizontal">>
        /\ Binding["close_pane"] = <<"CloseActivePane">>
        /\ Binding["focus_left"] = <<"FocusDirection", "Left">>
        /\ Binding["focus_right"] = <<"FocusDirection", "Right">>
        /\ Binding["next_tab"] = <<"NextTab">> /\ Binding["prev_tab"] = <<"PrevTab">>
        /\ Binding["close_tab"] = <<"CloseTab">> /\ Binding["toggle_float"] = <<"ToggleFloat">>
        /\ Binding["toggle_fullscreen"] = <<"ToggleFullscreen">>
        /\ Binding["search"] = <<"EnterSearchMode">>
        /\ Binding["scroll_up"] = <<"ScrollUp">>
        /\ Binding["scroll_down"] = <<"ScrollDown">>
        /\ Binding["copy_mode"] = <<"EnterCopyMode">>
    BY DEF Binding
  <2>3. resolve_normal_key(key) = Binding[key]
    BY <1>9 DEF resolve_normal_key
  <2> QED BY <1>1, <1>2, <1>3, <1>4, <1>5, <1>6, <1>t, <1>n, <1>9, <2>1, <2>2, <2>3
<1> QED BY <1>8, <1>9

(* The keys of the search. *)
LEMMA SearchKeyStep ==
  ASSUME NEW a, AppOK(a), a.input_mode = "Search", NEW key, NEW d
  PROVE  KeyStep(a, dispatch(a, resolve_search_key(d, key)))
<1>1. resolve_search_key(d, key) \in
        {<<"ExitSearchMode">>, <<"SearchDeleteChar">>, <<"SearchNextMatch">>, <<"SearchPrevMatch">>,
         <<"SearchAppendChar", key>>}
  BY DEF resolve_search_key
<1>2. /\ KeyStep(a, dispatch(a, <<"ExitSearchMode">>))
      /\ KeyStep(a, dispatch(a, <<"SearchDeleteChar">>))
      /\ KeyStep(a, dispatch(a, <<"SearchNextMatch">>))
      /\ KeyStep(a, dispatch(a, <<"SearchPrevMatch">>))
      /\ KeyStep(a, dispatch(a, <<"SearchAppendChar", key>>))
  <2>1. /\ KeyStep(a, [a EXCEPT !.input_mode = "Normal"])
        /\ KeyStep(a, SearchDeleteChar(a))
        /\ KeyStep(a, SearchNextMatch(a))
        /\ KeyStep(a, SearchPrevMatch(a))
        /\ KeyStep(a, SearchAppendChar(a, key))
    BY SearchSteps
  <2>2. /\ dispatch(a, <<"ExitSearchMode">>) = [a EXCEPT !.input_mode = "Normal"]
        /\ dispatch(a, <<"SearchDeleteChar">>) = SearchDeleteChar(a)
        /\ dispatch(a, <<"SearchNextMatch">>) = SearchNextMatch(a)
        /\ dispatch(a, <<"SearchPrevMatch">>) = SearchPrevMatch(a)
        /\ dispatch(a, <<"SearchAppendChar", key>>) = SearchAppendChar(a, key)
    BY KeysDispatch
  <2> QED BY <2>1, <2>2
<1> QED BY <1>1, <1>2

(* The keys of copy mode. *)
LEMMA CopyKeyStep ==
  ASSUME NEW a, AppOK(a), a.fit = FALSE, a.input_mode = "Copy", NEW key
  PROVE  KeyStep(a, dispatch(a, resolve_copy_key(key)))
<1>1. /\ KeyStep(a, dispatch(a, <<"ExitCopyMode">>))
      /\ KeyStep(a, dispatch(a, <<"CopyYank">>))
      /\ KeyStep(a, dispatch(a, <<"CopyToggleSelection">>))
  <2>1. KeyStep(a, ExitCopyMode(a)) /\ KeyStep(a, CopyYank(a)) /\ KeyStep(a, CopyToggleSelection(a))
    BY CopySteps, CopyToggleStep
  <2>2. /\ dispatch(a, <<"ExitCopyMode">>) = ExitCopyMode(a)
        /\ dispatch(a, <<"CopyYank">>) = CopyYank(a)
        /\ dispatch(a, <<"CopyToggleSelection">>) = CopyToggleSelection(a)
    BY KeysDispatch
  <2> QED BY <2>1, <2>2
<1>2. \A command \in CopyMoves : KeyStep(a, dispatch(a, <<command>>))
  BY CopyMovesStep, MovesDispatch
<1>3. CASE key \notin DOMAIN CopyKey
  BY <1>1, <1>3 DEF resolve_copy_key
<1>4. CASE key \in DOMAIN CopyKey
  <2>1. CopyKey[key] \in CopyMoves \cup {"CopyYank", "CopyToggleSelection"}
    BY <1>4 DEF CopyKey, CopyMoves
  <2>2. resolve_copy_key(key) = <<CopyKey[key]>>
    BY <1>4 DEF resolve_copy_key
  <2> QED BY <1>1, <1>2, <2>1, <2>2
<1> QED BY <1>3, <1>4

(* A key in any mode. *)
LEMMA AnyKeyStep ==
  ASSUME NEW a, AppOK(a), a.fit = FALSE, NEW d, d.input_mode = a.input_mode, NEW key
  PROVE  KeyStep(a, dispatch(a, resolve_keybinding(d, key)))
<1>1. a.input_mode \in {"Normal", "Search", "Copy"}
  BY DEF AppOK, Moded
<1>2. /\ d.input_mode = "Normal" => resolve_keybinding(d, key) = resolve_normal_key(key)
      /\ d.input_mode = "Search" => resolve_keybinding(d, key) = resolve_search_key(d, key)
      /\ d.input_mode = "Copy" => resolve_keybinding(d, key) = resolve_copy_key(key)
  BY DEF resolve_keybinding
<1> QED BY <1>1, <1>2, NormalKeyStep, SearchKeyStep, CopyKeyStep

(* What an event leaves: the screens fitted, or as they were. *)
KeyEvent(a, b) ==
  /\ AppOK(b) /\ SameDrag(a, b) /\ CopyStep(a, b)
  /\ IF b.fit THEN Fitted(b) ELSE Settled(a, b)

(* A command and the fitting that follows it. *)
LEMMA Performed ==
  ASSUME NEW a, NEW c, KeyStep(a, dispatch(a, c))
  PROVE  KeyEvent(a, Perform(a, c)) /\ Perform(a, c).fit = dispatch(a, c).fit
<1> DEFINE b == dispatch(a, c)
           e == sync_pty_sizes(b)
<1>1. Perform(a, c) = IF b.fit THEN e ELSE b
  BY DEF Perform, execute_side_effects
<1> HIDE DEF b
<1>2. AppOK(b) /\ SameDrag(a, b) /\ CopyStep(a, b) /\ (b.fit \/ Settled(a, b)) /\ b.fit \in BOOLEAN
  BY DEF KeyStep, b, AppOK, Moded
<1>3. CASE b.fit
  <2>1. Tabbed(e) /\ Fitted(e) /\ \A f \in AppFields \ {"screens"} : e[f] = b[f]
    BY <1>2, SyncFits DEF AppOK
  <2> HIDE DEF e
  <2>2. SameModes(b, e) /\ SameDrag(b, e) /\ e.fit = b.fit /\ DOMAIN e = AppFields
    BY <2>1 DEF AppFields, SameModes, SameDrag, Tabbed
  <2>3. Moded(e)
    BY <1>2, <2>2, ModesKept DEF AppOK
  <2>4. SameDrag(a, e) /\ CopyStep(a, e)
    BY <1>2, <1>3, <2>2 DEF SameDrag, SameModes, CopyStep
  <2> QED BY <1>1, <1>2, <1>3, <2>1, <2>2, <2>3, <2>4 DEF KeyEvent, AppOK, b
<1>4. CASE ~b.fit
  BY <1>1, <1>2, <1>4 DEF KeyEvent, b
<1> QED BY <1>3, <1>4

(* Nothing was sent yet, and nothing asks for fitting. *)
LEMMA FreshIs ==
  ASSUME NEW a, AppOK(a)
  PROVE  /\ AppOK(Fresh(a)) /\ SameTab(a, Fresh(a)) /\ SameModes(a, Fresh(a)) /\ SameDrag(a, Fresh(a))
         /\ Steady(a, Fresh(a)) /\ Fresh(a).fit = FALSE /\ (CopyIn(Fresh(a)) <=> CopyIn(a))
         /\ Panes(Fresh(a)) = Panes(a)
<1> DEFINE b == [a EXCEPT !.sent = {}, !.fit = FALSE]
<1>1. DOMAIN a = AppFields /\ Fresh(a) = b
  BY DEF AppOK, Tabbed, Fresh
<1>2. /\ DOMAIN b = AppFields /\ SameTab(a, b) /\ SameModes(a, b) /\ SameDrag(a, b) /\ b.fit = FALSE
  BY <1>1 DEF AppFields, SameTab, SameModes, SameDrag
<1> HIDE DEF b
<1>3. AppOK(b) /\ Steady(a, b)
  BY <1>2, TabKept, ModesKept DEF AppOK
<1>4. CopyIn(b) <=> CopyIn(a)
  BY <1>2 DEF CopyIn, SameTab, SameModes, Screen
<1> QED BY <1>1, <1>2, <1>3, <1>4 DEF SameTab, Panes

(* The commands of an event: none, one or two. *)
LEMMA AfterIs ==
  ASSUME NEW c, NEW d
  PROVE  /\ After(<<>>) = Fresh(app)
         /\ After(<<c>>) = Perform(Fresh(app), c)
         /\ After(<<c, d>>) = Perform(Perform(Fresh(app), c), d)
<1> DEFINE Runs(f, q) == f = [i \in 0..Len(q) |-> IF i = 0 THEN Fresh(app) ELSE Perform(f[i - 1], q[i])]
           f0 == [i \in 0..0 |-> Fresh(app)]
           f1 == [i \in 0..1 |-> IF i = 0 THEN Fresh(app) ELSE Perform(Fresh(app), c)]
           f2 == [i \in 0..2 |-> IF i = 0 THEN Fresh(app) ELSE IF i = 1 THEN Perform(Fresh(app), c)
                                 ELSE Perform(Perform(Fresh(app), c), d)]
<1>1. ASSUME NEW q PROVE After(q) = (CHOOSE f : Runs(f, q))[Len(q)]
  BY DEF After
<1>2. ASSUME NEW q, \E f : Runs(f, q) PROVE Runs(CHOOSE f : Runs(f, q), q)
  <2> HIDE DEF Runs
  <2> QED BY <1>2
<1>3. After(<<>>) = Fresh(app)
  <2> DEFINE q == <<>>
  <2>1. Len(q) = 0
    OBVIOUS
  <2> HIDE DEF q
  <2>2. Runs(f0, q)
    BY <2>1
  <2>3. \E f : Runs(f, q)
    <3> HIDE DEF Runs, f0
    <3> QED BY <2>2
  <2>4. Runs(CHOOSE f : Runs(f, q), q)
    <3> HIDE DEF Runs
    <3> QED BY <1>2, <2>3
  <2>5. After(q) = (CHOOSE f : Runs(f, q))[Len(q)]
    BY <1>1
  <2> DEFINE g == CHOOSE f : Runs(f, q)
  <2>6. g = [i \in 0..0 |-> IF i = 0 THEN Fresh(app) ELSE Perform(g[i - 1], q[i])]
    BY <2>1, <2>4
  <2> HIDE DEF g
  <2>7. g[0] = Fresh(app)
    BY <2>6
  <2> QED BY <2>1, <2>5, <2>7 DEF g, q
<1>4. After(<<c>>) = Perform(Fresh(app), c)
  <2> DEFINE q == <<c>>
  <2>1. Len(q) = 1 /\ q[1] = c
    OBVIOUS
  <2> HIDE DEF q
  <2>2. Runs(f1, q)
    BY <2>1
  <2>3. \E f : Runs(f, q)
    <3> HIDE DEF Runs, f1
    <3> QED BY <2>2
  <2>4. Runs(CHOOSE f : Runs(f, q), q)
    <3> HIDE DEF Runs
    <3> QED BY <1>2, <2>3
  <2>5. After(q) = (CHOOSE f : Runs(f, q))[Len(q)]
    BY <1>1
  <2> DEFINE g == CHOOSE f : Runs(f, q)
  <2>6. g = [i \in 0..1 |-> IF i = 0 THEN Fresh(app) ELSE Perform(g[i - 1], q[i])]
    BY <2>1, <2>4
  <2> HIDE DEF g
  <2>7. g[0] = Fresh(app)
    BY <2>6
  <2>8. g[1] = Perform(g[0], q[1])
    BY <2>6
  <2> QED BY <2>1, <2>5, <2>7, <2>8 DEF g, q
<1>5. After(<<c, d>>) = Perform(Perform(Fresh(app), c), d)
  <2> DEFINE q == <<c, d>>
  <2>1. Len(q) = 2 /\ q[1] = c /\ q[2] = d
    OBVIOUS
  <2> HIDE DEF q
  <2>2. Runs(f2, q)
    BY <2>1
  <2>3. \E f : Runs(f, q)
    <3> HIDE DEF Runs, f2
    <3> QED BY <2>2
  <2>4. Runs(CHOOSE f : Runs(f, q), q)
    <3> HIDE DEF Runs
    <3> QED BY <1>2, <2>3
  <2>5. After(q) = (CHOOSE f : Runs(f, q))[Len(q)]
    BY <1>1
  <2> DEFINE g == CHOOSE f : Runs(f, q)
  <2>6. g = [i \in 0..2 |-> IF i = 0 THEN Fresh(app) ELSE Perform(g[i - 1], q[i])]
    BY <2>1, <2>4
  <2> HIDE DEF g
  <2>7. g[0] = Fresh(app)
    BY <2>6
  <2>8. g[1] = Perform(g[0], q[1])
    BY <2>6
  <2>9. g[2] = Perform(g[1], q[2])
    BY <2>6
  <2> QED BY <2>1, <2>5, <2>7, <2>8, <2>9 DEF g, q
<1> QED BY <1>3, <1>4, <1>5

-----------------------------------------------------------------------------
(* The mouse *)

(* The first of a set of positions. *)
LEMMA MinIs ==
  ASSUME NEW S \in SUBSET Nat, S # {}
  PROVE  Min(S) \in S
<1>1. \E k \in S : \A j \in S : k <= j
  BY Assumed, P!LeastNumber
<1> QED BY <1>1 DEF Min

(* The pane under the pointer. *)
LEMMA PaneUnder ==
  ASSUME NEW a, AppOK(a), NEW at
  PROVE  pane_at_position(a, at) \in Shown(a) \cup {None}
<1> DEFINE ps == Positions(a)
           under == {i \in DOMAIN ps : Covers(ps[i], at)}
<1>1. /\ \E n \in Nat : DOMAIN ps = 1..n
      /\ \A i \in DOMAIN ps : ps[i].id \in Shown(a)
  BY PositionsAre DEF AppOK
<1>2. under \in SUBSET Nat
  <2> HIDE DEF ps
  <2> QED BY <1>1
<1>3. CASE under = {}
  <2>1. PaneAt(ps, at) = None
    <3> HIDE DEF ps
    <3> QED BY <1>3 DEF PaneAt
  <2> QED BY <2>1 DEF pane_at_position
<1>4. CASE under # {}
  <2>1. Min(under) \in under
    <3> HIDE DEF under
    <3> QED BY <1>2, <1>4, MinIs
  <2>2. PaneAt(ps, at) = ps[Min(under)].id
    <3> HIDE DEF ps
    <3> QED BY <1>4 DEF PaneAt
  <2>3. ps[Min(under)].id \in Shown(a)
    <3> HIDE DEF ps
    <3> QED BY <1>1, <2>1
  <2> QED BY <2>2, <2>3 DEF pane_at_position
<1> QED BY <1>3, <1>4

(* The border under the pointer. *)
LEMMA BorderUnder ==
  ASSUME NEW a, AppOK(a), NEW at \in Nat \X Nat
  PROVE  detect_border_click(a, at) \in BorderDrag \cup {None}
<1> DEFINE ps == Positions(a)
           hits == {i \in DOMAIN ps : OnRightBorder(ps, ps[i], at) \/ OnBottomBorder(ps, ps[i], at)}
           p == ps[Min(hits)]
           drag == [pane_id |-> p.id, vertical |-> OnRightBorder(ps, p, at), last |-> at]
<1>1. /\ \E n \in Nat : DOMAIN ps = 1..n
      /\ \A i \in DOMAIN ps : ps[i].id \in PaneId
  <2>1. Shown(a) \subseteq PaneId
    BY ShownPanes DEF AppOK, Tabbed, Panes
  <2> QED BY <2>1, PositionsAre DEF AppOK
<1>2. BorderAt(ps, at) = IF hits = {} THEN None ELSE drag
  <2> HIDE DEF ps
  <2> QED BY DEF BorderAt
<1>3. ASSUME hits # {} PROVE drag \in BorderDrag
  <2>1. hits \in SUBSET Nat
    <3> HIDE DEF ps
    <3> QED BY <1>1
  <2>2. Min(hits) \in DOMAIN ps
    <3>1. Min(hits) \in hits
      <4> HIDE DEF hits
      <4> QED BY <1>3, <2>1, MinIs
    <3> QED BY <3>1
  <2>3. p.id \in PaneId
    <3> HIDE DEF hits, ps
    <3> QED BY <1>1, <2>2
  <2>4. OnRightBorder(ps, p, at) \in BOOLEAN
    <3> HIDE DEF ps, p
    <3> QED BY DEF OnRightBorder
  <2> HIDE DEF p, ps, hits
  <2> QED BY <2>3, <2>4 DEF BorderDrag
<1> HIDE DEF hits, ps, drag
<1> QED BY <1>2, <1>3 DEF detect_border_click, ps

(* The point under the pointer. *)
LEMMA PointUnder ==
  ASSUME NEW a, AppOK(a), NEW id \in Panes(a), NEW at \in Nat \X Nat
  PROVE  PointAt(a, id, at) \in Points
<1> DEFINE p == PositionOf(a, id)
           s == a.screens[id]
<1>1. p.row \in Nat /\ p.col \in Nat
  BY PlaceNatural DEF AppOK
<1>2. Len(s.sb) \in Nat /\ s.off \in Nat
  <2>1. ScreenOK(s)
    BY DEF AppOK, Tabbed, Panes
  <2> QED BY <2>1, ScreenHas
<1>3. at[1] \in Nat /\ at[2] \in Nat
  OBVIOUS
<1>4. PointAt(a, id, at)
        = Point(Most(Len(s.sb) + Most(RowOf(at) - p.row, 0) - s.off, 0), Most(ColOf(at) - p.col, 0))
  BY DEF PointAt
<1> HIDE DEF p, s
<1>5. Most(RowOf(at) - p.row, 0) \in Nat /\ Most(ColOf(at) - p.col, 0) \in Nat
  BY <1>1, <1>3 DEF Most, RowOf, ColOf
<1>6. Most(Len(s.sb) + Most(RowOf(at) - p.row, 0) - s.off, 0) \in Nat
  <2> DEFINE m == Most(RowOf(at) - p.row, 0)
  <2>1. m \in Nat
    BY <1>5
  <2> HIDE DEF m
  <2>2. Most(Len(s.sb) + m - s.off, 0) \in Nat
    BY <1>2, <2>1 DEF Most
  <2> QED BY <2>2 DEF m
<1> QED BY <1>4, <1>5, <1>6 DEF Point, Points

(* Another drag or selection. *)
LEMMA DragMade ==
  ASSUME NEW a, AppOK(a), NEW b, DOMAIN b = AppFields, SameTab(a, b), SameModes(a, b),
         b.border_drag \in BorderDrag \cup {None}, b.mouse_selection \in MouseSelection \cup {None},
         b.fit \in BOOLEAN
  PROVE  AppOK(b) /\ Steady(a, b) /\ CopyStep(a, b)
<1>1. Tabbed(b) /\ Steady(a, b)
  BY TabKept DEF AppOK
<1>2. Moded(b)
  BY DEF AppOK, Moded, SameModes
<1> QED BY <1>1, <1>2 DEF AppOK, CopyStep, SameModes

(* What a mouse event leaves: the screens fitted or as they were, except    *)
(* while a border is dragged.                                               *)
MouseEvent(a, b) ==
  /\ AppOK(b) /\ CopyStep(a, b)
  /\ IF b.fit THEN Fitted(b) ELSE b.border_drag # None \/ (a.border_drag = None /\ Settled(a, b))

(* dispatch gave b, which asks for no fitting. *)
LEMMA NotFitted ==
  ASSUME NEW a, NEW c, NEW b, dispatch(a, c) = b, b.fit = FALSE
  PROVE  Perform(a, c) = b
BY DEF Perform, execute_side_effects

(* A border is taken. *)
LEMMA StartDragEvent ==
  ASSUME NEW a, AppOK(a), a.fit = FALSE, NEW drag \in BorderDrag
  PROVE  LET e == Perform(a, <<"StartBorderDrag", drag>>)
         IN  MouseEvent(a, e) /\ e.mouse_selection = a.mouse_selection
<1> DEFINE b == [a EXCEPT !.border_drag = drag]
<1>1. DOMAIN a = AppFields /\ a.mouse_selection \in MouseSelection \cup {None}
  BY DEF AppOK, Moded
<1>2. /\ DOMAIN b = AppFields /\ SameTab(a, b) /\ SameModes(a, b) /\ b.border_drag = drag
      /\ b.mouse_selection = a.mouse_selection /\ b.fit = FALSE
  BY <1>1 DEF AppFields, SameTab, SameModes
<1>3. dispatch(a, <<"StartBorderDrag", drag>>) = b
  BY MouseDispatch
<1> HIDE DEF b
<1>4. Perform(a, <<"StartBorderDrag", drag>>) = b
  BY <1>2, <1>3, NotFitted
<1>5. AppOK(b) /\ Steady(a, b) /\ CopyStep(a, b)
  BY <1>1, <1>2, DragMade
<1>6. drag # None
  BY InputModesAssumption
<1> QED BY <1>2, <1>4, <1>5, <1>6 DEF MouseEvent, Settled

(* The border follows the pointer; the screens are not fitted yet. *)
LEMMA ContinueDragEvent ==
  ASSUME NEW a, AppOK(a), a.fit = FALSE, a.border_drag # None, NEW at \in Nat \X Nat
  PROVE  LET e == Perform(a, <<"ContinueBorderDrag", at>>)
         IN  MouseEvent(a, e) /\ e.mouse_selection = a.mouse_selection
<1> DEFINE drag == a.border_drag
           m == IF drag.vertical
                  THEN resize_pane(a, drag.pane_id, "Vertical", ColOf(at) - ColOf(drag.last))
                  ELSE resize_pane(a, drag.pane_id, "Horizontal", RowOf(at) - RowOf(drag.last))
           to == [drag EXCEPT !.last = at]
           b == [m EXCEPT !.border_drag = to]
<1>1. drag \in BorderDrag
  BY DEF AppOK, Moded
<1>2. drag.vertical \in BOOLEAN /\ ColOf(drag.last) \in Int /\ RowOf(drag.last) \in Int
      /\ ColOf(at) \in Int /\ RowOf(at) \in Int
  <2> HIDE DEF drag
  <2> QED BY <1>1 DEF BorderDrag, ColOf, RowOf
<1>3. ColOf(at) - ColOf(drag.last) \in Int /\ RowOf(at) - RowOf(drag.last) \in Int
  BY <1>2
<1>4. AppOK(m) /\ SameModes(a, m) /\ SameDrag(a, m) /\ m.fit = a.fit
  BY <1>3, ResizePaneIs
<1>5. to \in BorderDrag /\ to # None
  <2>1. to \in BorderDrag
    <3> HIDE DEF drag
    <3> QED BY <1>1 DEF BorderDrag
  <2> QED BY <2>1, InputModesAssumption
<1>6. ContinueBorderDrag(a, at) = b
  <2>1. m.border_drag = drag
    BY <1>4 DEF SameDrag
  <2>2. ContinueBorderDrag(a, at) = [m EXCEPT !.border_drag = [m.border_drag EXCEPT !.last = at]]
    BY DEF ContinueBorderDrag
  <2> QED BY <2>1, <2>2
<1> HIDE DEF m, to, drag
<1>7. /\ DOMAIN m = AppFields /\ m.mouse_selection \in MouseSelection \cup {None}
  BY <1>4 DEF AppOK, Moded
<1>8. /\ DOMAIN b = AppFields /\ SameTab(m, b) /\ SameModes(m, b) /\ b.border_drag = to
      /\ b.mouse_selection = m.mouse_selection /\ b.fit = m.fit
  BY <1>7 DEF AppFields, SameTab, SameModes
<1> HIDE DEF b
<1>9. AppOK(b) /\ CopyStep(m, b)
  BY <1>4, <1>5, <1>7, <1>8, DragMade
<1>10. CopyStep(a, b)
  BY <1>4, <1>8 DEF CopyStep, SameModes
<1>11. Perform(a, <<"ContinueBorderDrag", at>>) = b
  <2>1. dispatch(a, <<"ContinueBorderDrag", at>>) = b
    <3>1. dispatch(a, <<"ContinueBorderDrag", at>>) = ContinueBorderDrag(a, at)
      BY DEF dispatch, CopyMoves, NoOtherTabNorFloat
    <3> QED BY <1>6, <3>1
  <2>2. b.fit = FALSE
    BY <1>4, <1>8
  <2> QED BY <2>1, <2>2, NotFitted
<1> QED BY <1>4, <1>5, <1>8, <1>9, <1>10, <1>11 DEF MouseEvent, SameDrag

(* The border is let go, and the screens are fitted. *)
LEMMA EndDragEvent ==
  ASSUME NEW a, AppOK(a)
  PROVE  LET e == Perform(a, <<"EndBorderDrag">>)
         IN  MouseEvent(a, e) /\ e.mouse_selection = a.mouse_selection /\ e.border_drag = None
<1> DEFINE b == [a EXCEPT !.border_drag = None, !.fit = TRUE]
           e == sync_pty_sizes(b)
<1>1. DOMAIN a = AppFields /\ a.mouse_selection \in MouseSelection \cup {None}
  BY DEF AppOK, Moded
<1>2. /\ DOMAIN b = AppFields /\ SameTab(a, b) /\ SameModes(a, b) /\ b.border_drag = None
      /\ b.mouse_selection = a.mouse_selection /\ b.fit = TRUE
  BY <1>1 DEF AppFields, SameTab, SameModes
<1>3. dispatch(a, <<"EndBorderDrag">>) = b
  <2>1. EndBorderDrag(a) = b
    BY DEF EndBorderDrag
  <2> QED BY <2>1, MouseDispatch
<1> HIDE DEF b
<1>4. Perform(a, <<"EndBorderDrag">>) = e
  BY <1>2, <1>3 DEF Perform, execute_side_effects
<1>5. AppOK(b) /\ CopyStep(a, b)
  BY <1>1, <1>2, DragMade
<1>6. Tabbed(e) /\ Fitted(e) /\ \A f \in AppFields \ {"screens"} : e[f] = b[f]
  BY <1>5, SyncFits DEF AppOK
<1> HIDE DEF e
<1>7. SameModes(b, e) /\ SameDrag(b, e) /\ e.fit = TRUE /\ DOMAIN e = AppFields
  BY <1>2, <1>6 DEF AppFields, SameModes, SameDrag, Tabbed
<1>8. Moded(e)
  BY <1>5, <1>7, ModesKept DEF AppOK
<1>9. CopyStep(a, e)
  BY <1>2, <1>7 DEF SameModes, CopyStep
<1> QED BY <1>2, <1>4, <1>6, <1>7, <1>8, <1>9 DEF MouseEvent, AppOK, SameDrag

(* A selection begins. *)
LEMMA StartSelectionEvent ==
  ASSUME NEW a, AppOK(a), a.fit = FALSE, NEW id \in Panes(a), NEW point \in Points
  PROVE  LET e == Perform(a, <<"StartMouseSelection", id, point>>)
         IN  MouseEvent(a, e) /\ e.border_drag = a.border_drag
             /\ (e.fit \/ Steady(a, e))
<1> DEFINE ms == [pane_id |-> id, selection |-> SelectFrom(point, "Normal")]
           b == [a EXCEPT !.mouse_selection = ms]
<1>1. DOMAIN a = AppFields /\ a.border_drag \in BorderDrag \cup {None}
  BY DEF AppOK, Moded
<1>2. ms \in MouseSelection
  <2>1. id \in PaneId
    BY DEF AppOK, Tabbed, Panes
  <2>2. SelectFrom(point, "Normal") \in Selections
    <3>1. 0 \in Nat
      OBVIOUS
    <3> QED BY <3>1, SelectionsAre
  <2> QED BY <2>1, <2>2 DEF MouseSelection
<1>4. dispatch(a, <<"StartMouseSelection", id, point>>) = b
  BY DEF dispatch, CopyMoves, NoOtherTabNorFloat
<1> HIDE DEF ms
<1>3. /\ DOMAIN b = AppFields /\ SameTab(a, b) /\ SameModes(a, b) /\ b.border_drag = a.border_drag
      /\ b.mouse_selection = ms /\ b.fit = FALSE
  BY <1>1 DEF AppFields, SameTab, SameModes
<1> HIDE DEF b
<1>5. Perform(a, <<"StartMouseSelection", id, point>>) = b
  BY <1>3, <1>4, NotFitted
<1>6. AppOK(b) /\ Steady(a, b) /\ CopyStep(a, b)
  BY <1>1, <1>2, <1>3, DragMade
<1> QED BY <1>3, <1>5, <1>6 DEF MouseEvent, Settled

(* It follows the pointer. *)
LEMMA ExtendSelectionEvent ==
  ASSUME NEW a, AppOK(a), a.fit = FALSE, a.mouse_selection # None, NEW point \in Points
  PROVE  LET e == Perform(a, <<"ExtendMouseSelection", point>>)
         IN  MouseEvent(a, e) /\ e.border_drag = a.border_drag
<1> DEFINE old == a.mouse_selection
           ms == [old EXCEPT !.selection = Extend(@, point)]
           b == [a EXCEPT !.mouse_selection = ms]
<1>1. DOMAIN a = AppFields /\ a.border_drag \in BorderDrag \cup {None} /\ old \in MouseSelection
  BY DEF AppOK, Moded
<1>2. ms \in MouseSelection
  <2> HIDE DEF old
  <2>1. old.selection \in Selections /\ 0 \in Nat
    BY <1>1 DEF MouseSelection
  <2>2. Extend(old.selection, point) \in Selections
    BY <2>1, SelectionsAre
  <2> QED BY <1>1, <2>2 DEF MouseSelection
<1>4. dispatch(a, <<"ExtendMouseSelection", point>>) = b
  BY MouseDispatch
<1> HIDE DEF ms
<1>3. /\ DOMAIN b = AppFields /\ SameTab(a, b) /\ SameModes(a, b) /\ b.border_drag = a.border_drag
      /\ b.mouse_selection = ms /\ b.fit = FALSE
  BY <1>1 DEF AppFields, SameTab, SameModes
<1> HIDE DEF b
<1>5. Perform(a, <<"ExtendMouseSelection", point>>) = b
  BY <1>3, <1>4, NotFitted
<1>6. AppOK(b) /\ Steady(a, b) /\ CopyStep(a, b)
  BY <1>1, <1>2, <1>3, DragMade
<1> QED BY <1>3, <1>5, <1>6 DEF MouseEvent, Settled

(* It is copied and gone. *)
LEMMA FinalizeEvent ==
  ASSUME NEW a, AppOK(a), a.fit = FALSE
  PROVE  LET e == Perform(a, <<"FinalizeMouseSelection">>)
         IN  MouseEvent(a, e) /\ e.border_drag = a.border_drag /\ e.mouse_selection = None
<1> DEFINE ms == a.mouse_selection
           some == ms.pane_id \in Panes(a) /\ get_text(ms.selection, AllTexts(a.screens[ms.pane_id])) # <<<<>>>>
           sent == IF some THEN a.sent \cup {<<"clipboard", ms.pane_id>>} ELSE a.sent
           b == [a EXCEPT !.mouse_selection = None, !.sent = sent]
<1>1. DOMAIN a = AppFields /\ a.border_drag \in BorderDrag \cup {None}
  BY DEF AppOK, Moded
<1>2. dispatch(a, <<"FinalizeMouseSelection">>) = b
  <2>1. FinalizeMouseSelection(a) = b
    BY DEF FinalizeMouseSelection
  <2> QED BY <2>1, MouseDispatch
<1> HIDE DEF sent
<1>3. /\ DOMAIN b = AppFields /\ SameTab(a, b) /\ SameModes(a, b) /\ b.border_drag = a.border_drag
      /\ b.mouse_selection = None /\ b.fit = FALSE
  BY <1>1 DEF AppFields, SameTab, SameModes
<1> HIDE DEF b
<1>4. Perform(a, <<"FinalizeMouseSelection">>) = b
  BY <1>2, <1>3, NotFitted
<1>5. AppOK(b) /\ Steady(a, b) /\ CopyStep(a, b)
  BY <1>1, <1>3, DragMade
<1> QED BY <1>3, <1>4, <1>5 DEF MouseEvent, Settled

-----------------------------------------------------------------------------
(* Events *)

(* From the fresh state to the state before. *)
LEMMA FromFresh ==
  ASSUME AppOK(app), NEW b
  PROVE  /\ CopyStep(Fresh(app), b) => CopyStep(app, b)
         /\ Settled(Fresh(app), b) => Settled(app, b)
         /\ SameDrag(Fresh(app), b) => SameDrag(app, b)
         /\ MouseEvent(Fresh(app), b) => MouseEvent(app, b)
         /\ KeyEvent(Fresh(app), b) => MouseEvent(app, b) /\ SameDrag(app, b)
<1>1. /\ SameTab(app, Fresh(app)) /\ SameModes(app, Fresh(app)) /\ SameDrag(app, Fresh(app))
      /\ (CopyIn(Fresh(app)) <=> CopyIn(app))
  BY FreshIs
<1>2. CopyStep(Fresh(app), b) => CopyStep(app, b)
  BY <1>1 DEF CopyStep, SameModes
<1>3. Settled(Fresh(app), b) => Settled(app, b)
  BY <1>1 DEF Settled, Steady, SameTab, Panes
<1>4. SameDrag(Fresh(app), b) => SameDrag(app, b)
  BY <1>1 DEF SameDrag
<1>5. MouseEvent(Fresh(app), b) => MouseEvent(app, b)
  BY <1>1, <1>2, <1>3 DEF MouseEvent, SameDrag
<1>6. KeyEvent(Fresh(app), b) => MouseEvent(app, b) /\ SameDrag(app, b)
  BY <1>2, <1>3, <1>4 DEF MouseEvent, KeyEvent, SameDrag
<1> QED BY <1>2, <1>3, <1>4, <1>5, <1>6

(* An event without a command. *)
LEMMA QuietEvent ==
  ASSUME AppOK(app)
  PROVE  MouseEvent(app, Fresh(app)) /\ SameDrag(app, Fresh(app))
BY FreshIs DEF MouseEvent, CopyStep, SameModes, SameDrag, Settled

(* One command for a key, a paste or the wheel. *)
LEMMA OneCommand ==
  ASSUME AppOK(app), NEW c, KeyStep(Fresh(app), dispatch(Fresh(app), c))
  PROVE  MouseEvent(app, After(<<c>>)) /\ SameDrag(app, After(<<c>>))
<1>1. KeyEvent(Fresh(app), Perform(Fresh(app), c))
  BY Performed
<1>2. After(<<c>>) = Perform(Fresh(app), c)
  BY AfterIs
<1> QED BY <1>1, <1>2, FromFresh

(* A program gets the mouse, or nothing happens. *)
LEMMA ForwardEvent ==
  ASSUME AppOK(app), NEW id
  PROVE  /\ ForwardTo(app, id) \in {<<>>, <<<<"ForwardMouseToPty", id>>>>}
         /\ MouseEvent(app, After(ForwardTo(app, id))) /\ SameDrag(app, After(ForwardTo(app, id)))
<1> DEFINE c == <<"ForwardMouseToPty", id>>
<1>1. ForwardTo(app, id) \in {<<>>, <<c>>}
  BY DEF ForwardTo
<1>2. MouseEvent(app, After(<<>>)) /\ SameDrag(app, After(<<>>))
  <2>1. After(<<>>) = Fresh(app)
    BY AfterIs
  <2> QED BY <2>1, QuietEvent
<1>3. KeyStep(Fresh(app), dispatch(Fresh(app), c))
  <2> DEFINE f == Fresh(app)
             m == <<"mouse", id>>
  <2>1. AppOK(f)
    BY FreshIs
  <2>2. dispatch(f, c) = [f EXCEPT !.sent = @ \cup {m}]
    <3> HIDE DEF f
    <3> QED BY DEF dispatch, CopyMoves, NoOtherTabNorFloat
  <2> HIDE DEF f, m, c
  <2>3. KeyStep(f, [f EXCEPT !.sent = @ \cup {m}])
    BY <2>1, SearchSteps
  <2> QED BY <2>2, <2>3 DEF f
<1> HIDE DEF c
<1>4. MouseEvent(app, After(<<c>>)) /\ SameDrag(app, After(<<c>>))
  BY <1>3, OneCommand
<1> QED BY <1>1, <1>2, <1>4 DEF c

(* The program under the pointer gets the mouse. *)
LEMMA PushForward ==
  ASSUME AppOK(app), NEW at
  PROVE  /\ MouseEvent(app, After(push_forward_mouse(app, at)))
         /\ SameDrag(app, After(push_forward_mouse(app, at)))
BY ForwardEvent DEF push_forward_mouse

(* Any key, and a paste. *)
LEMMA KeyEventIs ==
  ASSUME AppOK(app), NEW key
  PROVE  /\ MouseEvent(app, After(<<resolve_keybinding(app, key)>>))
         /\ SameDrag(app, After(<<resolve_keybinding(app, key)>>))
<1>1. AppOK(Fresh(app)) /\ Fresh(app).fit = FALSE /\ app.input_mode = Fresh(app).input_mode
  BY FreshIs DEF SameModes
<1>2. KeyStep(Fresh(app), dispatch(Fresh(app), resolve_keybinding(app, key)))
  BY <1>1, AnyKeyStep
<1> QED BY <1>2, OneCommand

(* A paste goes to the active pane. *)
LEMMA PasteEventIs ==
  ASSUME AppOK(app)
  PROVE  /\ MouseEvent(app, After(<<<<"ForwardPaste">>>>))
         /\ SameDrag(app, After(<<<<"ForwardPaste">>>>))
<1> DEFINE f == Fresh(app)
           m == <<"paste", f.active>>
           c == <<"ForwardPaste">>
<1>1. AppOK(f)
  BY FreshIs
<1>2. dispatch(f, c) = [f EXCEPT !.sent = @ \cup {m}]
  <2> HIDE DEF f
  <2> QED BY DEF dispatch, CopyMoves, NoOtherTabNorFloat
<1> HIDE DEF f, m, c
<1>3. KeyStep(f, [f EXCEPT !.sent = @ \cup {m}])
  BY <1>1, SearchSteps
<1>4. KeyStep(f, dispatch(f, c))
  BY <1>2, <1>3
<1> QED BY <1>4, OneCommand DEF f, c

(* The wheel. *)
LEMMA WheelEvent ==
  ASSUME AppOK(app), NEW at, NEW command \in {"ScrollPaneUp", "ScrollPaneDown"}
  PROVE  /\ MouseEvent(app, After(ResolveScroll(app, at, command)))
         /\ SameDrag(app, After(ResolveScroll(app, at, command)))
<1> DEFINE id == pane_at_position(app, at)
           f == Fresh(app)
           c == <<command, id>>
<1>1. ResolveScroll(app, at, command) = ScrollIn(app, id, command)
  BY DEF ResolveScroll
<1>2. id \in Panes(app) \cup {None}
  BY PaneUnder, ShownPanes DEF AppOK
<1> HIDE DEF id
<1>3. CASE id = None
  <2>1. ScrollIn(app, id, command) = <<>> /\ After(<<>>) = Fresh(app)
    BY <1>3, AfterIs DEF ScrollIn
  <2> QED BY <1>1, <2>1, QuietEvent
<1>4. CASE id # None /\ app.screens[id].tracking
  <2>1. ScrollIn(app, id, command) = ForwardTo(app, id)
    BY <1>4 DEF ScrollIn
  <2> QED BY <1>1, <2>1, ForwardEvent
<1>5. CASE id # None /\ ~app.screens[id].tracking
  <2>1. ScrollIn(app, id, command) = <<c>>
    BY <1>5 DEF ScrollIn
  <2>2. AppOK(f) /\ id \in Panes(f)
    BY <1>2, <1>5, FreshIs
  <2>3. KeyStep(f, dispatch(f, c))
    <3> HIDE DEF f
    <3>1. /\ dispatch(f, <<"ScrollPaneUp", id>>)
               = ScrollPane(f, id, ScrollViewportUp(f.screens[id], WHEEL_LINES))
          /\ dispatch(f, <<"ScrollPaneDown", id>>)
               = ScrollPane(f, id, ScrollViewportDown(f.screens[id], WHEEL_LINES))
      BY MouseDispatch
    <3>2. WHEEL_LINES \in Nat
      BY DEF WHEEL_LINES
    <3>3. /\ KeyStep(f, ScrollPane(f, id, ScrollViewportUp(f.screens[id], WHEEL_LINES)))
          /\ KeyStep(f, ScrollPane(f, id, ScrollViewportDown(f.screens[id], WHEEL_LINES)))
      BY <2>2, <3>2, ScrollPaneStep
    <3> QED BY <3>1, <3>3
  <2> HIDE DEF c
  <2>4. MouseEvent(app, After(<<c>>)) /\ SameDrag(app, After(<<c>>))
    BY <2>3, OneCommand
  <2> QED BY <1>1, <2>1, <2>4
<1> QED BY <1>3, <1>4, <1>5

(* One command after another. *)
LEMMA JoinTwo ==
  ASSUME NEW c, NEW x
  PROVE  /\ <<>> \o <<x>> = <<x>> /\ <<c>> \o <<x>> = <<c, x>>
         /\ <<>> \o <<>> = <<>> /\ <<c>> \o <<>> = <<c>>
<1> DEFINE S == {c, x}
           z == <<>>
           p == <<c>>
           q == <<x>>
           r == <<c, x>>
<1>1. /\ z \in Seq(S) /\ p \in Seq(S) /\ q \in Seq(S) /\ r \in Seq(S)
      /\ Len(p) = 1 /\ Len(q) = 1 /\ Len(r) = 2 /\ p[1] = c /\ q[1] = x /\ r[1] = c /\ r[2] = x
  OBVIOUS
<1>2. z \o q = q /\ z \o z = z /\ p \o z = p
  <2> HIDE DEF S, p, q
  <2> QED BY <1>1, ConcatEmptySeq
<1>3. p \o q = r
  <2> HIDE DEF S, p, q, r
  <2>1. /\ p \o q \in Seq(S) /\ Len(p \o q) = Len(r)
        /\ \A i \in 1..Len(p) + Len(q) : (p \o q)[i] = IF i <= Len(p) THEN p[i] ELSE q[i - Len(p)]
    BY <1>1, ConcatProperties
  <2>2. (p \o q)[1] = c /\ (p \o q)[2] = x
    BY <1>1, <2>1
  <2>3. \A i \in 1..Len(p \o q) : (p \o q)[i] = r[i]
    BY <1>1, <2>1, <2>2
  <2> QED BY <1>1, <2>1, <2>3, SeqEqual
<1> QED BY <1>2, <1>3

(* Focusing another pane than the active one. *)
LEMMA FocusOther ==
  ASSUME NEW a, NEW id, id # a.active
  PROVE  dispatch(a, <<"FocusPane", id>>) = Focus(a, id)
<1>1. dispatch(a, <<"FocusPane", id>>) = FocusPane(a, id)
  BY DEF dispatch, CopyMoves, NoOtherTabNorFloat
<1> QED BY <1>1 DEF FocusPane

(* The press of the left button, when nothing is dragged or selected. *)
LEMMA LeftPress ==
  ASSUME AppOK(app), app.border_drag = None, app.mouse_selection = None, NEW at \in Nat \X Nat
  PROVE  LET e == After(ResolveLeftDown(app, at))
         IN  MouseEvent(app, e) /\ (e.border_drag = None \/ e.mouse_selection = None)
<1> DEFINE drag == detect_border_click(app, at)
           id == pane_at_position(app, at)
           f == Fresh(app)
<1>1. /\ AppOK(f) /\ f.fit = FALSE /\ Panes(f) = Panes(app)
      /\ f.border_drag = None /\ f.mouse_selection = None
  BY FreshIs DEF SameDrag
<1>2. drag \in BorderDrag \cup {None} /\ id \in Shown(app) \cup {None}
  BY PaneUnder, BorderUnder
<1>3. ResolveLeftDown(app, at) = IF drag # None THEN <<<<"StartBorderDrag", drag>>>> ELSE PressIn(app, id, at)
  BY DEF ResolveLeftDown, PressOn
<1>4. CASE drag # None
  <2> DEFINE c == <<"StartBorderDrag", drag>>
             e == Perform(f, c)
  <2>1. MouseEvent(f, e) /\ e.mouse_selection = f.mouse_selection
    <3> HIDE DEF drag, f
    <3> QED BY <1>1, <1>2, <1>4, StartDragEvent
  <2>2. After(<<c>>) = e
    <3> HIDE DEF c
    <3> QED BY AfterIs
  <2> HIDE DEF e
  <2>3. MouseEvent(app, e)
    BY <2>1, FromFresh
  <2> QED BY <1>1, <1>3, <1>4, <2>1, <2>2, <2>3
<1>5. CASE drag = None /\ id = None
  <2>1. PressIn(app, id, at) = <<>> /\ After(<<>>) = f
    BY <1>5, AfterIs DEF PressIn
  <2> QED BY <1>1, <1>3, <1>5, <2>1, QuietEvent
<1>6. CASE drag = None /\ id # None
  <2> HIDE DEF drag, id
  <2>0. id \in Shown(app) /\ id \in Panes(app)
    BY <1>2, <1>6, ShownPanes DEF AppOK
  <2> DEFINE focus == IF id # app.active THEN <<<<"FocusPane", id>>>> ELSE <<>>
             then == IF app.screens[id].tracking THEN ForwardTo(app, id)
                     ELSE <<<<"StartMouseSelection", id, PointAt(app, id, at)>>>>
             c == <<"FocusPane", id>>
             g == Perform(f, c)
             h == IF id # app.active THEN g ELSE f
  <2>1. PressIn(app, id, at) = focus \o then
    BY <1>6 DEF PressIn
  <2>2. /\ AppOK(h) /\ h.fit = FALSE /\ Panes(h) = Panes(app) /\ CopyStep(app, h) /\ h.copy_mode = app.copy_mode
        /\ Steady(app, h) /\ SameDrag(app, h)
        /\ h.screens = app.screens
    <3>1. CASE id # app.active
      <4> DEFINE b == Focus(f, id)
      <4>4. SameTab(app, f) /\ SameModes(app, f) /\ SameDrag(app, f)
        BY FreshIs
      <4>0. f.fullscreen = None /\ id # f.active
        <5>1. app.fullscreen \in {None, app.active}
          BY DEF AppOK, Tabbed
        <5>2. app.fullscreen = None
          BY <2>0, <3>1, <5>1 DEF Shown
        <5> HIDE DEF f
        <5> QED BY <3>1, <4>4, <5>2 DEF SameTab
      <4>1. /\ AppOK(b) /\ Steady(f, b) /\ SameModes(f, b) /\ SameDrag(f, b) /\ b.fit = f.fit
            /\ b.screens = f.screens
        <5> HIDE DEF f
        <5> QED BY <1>1, <2>0, <4>0, FocusIs
      <4>2. dispatch(f, c) = b
        <5> HIDE DEF f
        <5> QED BY <4>0, FocusOther
      <4> HIDE DEF b
      <4>3. g = b
        BY <1>1, <4>1, <4>2, NotFitted
      <4> HIDE DEF f, g
      <4>5. b.screens = app.screens /\ b.copy_mode = app.copy_mode /\ SameDrag(app, b)
        BY <4>1, <4>4 DEF SameTab, SameModes, SameDrag
      <4>6. Steady(app, b) /\ CopyStep(app, b) /\ Panes(b) = Panes(app)
        BY <4>1, <4>4, <4>5 DEF Steady, SameTab, CopyStep, Panes
      <4> QED BY <1>1, <3>1, <4>1, <4>3, <4>5, <4>6
    <3>2. CASE id = app.active
      BY <1>1, <3>2, FreshIs DEF SameTab, SameModes, CopyStep
    <3> QED BY <3>1, <3>2
  <2>3. \A x : ((focus \o <<x>> = IF id # app.active THEN <<c, x>> ELSE <<x>>)
                /\ (focus \o <<>> = IF id # app.active THEN <<c>> ELSE <<>>))
    <3>1. focus = IF id # app.active THEN <<c>> ELSE <<>>
      OBVIOUS
    <3> HIDE DEF focus, c
    <3> QED BY <3>1, JoinTwo
  <2>4. /\ \A x : After(focus \o <<x>>) = Perform(h, x)
        /\ After(focus \o <<>>) = h
    <3> HIDE DEF focus, c, f
    <3>1. \A x : After(<<c, x>>) = Perform(g, x) /\ After(<<x>>) = Perform(f, x)
      BY AfterIs DEF f
    <3>2. After(<<c>>) = g /\ After(<<>>) = f
      BY AfterIs DEF f
    <3> HIDE DEF g
    <3> QED BY <2>3, <3>1, <3>2
  <2> HIDE DEF h, g, f, focus, c
  <2>5. CASE app.screens[id].tracking
    <3> DEFINE y == <<"ForwardMouseToPty", id>>
               m == <<"mouse", id>>
    <3>1. then = <<y>>
      BY <1>6, <2>5 DEF ForwardTo
    <3>2. dispatch(h, y) = [h EXCEPT !.sent = @ \cup {m}]
      BY DEF dispatch, CopyMoves, NoOtherTabNorFloat
    <3> HIDE DEF m, y, then
    <3>3. KeyStep(h, [h EXCEPT !.sent = @ \cup {m}]) /\ [h EXCEPT !.sent = @ \cup {m}].fit = h.fit
      BY <2>2, SearchSteps
    <3>4. KeyEvent(h, Perform(h, y)) /\ Perform(h, y).fit = FALSE
      <4>1. KeyStep(h, dispatch(h, y)) /\ dispatch(h, y).fit = FALSE
        BY <2>2, <3>2, <3>3
      <4> QED BY <4>1, Performed
    <3> DEFINE e == Perform(h, y)
    <3>5. After(ResolveLeftDown(app, at)) = e
      BY <1>3, <1>6, <2>1, <2>4, <3>1
    <3> HIDE DEF e
    <3>6. AppOK(e) /\ SameDrag(h, e) /\ CopyStep(h, e) /\ Settled(h, e) /\ e.fit = FALSE
      BY <3>4 DEF KeyEvent, e
    <3>7. SameDrag(app, e) /\ Settled(app, e)
      BY <2>2, <3>6 DEF SameDrag, Settled, Steady
    <3>8. CopyStep(app, e)
      <4>1. e.copy_mode = h.copy_mode
        <5>0. dispatch(h, y).fit = FALSE
          BY <2>2, <3>2, <3>3
        <5>1. e = dispatch(h, y)
          BY <5>0, NotFitted DEF e
        <5>2. DOMAIN h = AppFields
          BY <2>2 DEF AppOK, Moded
        <5> QED BY <3>2, <5>1, <5>2 DEF AppFields
      <4> QED BY <2>2, <4>1 DEF CopyStep
    <3> QED BY <3>5, <3>6, <3>7, <3>8 DEF MouseEvent, SameDrag
  <2>6. CASE ~app.screens[id].tracking
    <3> DEFINE point == PointAt(app, id, at)
               y == <<"StartMouseSelection", id, point>>
               e == Perform(h, y)
    <3>1. then = <<y>>
      BY <2>6
    <3>2. point \in Points
      BY <2>0, PointUnder
    <3> HIDE DEF point
    <3>3. /\ MouseEvent(h, e) /\ e.border_drag = h.border_drag /\ (e.fit \/ Steady(h, e))
          /\ e.copy_mode = h.copy_mode
      <4>1. MouseEvent(h, e) /\ e.border_drag = h.border_drag /\ (e.fit \/ Steady(h, e))
        BY <2>0, <2>2, <3>2, StartSelectionEvent
      <4> DEFINE b == [h EXCEPT !.mouse_selection = [pane_id |-> id, selection |-> SelectFrom(point, "Normal")]]
      <4>2. dispatch(h, y) = b
        BY DEF dispatch, CopyMoves, NoOtherTabNorFloat
      <4>3. b.copy_mode = h.copy_mode /\ b.fit = FALSE
        BY <2>2 DEF AppOK, Moded, AppFields
      <4> HIDE DEF b, y
      <4>4. e = b
        BY <4>2, <4>3, NotFitted
      <4> QED BY <4>1, <4>3, <4>4
    <3> HIDE DEF y, e, then
    <3>4. After(ResolveLeftDown(app, at)) = e
      BY <1>3, <1>6, <2>1, <2>4, <3>1 DEF e
    <3>5. e.border_drag = None /\ CopyStep(app, e)
      BY <1>1, <2>2, <3>3 DEF SameDrag, CopyStep
    <3>6. e.fit \/ Steady(app, e)
      BY <2>2, <3>3 DEF Steady
    <3>7. MouseEvent(app, e)
      BY <3>3, <3>5, <3>6 DEF MouseEvent, Settled
    <3> QED BY <3>4, <3>5, <3>7
  <2> QED BY <2>5, <2>6
<1> QED BY <1>2, <1>4, <1>5, <1>6

-----------------------------------------------------------------------------
(* Releases, drags and resizes *)

(* A release of any button, wherever the pointer is. *)
LEMMA ReleaseEvent ==
  ASSUME AppOK(app), app.border_drag = None \/ app.mouse_selection = None, NEW at
  PROVE  LET e == After(ResolveUp(app, at))
         IN  MouseEvent(app, e) /\ e.border_drag = None /\ e.mouse_selection = None
<1> DEFINE f == Fresh(app)
<1>1. AppOK(f) /\ f.fit = FALSE /\ SameDrag(app, f)
  BY FreshIs
<1>2. CASE app.border_drag # None
  <2> DEFINE c == <<"EndBorderDrag">>
             e == Perform(f, c)
  <2>1. ResolveUp(app, at) = <<c>>
    BY <1>2 DEF ResolveUp
  <2>2. MouseEvent(f, e) /\ e.mouse_selection = f.mouse_selection /\ e.border_drag = None
    <3> HIDE DEF f
    <3> QED BY <1>1, EndDragEvent
  <2>3. After(<<c>>) = e
    <3> HIDE DEF c
    <3> QED BY AfterIs
  <2> HIDE DEF e, c
  <2>4. MouseEvent(app, e)
    BY <2>2, FromFresh
  <2> QED BY <1>1, <1>2, <2>1, <2>2, <2>3, <2>4 DEF SameDrag
<1>3. CASE app.border_drag = None /\ app.mouse_selection # None
  <2> DEFINE c == <<"FinalizeMouseSelection">>
             e == Perform(f, c)
  <2>1. ResolveUp(app, at) = <<c>>
    BY <1>3 DEF ResolveUp
  <2>2. MouseEvent(f, e) /\ e.border_drag = f.border_drag /\ e.mouse_selection = None
    <3> HIDE DEF f
    <3> QED BY <1>1, FinalizeEvent
  <2>3. After(<<c>>) = e
    <3> HIDE DEF c
    <3> QED BY AfterIs
  <2> HIDE DEF e, c
  <2>4. MouseEvent(app, e)
    BY <2>2, FromFresh
  <2> QED BY <1>1, <1>3, <2>1, <2>2, <2>3, <2>4 DEF SameDrag
<1>4. CASE app.border_drag = None /\ app.mouse_selection = None
  <2>1. ResolveUp(app, at) = push_forward_mouse(app, at)
    BY <1>4 DEF ResolveUp
  <2>2. /\ MouseEvent(app, After(push_forward_mouse(app, at)))
        /\ SameDrag(app, After(push_forward_mouse(app, at)))
    BY PushForward
  <2> QED BY <1>4, <2>1, <2>2 DEF SameDrag
<1> QED BY <1>2, <1>3, <1>4

(* The pointer moves with the left button held. *)
LEMMA LeftDragEvent ==
  ASSUME AppOK(app), app.border_drag = None \/ app.mouse_selection = None, NEW at \in Nat \X Nat
  PROVE  LET e == After(ResolveLeftDrag(app, at))
         IN  MouseEvent(app, e) /\ (e.border_drag = None \/ e.mouse_selection = None)
<1> DEFINE f == Fresh(app)
<1>1. /\ AppOK(f) /\ f.fit = FALSE /\ SameDrag(app, f)
  BY FreshIs
<1>2. CASE app.border_drag # None
  <2> DEFINE c == <<"ContinueBorderDrag", at>>
             e == Perform(f, c)
  <2>1. ResolveLeftDrag(app, at) = <<c>>
    BY <1>2 DEF ResolveLeftDrag
  <2>2. MouseEvent(f, e) /\ e.mouse_selection = f.mouse_selection
    <3>1. f.border_drag # None
      BY <1>1, <1>2 DEF SameDrag
    <3> HIDE DEF f
    <3> QED BY <1>1, <3>1, ContinueDragEvent
  <2>3. After(<<c>>) = e
    <3> HIDE DEF c
    <3> QED BY AfterIs
  <2> HIDE DEF e, c
  <2>4. MouseEvent(app, e)
    BY <2>2, FromFresh
  <2> QED BY <1>1, <1>2, <2>1, <2>2, <2>3, <2>4 DEF SameDrag
<1>3. CASE app.border_drag = None /\ app.mouse_selection # None
           /\ app.mouse_selection.pane_id \in Shown(app)
  <2> DEFINE point == PointAt(app, app.mouse_selection.pane_id, at)
             c == <<"ExtendMouseSelection", point>>
             e == Perform(f, c)
  <2>1. ResolveLeftDrag(app, at) = <<c>>
    BY <1>3 DEF ResolveLeftDrag
  <2>2. point \in Points
    <3>1. app.mouse_selection.pane_id \in Panes(app)
      BY <1>3, ShownPanes DEF AppOK
    <3> QED BY <3>1, PointUnder
  <2>3. MouseEvent(f, e) /\ e.border_drag = f.border_drag
    <3>1. f.mouse_selection # None
      BY <1>1, <1>3 DEF SameDrag
    <3> HIDE DEF f, point
    <3> QED BY <1>1, <2>2, <3>1, ExtendSelectionEvent
  <2>4. After(<<c>>) = e
    <3> HIDE DEF c
    <3> QED BY AfterIs
  <2> HIDE DEF e, c
  <2>5. MouseEvent(app, e)
    BY <2>3, FromFresh
  <2> QED BY <1>1, <1>3, <2>1, <2>3, <2>4, <2>5 DEF SameDrag
<1>4. CASE app.border_drag = None /\ app.mouse_selection # None
           /\ app.mouse_selection.pane_id \notin Shown(app)
  <2>1. ResolveLeftDrag(app, at) = <<>> /\ After(<<>>) = f
    BY <1>4, AfterIs DEF ResolveLeftDrag
  <2> QED BY <1>1, <1>4, <2>1, QuietEvent DEF SameDrag
<1>5. CASE app.border_drag = None /\ app.mouse_selection = None
  <2>1. ResolveLeftDrag(app, at) = push_forward_mouse(app, at)
    BY <1>5 DEF ResolveLeftDrag
  <2>2. /\ MouseEvent(app, After(push_forward_mouse(app, at)))
        /\ SameDrag(app, After(push_forward_mouse(app, at)))
    BY PushForward
  <2> QED BY <1>5, <2>1, <2>2 DEF SameDrag
<1> QED BY <1>2, <1>3, <1>4, <1>5

(* Two tabs whose screens fit the same places have the same sizes. *)
LEMMA FittedAlike ==
  ASSUME NEW a, NEW b, Fitted(a), Fitted(b), a.root = b.root, a.size = b.size,
         a.fullscreen = b.fullscreen, Panes(a) = Panes(b), NEW id \in Shown(a)
  PROVE  Rows(a.screens[id]) = Rows(b.screens[id]) /\ a.screens[id].cols = b.screens[id].cols
BY DEF Fitted, Sized, PositionOf, WholeArea, Shown

(* Command::Resize. *)
LEMMA ResizeEvent ==
  ASSUME AppOK(app), NEW size \in Sizes
  PROVE  LET e == After(<<<<"Resize", size>>>>)
         IN  AppOK(e) /\ SameDrag(app, e) /\ CopyIn(e) /\ e.fit /\ Fitted(e)
<1> DEFINE f == Fresh(app)
           b == [f EXCEPT !.size = size, !.fit = TRUE]
           s == sync_pty_sizes(b)
           cm == IF s.copy_mode = None THEN None
                 ELSE [s.copy_mode EXCEPT !.row = Least(@, Most(Rows(Screen(s)) - 1, 0)),
                                          !.col = Least(@, Most(Screen(s).cols - 1, 0))]
           d == [s EXCEPT !.copy_mode = cm]
           e == sync_pty_sizes(d)
           c == <<"Resize", size>>
<1>1. /\ AppOK(f) /\ SameDrag(app, f) /\ DOMAIN f = AppFields
  BY FreshIs DEF AppOK, Tabbed
<1>2. size \in (Nat \ {0}) \X (Nat \ {0})
  BY InputModesAssumption
<1>3. dispatch(f, c) = d
  <2> HIDE DEF f
  <2>1. dispatch(f, c) = Resize(f, size)
    BY DEF dispatch, CopyMoves, NoOtherTabNorFloat
  <2>2. Resize(f, size) = ClampCopyCursor(s)
    BY DEF Resize
  <2> HIDE DEF s
  <2>3. ClampCopyCursor(s) = d
    BY DEF ClampCopyCursor, cm
  <2> QED BY <2>1, <2>2, <2>3
<1>4. After(<<c>>) = Perform(f, c)
  <2> HIDE DEF c
  <2> QED BY AfterIs
<1> HIDE DEF f, c
<1>5. /\ DOMAIN b = AppFields /\ b.root = f.root /\ b.size = size /\ b.next = f.next
      /\ b.active = f.active /\ b.fullscreen = f.fullscreen /\ b.screens = f.screens /\ b.fit = TRUE
      /\ SameModes(f, b) /\ SameDrag(f, b)
  BY <1>1 DEF AppFields, SameModes, SameDrag
<1> HIDE DEF b
<1>6. AppOK(b)
  <2>1. Tabbed(b)
    BY <1>1, <1>2, <1>5 DEF AppOK, Tabbed, Panes
  <2>2. Moded(b)
    BY <1>1, <1>5, ModesKept DEF AppOK
  <2> QED BY <2>1, <2>2 DEF AppOK
<1>7. Tabbed(s) /\ Fitted(s) /\ Panes(s) = Panes(b) /\ \A k \in AppFields \ {"screens"} : s[k] = b[k]
  BY <1>6, SyncFits DEF AppOK
<1> HIDE DEF s
<1>8. /\ SameModes(b, s) /\ SameDrag(b, s) /\ s.fit = TRUE /\ DOMAIN s = AppFields
  BY <1>5, <1>7 DEF AppFields, SameModes, SameDrag, Tabbed
<1>9. AppOK(s)
  BY <1>6, <1>7, <1>8, ModesKept DEF AppOK
<1>10. /\ Rows(Screen(s)) \in Nat /\ Screen(s).cols \in Nat /\ s.active \in Panes(s)
  BY <1>9, ActiveScreen
<1>11. /\ cm \in CopyModeState \cup {None}
       /\ cm # None <=> s.copy_mode # None
       /\ cm # None => /\ cm.row <= Most(Rows(Screen(s)) - 1, 0)
                       /\ cm.col <= Most(Screen(s).cols - 1, 0)
  <2>1. CASE s.copy_mode = None
    BY <2>1
  <2>2. CASE s.copy_mode # None
    <3> DEFINE old == s.copy_mode
               bottom == Most(Rows(Screen(s)) - 1, 0)
               end == Most(Screen(s).cols - 1, 0)
               new == [old EXCEPT !.row = Least(@, bottom), !.col = Least(@, end)]
    <3>1. old \in CopyModeState
      BY <1>9, <2>2 DEF AppOK, Moded
    <3>2. cm = new
      BY <2>2
    <3>3. bottom \in Nat /\ end \in Nat
      BY <1>10 DEF Most
    <3> HIDE DEF old, bottom, end
    <3>4. old.row \in Nat /\ old.col \in Nat /\ old.scrollback_len \in Nat
          /\ old.selection \in Selections \cup {None}
      BY <3>1, CopyValues
    <3>5. /\ Least(old.row, bottom) \in Nat /\ Least(old.row, bottom) <= bottom
          /\ Least(old.col, end) \in Nat /\ Least(old.col, end) <= end
      BY <3>3, <3>4 DEF Least
    <3>6. new \in CopyModeState /\ new.row = Least(old.row, bottom) /\ new.col = Least(old.col, end)
      BY <3>1, <3>4, <3>5 DEF CopyModeState
    <3>7. new # None
      BY <3>6, InputModesAssumption
    <3> HIDE DEF new, cm
    <3> QED BY <2>2, <3>2, <3>5, <3>6, <3>7 DEF bottom, end
  <2> QED BY <2>1, <2>2
<1> HIDE DEF cm
<1>12. /\ DOMAIN d = AppFields /\ SameTab(s, d) /\ SameDrag(s, d) /\ d.input_mode = s.input_mode
       /\ d.copy_mode = cm /\ d.fit = TRUE
  BY <1>8 DEF AppFields, SameTab, SameDrag
<1> HIDE DEF d
<1>13. AppOK(d) /\ Fitted(d) /\ Panes(d) = Panes(s)
  <2>1. Tabbed(d) /\ Steady(s, d)
    BY <1>7, <1>12, TabKept
  <2>2. Moded(d)
    BY <1>9, <1>11, <1>12 DEF AppOK, Moded, SameDrag
  <2> QED BY <1>7, <2>1, <2>2, SteadyFits DEF AppOK, Steady
<1>14. Tabbed(e) /\ Fitted(e) /\ Panes(e) = Panes(d) /\ \A k \in AppFields \ {"screens"} : e[k] = d[k]
  BY <1>13, SyncFits DEF AppOK
<1>15. Perform(f, c) = e
  BY <1>3, <1>12 DEF Perform, execute_side_effects
<1> HIDE DEF e
<1>16. /\ SameModes(d, e) /\ SameDrag(d, e) /\ e.fit = TRUE /\ DOMAIN e = AppFields
       /\ e.root = d.root /\ e.size = d.size /\ e.active = d.active /\ e.fullscreen = d.fullscreen
  BY <1>12, <1>14 DEF AppFields, SameModes, SameDrag, Tabbed
<1>17. AppOK(e)
  BY <1>13, <1>14, <1>16, ModesKept DEF AppOK
<1>18. SameDrag(app, e)
  BY <1>1, <1>5, <1>8, <1>12, <1>16 DEF SameDrag
<1>19. CopyIn(e)
  <2>1. d.screens = s.screens /\ d.active = s.active /\ s.active \in Shown(d)
    BY <1>12, <1>13, ShownPanes DEF SameTab, AppOK
  <2>2. Rows(Screen(e)) = Rows(Screen(s)) /\ Screen(e).cols = Screen(s).cols
    <3>1. Rows(d.screens[s.active]) = Rows(e.screens[s.active])
          /\ d.screens[s.active].cols = e.screens[s.active].cols
      BY <1>13, <1>14, <1>16, <2>1, FittedAlike
    <3> QED BY <1>16, <2>1, <3>1 DEF Screen
  <2>3. e.copy_mode = cm
    BY <1>12, <1>16 DEF SameModes
  <2> QED BY <1>11, <2>2, <2>3 DEF CopyIn
<1> QED BY <1>4, <1>14, <1>15, <1>16, <1>17, <1>18, <1>19 DEF c

-----------------------------------------------------------------------------
(* The invariant *)

(* A pane that is alone has the whole area. *)
LEMMA PlaceAlone ==
  ASSUME NEW id, NEW sz \in Nat \X Nat
  PROVE  L!PositionOf(L!Leaf(id), sz, id) =
           [id |-> id, col |-> 0, row |-> 0, cols |-> sz[1], rows |-> sz[2]]
<1> DEFINE t == L!Leaf(id)
           p == L!PathOf(t, id)
<1>1. P!IsTree(t) /\ id \in P!Leaves(t)
  BY TreeLeaf, SameTrees
<1>2. p \in DOMAIN t.leaf /\ t.leaf[p] = id
  BY <1>1, Assumed, P!PathOfIs, SamePath
<1>3. p = <<>>
  BY <1>2 DEF L!Leaf
<1>4. L!AreaOf(t, <<>>, sz) = [col |-> 0, row |-> 0, cols |-> sz[1], rows |-> sz[2]]
  <2> HIDE DEF t
  <2> QED BY Assumed, P!AreaOfRoot, SameArea
<1> HIDE DEF t, p
<1>5. L!PositionOf(t, sz, id) = L!PanePosition(id, L!AreaOf(t, <<>>, sz))
  BY <1>2, <1>3 DEF L!PositionOf, L!Placed, p
<1> QED BY <1>4, <1>5 DEF L!PanePosition, t

(* One tab's state throughout: with a border at rest and no pane gone or    *)
(* full screen toggled the screens fit; unless copy mode lost its pane its  *)
(* cursor is inside.                                                        *)
IInv ==
  /\ AppOK(app)
  /\ ReleaseEndsDrag
  /\ app.border_drag = None /\ ~unfitted => Fitted(app)
  /\ ~strayed => CopyIn(app)
  /\ strayed \in BOOLEAN /\ unfitted \in BOOLEAN
  /\ user \in Users /\ printed \in Nat

(* It holds at the start: one pane, of the whole size. *)
LEMMA InitIs == Init => IInv
<1> SUFFICES ASSUME Init PROVE IInv
  OBVIOUS
<1>0. user \in Users /\ user.sizes \subseteq Sizes
  BY InputModesAssumption DEF Init
<1>1. PICK size \in user.sizes :
        app = [root |-> L!Leaf(0), size |-> size, next |-> 1, active |-> 0, fullscreen |-> None,
               screens |-> [id \in {0} |-> NewScreen(size[1], size[2])],
               input_mode |-> "Normal", search_query |-> <<>>, search_state |-> NoSearch,
               search_direction_active |-> FALSE, copy_mode |-> None, border_drag |-> None,
               mouse_selection |-> None, sent |-> {}, fit |-> FALSE]
  BY DEF Init
<1>2. /\ DOMAIN app = AppFields /\ app.root = L!Leaf(0) /\ app.size = size /\ app.next = 1
      /\ app.active = 0 /\ app.fullscreen = None /\ app.screens = [id \in {0} |-> NewScreen(size[1], size[2])]
      /\ app.input_mode = "Normal" /\ app.copy_mode = None /\ app.border_drag = None
      /\ app.mouse_selection = None /\ app.fit = FALSE
  BY <1>1 DEF AppFields
<1>3. /\ size \in (Nat \ {0}) \X (Nat \ {0}) /\ MaxPaneId \in Nat \ {0}
      /\ size \in Nat \X Nat /\ size[1] \in Nat /\ size[2] \in Nat
  BY <1>0, <1>1, InputModesAssumption
<1>4. L!IsTree(L!Leaf(0)) /\ L!Leaves(L!Leaf(0)) = {0}
  BY TreeLeaf
<1>5. Sized(NewScreen(size[1], size[2]), size[1], size[2])
  BY <1>3, NewScreenIs
<1>6. AppOK(app)
  <2>1. Tabbed(app)
    <3>1. app.screens = [id \in DOMAIN app.screens |-> app.screens[id]] /\ DOMAIN app.screens = {0}
          /\ app.screens[0] = NewScreen(size[1], size[2])
      BY <1>2
    <3>2. {0} \subseteq PaneId
      BY <1>3 DEF PaneId
    <3> QED BY <1>2, <1>3, <1>4, <1>5, <3>1, <3>2 DEF Tabbed, Sized
  <2>2. Moded(app)
    BY <1>2, InputModesAssumption DEF Moded
  <2> QED BY <2>1, <2>2 DEF AppOK
<1>7. Fitted(app)
  <2>1. PositionOf(app, 0).cols = size[1] /\ PositionOf(app, 0).rows = size[2]
    BY <1>2, <1>3, PlaceAlone DEF PositionOf
  <2> QED BY <1>2, <1>5, <2>1 DEF Fitted, Shown, Panes
<1>8. CopyIn(app)
  BY <1>2 DEF CopyIn
<1>9. strayed = FALSE /\ unfitted = FALSE /\ user \in Users /\ printed \in Nat /\ held = {}
  BY DEF Init
<1> QED BY <1>2, <1>6, <1>7, <1>8, <1>9 DEF IInv, ReleaseEndsDrag

(* What an event remembers of copy mode and of the layout is enough to know *)
(* where the cursor is and which screens fit.                               *)
LEMMA StepKeeps ==
  ASSUME IInv, NEW pressed, NEW resized \in BOOLEAN, NEW died \in BOOLEAN,
         Remember(pressed, resized, died),
         AppOK(app'), ReleaseEndsDrag', user' = user, printed' \in Nat,
         IF resized THEN CopyIn(app') ELSE CopyStep(app, app'),
         IF app'.fit THEN Fitted(app')
         ELSE died \/ app'.border_drag # None \/ (app.border_drag = None /\ Settled(app, app'))
  PROVE  IInv'
<1>1. /\ AppOK(app) /\ (app.border_drag = None /\ ~unfitted => Fitted(app))
      /\ (~strayed => CopyIn(app)) /\ strayed \in BOOLEAN /\ unfitted \in BOOLEAN /\ user \in Users
  BY DEF IInv
<1>2. /\ strayed' = (/\ app.copy_mode # None
                     /\ app'.copy_mode # None
                     /\ strayed \/ app'.active # app.active \/ (~resized /\ Refitted))
      /\ unfitted' = (~app'.fit /\ (unfitted \/ died \/ app'.fullscreen # app.fullscreen))
  BY DEF Remember
<1>3. strayed' \in BOOLEAN /\ unfitted' \in BOOLEAN
  BY <1>2
<1>4. app'.border_drag = None /\ ~unfitted' => Fitted(app')
  <2>1. CASE app'.fit
    BY <1>2, <2>1
  <2>2. CASE ~app'.fit
    <3>1. SUFFICES ASSUME app'.border_drag = None, ~unfitted' PROVE Fitted(app')
      OBVIOUS
    <3>2. Fitted(app) /\ Steady(app, app')
      BY <1>1, <1>2, <2>2, <3>1 DEF Settled
    <3> QED BY <3>2, SteadyFits DEF AppOK
  <2> QED BY <2>1, <2>2
<1>5. ~strayed' => CopyIn(app')
  <2>1. SUFFICES ASSUME ~strayed', app'.copy_mode # None, ~resized PROVE CopyIn(app')
    BY DEF CopyIn
  <2>2. CASE app'.copy_mode = app.copy_mode
    <3>1. ~strayed /\ app'.active = app.active /\ ~Refitted
      BY <1>1, <1>2, <2>1, <2>2
    <3>2. Rows(Screen(app')) = Rows(Screen(app)) /\ Screen(app').cols = Screen(app).cols
      BY <3>1 DEF Refitted, Screen
    <3> QED BY <1>1, <2>2, <3>1, <3>2 DEF CopyIn
  <2>3. CASE CopyIn(app')
    BY <2>3
  <2>4. CASE app.copy_mode # None /\ (CopyIn(app) => CopyIn(app'))
    BY <1>1, <1>2, <2>1, <2>4
  <2> QED BY <2>1, <2>2, <2>3, <2>4 DEF CopyStep
<1> QED BY <1>1, <1>3, <1>4, <1>5 DEF IInv

(* An event of a key or the mouse keeps the invariant. *)
LEMMA EventKeeps ==
  ASSUME IInv, NEW pressed, Remember(pressed, FALSE, FALSE), MouseEvent(app, app'),
         ReleaseEndsDrag', user' = user, printed' \in Nat
  PROVE  IInv'
<1>1. /\ AppOK(app') /\ CopyStep(app, app')
      /\ IF app'.fit THEN Fitted(app')
         ELSE app'.border_drag # None \/ (app.border_drag = None /\ Settled(app, app'))
  BY DEF MouseEvent
<1> QED BY <1>1, StepKeeps

(* What the left button began is as it was. *)
LEMMA DragKept ==
  ASSUME IInv, SameDrag(app, app'), held' = held
  PROVE  ReleaseEndsDrag'
BY DEF IInv, ReleaseEndsDrag, SameDrag

(* A key. *)
LEMMA KeyPressKeeps ==
  ASSUME IInv, NEW key, KeyPress(key)
  PROVE  IInv'
<1>1. AppOK(app) /\ printed \in Nat
  BY DEF IInv
<1>2. /\ app' = After(<<resolve_keybinding(app, key)>>) /\ Remember(None, FALSE, FALSE)
      /\ user' = user /\ printed' = printed /\ held' = held
  BY DEF KeyPress
<1>3. MouseEvent(app, app') /\ SameDrag(app, app')
  BY <1>1, <1>2, KeyEventIs
<1> QED BY <1>1, <1>2, <1>3, DragKept, EventKeeps

(* A paste. *)
LEMMA PasteKeeps ==
  ASSUME IInv, Paste
  PROVE  IInv'
<1>1. AppOK(app) /\ printed \in Nat
  BY DEF IInv
<1>2. /\ app' = After(<<<<"ForwardPaste">>>>) /\ Remember(None, FALSE, FALSE)
      /\ user' = user /\ printed' = printed /\ held' = held
  BY DEF Paste
<1>3. MouseEvent(app, app') /\ SameDrag(app, app')
  BY <1>1, <1>2, PasteEventIs
<1> QED BY <1>1, <1>2, <1>3, DragKept, EventKeeps

(* The wheel. *)
LEMMA WheelKeeps ==
  ASSUME IInv, NEW kind \in {"ScrollUp", "ScrollDown"}, NEW at, MouseWheel(kind, at)
  PROVE  IInv'
<1>1. AppOK(app) /\ printed \in Nat
  BY DEF IInv
<1>2. /\ app' = After(resolve_mouse(app, kind, "None", at)) /\ Remember(None, FALSE, FALSE)
      /\ user' = user /\ printed' = printed /\ held' = held
  BY DEF MouseWheel
<1>3. resolve_mouse(app, kind, "None", at) =
        ResolveScroll(app, at, IF kind = "ScrollUp" THEN "ScrollPaneUp" ELSE "ScrollPaneDown")
  BY DEF resolve_mouse
<1>4. MouseEvent(app, app') /\ SameDrag(app, app')
  BY <1>1, <1>2, <1>3, WheelEvent
<1> QED BY <1>1, <1>2, <1>4, DragKept, EventKeeps

(* A press; the left button may begin a drag or a selection. *)
LEMMA PressKeeps ==
  ASSUME IInv, NEW button \in {"Left", "Right"}, NEW at \in Nat \X Nat, MousePress(button, at)
  PROVE  IInv'
<1> DEFINE commands == resolve_mouse(app, "Down", button, at)
<1>1. AppOK(app) /\ printed \in Nat /\ ReleaseEndsDrag
  BY DEF IInv
<1>2. /\ button \notin held /\ held' = held \cup {button}
      /\ app' = After(commands) /\ Remember(LineUnder(commands, at), FALSE, FALSE)
      /\ user' = user /\ printed' = printed
  BY DEF MousePress
<1>3. MouseEvent(app, app') /\ ReleaseEndsDrag'
  <2>1. CASE button = "Left"
    <3>1. commands = ResolveLeftDown(app, at)
      BY <2>1 DEF resolve_mouse
    <3>2. app.border_drag = None /\ app.mouse_selection = None
      BY <1>1, <1>2, <2>1 DEF ReleaseEndsDrag
    <3>3. MouseEvent(app, app') /\ (app'.border_drag = None \/ app'.mouse_selection = None)
      BY <1>1, <1>2, <3>1, <3>2, LeftPress
    <3> QED BY <1>2, <2>1, <3>3 DEF ReleaseEndsDrag
  <2>2. CASE button = "Right"
    <3>1. commands = push_forward_mouse(app, at)
      BY <2>2 DEF resolve_mouse
    <3>2. MouseEvent(app, app') /\ SameDrag(app, app')
      BY <1>1, <1>2, <3>1, PushForward
    <3> QED BY <1>1, <1>2, <2>2, <3>2 DEF ReleaseEndsDrag, SameDrag
  <2> QED BY <2>1, <2>2
<1> HIDE DEF commands
<1> QED BY <1>1, <1>2, <1>3, EventKeeps

(* A release; it ends what the left button began. *)
LEMMA ReleaseKeeps ==
  ASSUME IInv, NEW button \in {"Left", "Right"}, NEW at \in Nat \X Nat, MouseRelease(button, at)
  PROVE  IInv'
<1>1. AppOK(app) /\ printed \in Nat /\ ReleaseEndsDrag
  BY DEF IInv
<1>2. /\ app' = After(resolve_mouse(app, "Up", button, at)) /\ Remember(None, FALSE, FALSE)
      /\ user' = user /\ printed' = printed
  BY DEF MouseRelease
<1>3. resolve_mouse(app, "Up", button, at) = ResolveUp(app, at)
  BY DEF resolve_mouse
<1>4. MouseEvent(app, app') /\ app'.border_drag = None /\ app'.mouse_selection = None
  BY <1>1, <1>2, <1>3, ReleaseEvent DEF ReleaseEndsDrag
<1>5. ReleaseEndsDrag'
  BY <1>4 DEF ReleaseEndsDrag
<1> QED BY <1>1, <1>2, <1>4, <1>5, EventKeeps

(* The pointer moves with a button held. *)
LEMMA DragKeeps ==
  ASSUME IInv, NEW button \in {"Left", "Right"}, NEW at \in Nat \X Nat, MouseDrag(button, at)
  PROVE  IInv'
<1>1. AppOK(app) /\ printed \in Nat /\ ReleaseEndsDrag
  BY DEF IInv
<1>2. /\ button \in held /\ held' = held
      /\ app' = After(resolve_mouse(app, "Drag", button, at)) /\ Remember(None, FALSE, FALSE)
      /\ user' = user /\ printed' = printed
  BY DEF MouseDrag
<1>3. MouseEvent(app, app') /\ ReleaseEndsDrag'
  <2>1. CASE button = "Left"
    <3>1. resolve_mouse(app, "Drag", button, at) = ResolveLeftDrag(app, at)
      BY <2>1 DEF resolve_mouse
    <3>2. MouseEvent(app, app') /\ (app'.border_drag = None \/ app'.mouse_selection = None)
      BY <1>1, <1>2, <3>1, LeftDragEvent DEF ReleaseEndsDrag
    <3> QED BY <1>2, <2>1, <3>2 DEF ReleaseEndsDrag
  <2>2. CASE button = "Right"
    <3>1. resolve_mouse(app, "Drag", button, at) = push_forward_mouse(app, at)
      BY <2>2 DEF resolve_mouse
    <3>2. MouseEvent(app, app') /\ SameDrag(app, app')
      BY <1>1, <1>2, <3>1, PushForward
    <3> QED BY <1>2, <3>2, DragKept
  <2> QED BY <2>1, <2>2
<1> QED BY <1>1, <1>2, <1>3, EventKeeps

(* The terminal is resized. *)
LEMMA TerminalResizeKeeps ==
  ASSUME IInv, NEW size \in Sizes, TerminalResize(size)
  PROVE  IInv'
<1>1. AppOK(app) /\ printed \in Nat
  BY DEF IInv
<1>2. /\ app' = After(<<<<"Resize", size>>>>) /\ Remember(None, TRUE, FALSE)
      /\ user' = user /\ printed' = printed /\ held' = held
  BY DEF TerminalResize
<1>3. AppOK(app') /\ SameDrag(app, app') /\ CopyIn(app') /\ app'.fit /\ Fitted(app')
  BY <1>1, <1>2, ResizeEvent
<1> QED BY <1>1, <1>2, <1>3, DragKept, StepKeeps

(* A screen changes under the user. *)
LEMMA ScreenKeeps ==
  ASSUME IInv, NEW id \in Panes(app), NEW t,
         Sized(t, app.screens[id].cols, Rows(app.screens[id])),
         app' = [Fresh(app) EXCEPT !.screens[id] = t],
         Remember(None, FALSE, FALSE), user' = user, printed' \in Nat, held' = held
  PROVE  IInv'
<1> DEFINE f == Fresh(app)
<1>1. AppOK(app)
  BY DEF IInv
<1>2. /\ AppOK(f) /\ SameTab(app, f) /\ SameModes(app, f) /\ SameDrag(app, f) /\ f.fit = FALSE
      /\ Panes(f) = Panes(app)
  BY <1>1, FreshIs
<1>3. DOMAIN f = AppFields /\ f.screens = app.screens
  BY <1>2 DEF AppOK, Moded, SameTab
<1> HIDE DEF f
<1>4. app' = [f EXCEPT !.screens[id] = t]
  BY DEF f
<1>5. /\ DOMAIN app' = AppFields /\ app'.root = f.root /\ app'.size = f.size /\ app'.next = f.next
      /\ app'.active = f.active /\ app'.fullscreen = f.fullscreen
      /\ app'.screens = [f.screens EXCEPT ![id] = t] /\ app'.fit = f.fit
      /\ SameModes(f, app') /\ SameDrag(f, app')
  BY <1>3, <1>4 DEF AppFields, SameModes, SameDrag
<1>6. KeyStep(f, app') /\ Steady(f, app')
  <2>1. Sized(t, f.screens[id].cols, Rows(f.screens[id])) /\ id \in Panes(f)
    BY <1>2, <1>3
  <2> DEFINE b == app'
  <2>2. /\ DOMAIN b = AppFields /\ b.root = f.root /\ b.size = f.size /\ b.next = f.next
        /\ b.active = f.active /\ b.fullscreen = f.fullscreen
        /\ b.screens = [f.screens EXCEPT ![id] = t] /\ b.fit = f.fit
        /\ SameModes(f, b) /\ SameDrag(f, b)
    BY <1>5
  <2> HIDE DEF b
  <2>3. KeyStep(f, b) /\ Steady(f, b)
    BY <1>2, <2>1, <2>2, ScreenStep
  <2> QED BY <2>3 DEF b
<1>7. MouseEvent(f, app')
  <2>1. app'.fit = FALSE
    BY <1>2, <1>5
  <2> QED BY <1>5, <1>6, <2>1 DEF MouseEvent, KeyStep, SameDrag, Settled
<1>8. MouseEvent(app, app') /\ SameDrag(app, app')
  BY <1>1, <1>2, <1>5, <1>7, FromFresh DEF f
<1> QED BY <1>8, DragKept, EventKeeps

(* A program prints a line. *)
LEMMA OutputKeeps ==
  ASSUME IInv, NEW id \in PaneId, Output(id)
  PROVE  IInv'
<1> DEFINE s == app.screens[id]
<1>1. /\ printed < user.lines /\ printed' = printed + 1 /\ id \in Panes(app) /\ HasCell(s)
      /\ app' = [Fresh(app) EXCEPT !.screens[id] = PrintLine(@, printed + 1)]
      /\ Remember(None, FALSE, FALSE) /\ user' = user /\ held' = held
  BY DEF Output
<1>2. AppOK(app) /\ printed \in Nat /\ ScreenOK(s)
  BY <1>1 DEF IInv, AppOK, Tabbed, Panes
<1>3. printed + 1 \in LineId /\ printed' \in Nat
  <2>1. user.lines \in 0..Len(Text)
    BY InputModesAssumption DEF IInv
  <2> QED BY <1>1, <1>2, <2>1, LinesAre DEF LineId
<1>4. Sized(PrintLine(s, printed + 1), s.cols, Rows(s))
  <2> HIDE DEF s
  <2> QED BY <1>1, <1>2, <1>3, PrintLineIs
<1>5. Fresh(app).screens[id] = s
  BY <1>2, FreshIs DEF SameTab
<1>6. app' = [Fresh(app) EXCEPT !.screens[id] = PrintLine(s, printed + 1)]
  BY <1>1, <1>5
<1> QED BY <1>1, <1>3, <1>4, <1>6, ScreenKeeps

(* A program asks for the mouse. *)
LEMMA TrackKeeps ==
  ASSUME IInv, NEW id \in PaneId, TrackMouse(id)
  PROVE  IInv'
<1> DEFINE s == app.screens[id]
           t == [s EXCEPT !.tracking = TRUE, !.off = 0]
<1>1. /\ id \in Panes(app) /\ printed' = printed
      /\ app' = [Fresh(app) EXCEPT !.screens[id] = [@ EXCEPT !.tracking = TRUE, !.off = 0]]
      /\ Remember(None, FALSE, FALSE) /\ user' = user /\ held' = held
  BY DEF TrackMouse
<1>2. AppOK(app) /\ printed \in Nat /\ ScreenOK(s)
  BY <1>1 DEF IInv, AppOK, Tabbed, Panes
<1>3. Sized(t, s.cols, Rows(s))
  <2> HIDE DEF s
  <2> QED BY <1>2, ViewMoved
<1>4. Fresh(app).screens[id] = s
  BY <1>2, FreshIs DEF SameTab
<1>5. app' = [Fresh(app) EXCEPT !.screens[id] = t]
  BY <1>1, <1>4
<1> HIDE DEF t
<1> QED BY <1>1, <1>2, <1>3, <1>5, ScreenKeeps

(* A pane dies, and no screen is fitted. *)
LEMMA DeathKeeps ==
  ASSUME IInv, NEW id \in PaneId, PaneDies(id)
  PROVE  IInv'
<1> DEFINE f == Fresh(app)
<1>1. /\ id \in Panes(app) /\ Cardinality(Panes(app)) > 1 /\ app' = ClosePane(f, id)
      /\ Remember(None, FALSE, TRUE) /\ user' = user /\ printed' = printed /\ held' = held
  BY DEF PaneDies
<1>2. AppOK(app) /\ printed \in Nat
  BY DEF IInv
<1>3. AppOK(f) /\ SameModes(app, f) /\ SameDrag(app, f) /\ f.fit = FALSE /\ Panes(f) = Panes(app)
  BY <1>2, FreshIs
<1> HIDE DEF f
<1>4. AppOK(app') /\ SameModes(f, app') /\ SameDrag(f, app') /\ app'.fit = FALSE
  BY <1>1, <1>3, CloseIs
<1>5. SameDrag(app, app') /\ CopyStep(app, app')
  BY <1>3, <1>4 DEF SameDrag, SameModes, CopyStep
<1> QED BY <1>1, <1>2, <1>4, <1>5, DragKept, StepKeeps

(* Nothing happens. *)
LEMMA StutterKeeps ==
  ASSUME IInv, UNCHANGED vars
  PROVE  IInv'
BY DEF vars, IInv, ReleaseEndsDrag

(* Every step keeps the invariant. *)
LEMMA NextKeeps == IInv /\ [Next]_vars => IInv'
<1> SUFFICES ASSUME IInv, [Next]_vars PROVE IInv'
  OBVIOUS
<1>1. user.buttons \subseteq {"Left", "Right"} /\ user.points \subseteq Nat \X Nat
      /\ user.sizes \subseteq Sizes
  BY InputModesAssumption DEF IInv
<1>2. CASE \E key \in KeysIn(app.input_mode) : KeyPress(key)
  BY <1>2, KeyPressKeeps
<1>3. CASE Paste
  BY <1>3, PasteKeeps
<1>4. CASE \E button \in user.buttons, at \in user.points :
             \/ MousePress(button, at)
             \/ MouseRelease(button, at)
             \/ MouseDrag(button, at)
  BY <1>1, <1>4, PressKeeps, ReleaseKeeps, DragKeeps
<1>5. CASE \E kind \in {"ScrollUp", "ScrollDown"}, at \in user.points : MouseWheel(kind, at)
  BY <1>5, WheelKeeps
<1>6. CASE \E size \in user.sizes : TerminalResize(size)
  BY <1>1, <1>6, TerminalResizeKeeps
<1>7. CASE \E id \in PaneId : Output(id) \/ TrackMouse(id) \/ PaneDies(id)
  BY <1>7, OutputKeeps, TrackKeeps, DeathKeeps
<1>8. CASE UNCHANGED vars
  BY <1>8, StutterKeeps
<1> QED BY <1>2, <1>3, <1>4, <1>5, <1>6, <1>7, <1>8 DEF Next

(* The invariant holds in every state, whatever keys are pressed, however   *)
(* the mouse is used and whenever programs print or exit                    *)
(* (command.rs:dispatch).                                                   *)
THEOREM InputModesInvariant == Spec => []IInv
BY InitIs, NextKeeps, PTL DEF Spec

(* Once the left button is up neither a border is dragged nor text          *)
(* selected, and at no time are both (mouse.rs:resolve_mouse,               *)
(* command.rs:496-530).                                                     *)
THEOREM InputModesReleaseEndsDrag == Spec => []ReleaseEndsDrag
<1>1. IInv => ReleaseEndsDrag
  BY DEF IInv
<1> QED BY <1>1, InputModesInvariant, PTL

(* The screen of every pane that is shown has the size of its place, except *)
(* while a border is dragged and, until the screens are fitted the next     *)
(* time, after a pane died and after full screen was entered or left        *)
(* (operations.rs:sync_pty_sizes, command.rs:188-192).                      *)
THEOREM InputModesScreensFitLayout == Spec => []ScreensFitLayout
<1>1. IInv => ScreensFitLayout
  BY DEF IInv, ScreensFitLayout, Fitted, Sized
<1> QED BY <1>1, InputModesInvariant, PTL

(* Copy mode and its cursor come and go together, and the cursor is inside  *)
(* the pane until another pane is active or a border moved under it         *)
(* (command.rs:346-353, 399-422).                                           *)
THEOREM InputModesCopyCursorInPane == Spec => []CopyCursorInPane
<1>1. IInv => CopyCursorInPane
  BY DEF IInv, CopyCursorInPane, CopyIn, AppOK, Moded
<1> QED BY <1>1, InputModesInvariant, PTL

-----------------------------------------------------------------------------
(* What is copied *)

(* What the cells of a screen hold: a character or a blank. *)
Char == STRING \cup {" "}

(* A sequence over a set is one over any larger set. *)
LEMMA WiderSeq ==
  ASSUME NEW A, NEW B, A \subseteq B, NEW q \in Seq(A)
  PROVE  q \in Seq(B)
<1>1. Len(q) \in Nat /\ \A i \in 1..Len(q) : q[i] \in B
  OBVIOUS
<1>2. q = [i \in 1..Len(q) |-> q[i]]
  OBVIOUS
<1>3. [i \in 1..Len(q) |-> q[i]] \in Seq(B)
  BY <1>1
<1> QED BY <1>2, <1>3

(* The k-th smallest number of an interval. *)
LEMMA KthOf ==
  ASSUME NEW m \in Int, NEW n \in Int, NEW k \in 1 .. n - m + 1
  PROVE  (CHOOSE c \in m..n : Cardinality({d \in m..n : d <= c}) = k) = m + k - 1
<1>1. ASSUME NEW c \in m..n PROVE Cardinality({d \in m..n : d <= c}) = c - m + 1
  <2>1. {d \in m..n : d <= c} = m..c /\ c \in Int /\ ~(m > c)
    OBVIOUS
  <2> QED BY <2>1, FS_Interval
<1>2. m + k - 1 \in m..n
  OBVIOUS
<1>3. \A c \in m..n : Cardinality({d \in m..n : d <= c}) = k <=> c = m + k - 1
  BY <1>1
<1> QED BY <1>2, <1>3

(* The members of an interval of columns in their order are a part of the   *)
(* text.                                                                    *)
LEMMA KeptColumns ==
  ASSUME NEW S, NEW text \in Seq(S), NEW m \in Nat, NEW n \in Int, m >= 1, n <= Len(text)
  PROVE  LET cells == m..n
         IN  [k \in 1 .. Cardinality(cells) |->
                text[CHOOSE c \in cells : Cardinality({d \in cells : d <= c}) = k]]
               = SubSeq(text, m, n)
<1> DEFINE cells == m..n
           at(k) == CHOOSE c \in cells : Cardinality({d \in cells : d <= c}) = k
           f == [k \in 1 .. Cardinality(cells) |-> text[at(k)]]
<1>1. Cardinality(cells) = IF m > n THEN 0 ELSE n - m + 1
  BY FS_Interval
<1>2. \A i \in m..n : text[i] \in S
  OBVIOUS
<1>3. /\ SubSeq(text, m, n) \in Seq(S)
      /\ Len(SubSeq(text, m, n)) = IF m <= n THEN n - m + 1 ELSE 0
      /\ \A i \in 1 .. n - m + 1 : SubSeq(text, m, n)[i] = text[m + i - 1]
  BY <1>2, SubSeqProperties
<1>4. DOMAIN SubSeq(text, m, n) = 1 .. Cardinality(cells)
  BY <1>1, <1>3
<1>5. ASSUME NEW k \in 1 .. Cardinality(cells) PROVE text[at(k)] = SubSeq(text, m, n)[k]
  <2>1. k \in 1 .. n - m + 1
    BY <1>1
  <2>2. at(k) = m + k - 1
    <3>1. m \in Int
      OBVIOUS
    <3> QED BY <2>1, <3>1, KthOf, Zenon DEF at, cells
  <2> QED BY <1>3, <2>1, <2>2
<1>6. SubSeq(text, m, n) = [k \in 1 .. Cardinality(cells) |-> SubSeq(text, m, n)[k]]
  <2> DEFINE q == SubSeq(text, m, n)
  <2>1. q \in Seq(S) /\ DOMAIN q = 1 .. Cardinality(cells)
    BY <1>3, <1>4
  <2> HIDE DEF q, cells
  <2>2. q = [k \in DOMAIN q |-> q[k]]
    BY <2>1
  <2>3. q = [k \in 1 .. Cardinality(cells) |-> q[k]]
    BY <2>1, <2>2
  <2> QED BY <2>3 DEF q
<1> HIDE DEF at, cells
<1>7. f = SubSeq(text, m, n)
  BY <1>5, <1>6
<1> QED BY <1>7 DEF f, at, cells

(* The columns of a row that contains names are those that RowOfText takes. *)
LEMMA ColumnsTaken ==
  ASSUME NEW sel, sel.start \in Points, sel.end \in Points, sel.mode \in SelectionMode,
         NEW row \in ordered(sel).begin.row .. ordered(sel).end.row,
         NEW S, NEW text \in Seq(S)
  PROVE  LET m == FirstColumn(sel, row) + 1
             n == Least(LastColumn(sel, row, text) + 1, Len(text))
         IN  /\ m \in Nat /\ m >= 1 /\ n \in Int /\ n <= Len(text)
             /\ {c \in DOMAIN text : contains(sel, row, c - 1)} = m..n
<1> DEFINE o == ordered(sel)
           first == FirstColumn(sel, row)
           last == LastColumn(sel, row, text)
<1>1. /\ sel.start.row \in Nat /\ sel.start.col \in Nat /\ sel.end.row \in Nat /\ sel.end.col \in Nat
      /\ Len(text) \in Nat /\ DOMAIN text = 1..Len(text)
  BY DEF Points
<1>2. /\ o.begin.row \in Nat /\ o.begin.col \in Nat /\ o.end.row \in Nat /\ o.end.col \in Nat
  BY <1>1 DEF ordered
<1>3. Left(sel) \in Nat /\ Right(sel) \in Nat
  BY <1>1 DEF Left, Right, Least, Most
<1> HIDE DEF o
<1>4. CASE sel.mode = "Rectangular"
  <2>1. first = Left(sel) /\ last = Right(sel)
    BY <1>4 DEF FirstColumn, LastColumn
  <2>2. \A c : contains(sel, row, c - 1) <=> c - 1 \in Left(sel) .. Right(sel)
    BY <1>4 DEF contains, o
  <2> HIDE DEF first, last
  <2>3. {c \in DOMAIN text : contains(sel, row, c - 1)} = first + 1 .. Least(last + 1, Len(text))
    <3> DEFINE lim == Least(last + 1, Len(text))
    <3>1. first \in Nat /\ last \in Nat
      BY <1>3, <2>1
    <3>2. lim \in Int /\ \A c \in Int : c <= lim <=> c <= last + 1 /\ c <= Len(text)
      BY <1>1, <3>1 DEF Least
    <3> HIDE DEF lim
    <3>3. ASSUME NEW c \in 1..Len(text) PROVE contains(sel, row, c - 1) <=> c \in first + 1 .. lim
      <4>1. contains(sel, row, c - 1) <=> c - 1 \in Left(sel) .. Right(sel)
        BY <2>2
      <4>2. c \in Int /\ (c <= lim <=> c <= last + 1)
        BY <1>1, <3>2
      <4> QED BY <1>3, <2>1, <3>2, <4>1, <4>2
    <3>4. first + 1 .. lim \subseteq 1..Len(text)
      BY <1>1, <3>1, <3>2
    <3>5. {c \in DOMAIN text : contains(sel, row, c - 1)} = first + 1 .. lim
      BY <1>1, <3>3, <3>4
    <3> QED BY <3>5 DEF lim
  <2> QED BY <1>1, <1>3, <2>1, <2>3 DEF Least, first, last
<1>5. CASE sel.mode = "Normal"
  <2>1. /\ first = IF row = o.begin.row THEN o.begin.col ELSE 0
        /\ last = IF row = o.end.row THEN o.end.col ELSE Len(text) - 1
    BY <1>5 DEF FirstColumn, LastColumn, o
  <2>2. \A c : contains(sel, row, c - 1) <=>
                 /\ row = o.begin.row => c - 1 >= o.begin.col
                 /\ row = o.end.row => c - 1 <= o.end.col
    BY <1>5 DEF contains, o
  <2> HIDE DEF first, last
  <2>3. {c \in DOMAIN text : contains(sel, row, c - 1)} = first + 1 .. Least(last + 1, Len(text))
    <3> DEFINE lim == Least(last + 1, Len(text))
    <3>1. first \in Nat /\ last \in Int
      BY <1>1, <1>2, <2>1
    <3>2. lim \in Int /\ \A c \in Int : c <= lim <=> c <= last + 1 /\ c <= Len(text)
      BY <1>1, <3>1 DEF Least
    <3> HIDE DEF lim
    <3>3. ASSUME NEW c \in 1..Len(text) PROVE contains(sel, row, c - 1) <=> c \in first + 1 .. lim
      <4>1. contains(sel, row, c - 1) <=> /\ row = o.begin.row => c - 1 >= o.begin.col
                                          /\ row = o.end.row => c - 1 <= o.end.col
        BY <2>2
      <4>2. c \in Int /\ (c <= lim <=> c <= last + 1)
        BY <1>1, <3>2
      <4>3. c \in first + 1 .. lim <=> c - 1 >= first /\ c - 1 <= last
        BY <3>1, <3>2, <4>2
      <4>4. c - 1 >= 0 /\ c - 1 <= Len(text) - 1
        BY <1>1
      <4>5. c - 1 >= first <=> (row = o.begin.row => c - 1 >= o.begin.col)
        BY <2>1, <4>4
      <4>6. c - 1 <= last <=> (row = o.end.row => c - 1 <= o.end.col)
        BY <2>1, <4>4
      <4> QED BY <4>1, <4>3, <4>5, <4>6
    <3>4. first + 1 .. lim \subseteq 1..Len(text)
      BY <1>1, <3>1, <3>2
    <3>5. {c \in DOMAIN text : contains(sel, row, c - 1)} = first + 1 .. lim
      BY <1>1, <3>3, <3>4
    <3> QED BY <3>5 DEF lim
  <2>4. first \in Nat /\ last \in Int
    BY <1>1, <1>2, <2>1
  <2> QED BY <1>1, <2>3, <2>4 DEF Least, first, last
<1> QED BY <1>4, <1>5 DEF SelectionMode

(* get_text takes what contains says is selected, for any texts. *)
LEMMA TextIsSelected ==
  ASSUME NEW sel, sel.start \in Points, sel.end \in Points, sel.mode \in SelectionMode,
         NEW texts, \A row \in Nat : row_full_text(texts, row) \in Seq(Char)
  PROVE  get_text(sel, texts) = SelectedText(sel, texts)
<1> DEFINE o == ordered(sel)
           text(row) == row_full_text(texts, row)
           cells(row) == {c \in DOMAIN text(row) : contains(sel, row, c - 1)}
           Taken(row) == [k \in 1 .. Cardinality(cells(row)) |->
                            text(row)[CHOOSE c \in cells(row) : Cardinality({d \in cells(row) : d <= c}) = k]]
           from == o.begin.row
           n == o.end.row - o.begin.row + 1
<1>1. SelectedText(sel, texts) = [i \in 1..n |-> TrimEnd(Taken(from + i - 1))]
  BY DEF SelectedText
<1>2. get_text(sel, texts) = [i \in 1..n |-> RowOfText(sel, texts, from + i - 1)]
  BY DEF get_text
<1>3. from \in Nat /\ o.end.row \in Nat
  BY DEF Points, ordered
<1>4. ASSUME NEW i \in 1..n
      PROVE  RowOfText(sel, texts, from + i - 1) = TrimEnd(Taken(from + i - 1))
  <2> DEFINE row == from + i - 1
             first == FirstColumn(sel, row) + 1
             last == Least(LastColumn(sel, row, text(row)) + 1, Len(text(row)))
  <2>1. row \in ordered(sel).begin.row .. ordered(sel).end.row /\ row \in Nat
    <3> HIDE DEF o
    <3>1. row \in o.begin.row .. o.end.row /\ row \in Nat
      <4> DEFINE b == o.end.row
      <4>1. from \in Nat /\ b \in Nat /\ n = b - from + 1 /\ i \in 1..n
        BY <1>3
      <4>2. from + i - 1 \in from .. b /\ from + i - 1 \in Nat
        <5> HIDE DEF from, b, n
        <5> QED BY <4>1
      <4> QED BY <4>2
    <3> QED BY <3>1 DEF o
  <2>2. text(row) \in Seq(Char)
    BY <2>1
  <2> HIDE DEF row, o
  <2>3. /\ first \in Nat /\ first >= 1 /\ last \in Int /\ last <= Len(text(row))
        /\ cells(row) = first..last
    <3> DEFINE t == text(row)
    <3>1. t \in Seq(Char)
      BY <2>2
    <3> HIDE DEF t
    <3>2. LET m == FirstColumn(sel, row) + 1
              l == Least(LastColumn(sel, row, t) + 1, Len(t))
          IN  /\ m \in Nat /\ m >= 1 /\ l \in Int /\ l <= Len(t)
              /\ {c \in DOMAIN t : contains(sel, row, c - 1)} = m..l
      BY <2>1, <3>1, ColumnsTaken
    <3> QED BY <3>2 DEF t
  <2>4. Taken(row) = SubSeq(text(row), first, last)
    <3> DEFINE t == text(row)
               C == cells(row)
    <3>1. t \in Seq(Char) /\ C = first..last
      BY <2>2, <2>3
    <3>2. Taken(row) = [k \in 1 .. Cardinality(C) |->
                          t[CHOOSE c \in C : Cardinality({d \in C : d <= c}) = k]]
      OBVIOUS
    <3>3. first \in Nat /\ first >= 1 /\ last \in Int /\ last <= Len(t)
      BY <2>3
    <3> HIDE DEF first, last, t, C, Taken
    <3>4. [k \in 1 .. Cardinality(C) |-> t[CHOOSE c \in C : Cardinality({d \in C : d <= c}) = k]]
            = SubSeq(t, first, last)
      <4>1. [k \in 1 .. Cardinality(first..last) |->
               t[CHOOSE c \in first..last : Cardinality({d \in first..last : d <= c}) = k]]
              = SubSeq(t, first, last)
        BY <3>1, <3>3, KeptColumns
      <4> QED BY <3>1, <4>1, Zenon
    <3>5. Taken(row) = SubSeq(t, first, last)
      BY <3>2, <3>4
    <3> QED BY <3>5 DEF t
  <2>5. RowOfText(sel, texts, row) = TrimEnd(SubSeq(text(row), first, last))
    BY DEF RowOfText
  <2> QED BY <2>4, <2>5 DEF row
<1> HIDE DEF Taken, n, from
<1> QED BY <1>1, <1>2, <1>4

(* The texts of a screen. *)
LEMMA TextsAre ==
  ASSUME NEW s, ScreenOK(s)
  PROVE  \A row \in Nat : row_full_text(AllTexts(s), row) \in Seq(Char)
<1> DEFINE all == AllLines(s)
           texts == AllTexts(s)
<1>1. s.sb \in Seq(LineId) /\ s.lines \in Seq(LineId) /\ s.cols \in Nat
  BY ScreenHas
<1>2. all \in Seq(LineId)
  BY <1>1 DEF AllLines
<1>3. ASSUME NEW i \in 1..Len(all) PROVE Padded(all[i], s.cols) \in Seq(Char)
  <2> DEFINE t == TextOf(all[i])
  <2>1. all[i] \in LineId
    BY <1>2
  <2>2. t \in Seq(Char)
    <3>1. CASE all[i] = 0
      BY <3>1 DEF TextOf
    <3>2. CASE all[i] # 0
      <4>1. Text \in Seq(Seq(STRING)) /\ all[i] \in 1..Len(Text)
        BY <2>1, <3>2, InputModesAssumption DEF LineId
      <4>2. Text[all[i]] \in Seq(STRING)
        BY <4>1
      <4>3. Text[all[i]] \in Seq(Char)
        <5>1. STRING \subseteq Char
          BY DEF Char
        <5> QED BY <4>2, <5>1, WiderSeq
      <4> QED BY <3>2, <4>3 DEF TextOf
    <3> QED BY <3>1, <3>2
  <2> HIDE DEF t
  <2>3. [c \in 1..s.cols |-> IF c <= Len(t) THEN t[c] ELSE " "] \in Seq(Char)
    <3>1. ASSUME NEW c \in 1..s.cols PROVE (IF c <= Len(t) THEN t[c] ELSE " ") \in Char
      <4>1. CASE c <= Len(t)
        <5>1. c \in 1..Len(t)
          BY <2>2, <4>1
        <5> QED BY <2>2, <4>1, <5>1
      <4>2. CASE ~(c <= Len(t))
        BY <4>2 DEF Char
      <4> QED BY <4>1, <4>2
    <3> DEFINE G(c) == IF c <= Len(t) THEN t[c] ELSE " "
    <3>2. s.cols \in Nat /\ \A c \in 1..s.cols : G(c) \in Char
      BY <1>1, <3>1
    <3> HIDE DEF G
    <3>3. [c \in 1..s.cols |-> G(c)] \in Seq(Char)
      BY <3>2
    <3> QED BY <3>3 DEF G
  <2> QED BY <2>3 DEF Padded, t
<1> HIDE DEF all
<1>4. texts = [i \in 1..Len(all) |-> Padded(all[i], s.cols)]
  BY <1>2 DEF AllTexts, all
<1>5. Len(texts) = Len(all) /\ Len(all) \in Nat
  <2>1. texts \in Seq(Seq(Char)) /\ Len(texts) = Len(all)
    <3> DEFINE P0(i) == Padded(all[i], s.cols)
    <3>1. Len(all) \in Nat /\ \A i \in 1..Len(all) : P0(i) \in Seq(Char)
      BY <1>2, <1>3
    <3>2. texts = [i \in 1..Len(all) |-> P0(i)]
      BY <1>4
    <3> HIDE DEF P0, texts
    <3> QED BY <3>1, <3>2
  <2> QED BY <1>2, <2>1
<1> HIDE DEF texts
<1>6. ASSUME NEW row \in Nat PROVE row_full_text(texts, row) \in Seq(Char)
  <2>1. CASE row < Len(texts)
    <3>1. row + 1 \in 1..Len(all)
      BY <1>5, <2>1
    <3>2. texts[row + 1] \in Seq(Char)
      BY <1>3, <1>4, <3>1
    <3> QED BY <2>1, <3>2 DEF row_full_text
  <2>2. CASE ~(row < Len(texts))
    BY <2>2 DEF row_full_text
  <2> QED BY <2>1, <2>2
<1> QED BY <1>6 DEF texts

(* What is copied is the text of the cells that contains says are selected, *)
(* row by row, for both kinds of selection and in both directions, in rows  *)
(* of characters one column wide (selection.rs:103-183).                    *)
THEOREM InputModesCopiesTheSelection == Spec => []CopiesTheSelection
<1>1. ASSUME IInv PROVE CopiesTheSelection
  <2>1. SUFFICES ASSUME Selecting, NEW mode \in SelectionMode
                 PROVE  LET sel == [app.mouse_selection.selection EXCEPT !.mode = mode]
                            texts == AllTexts(app.screens[app.mouse_selection.pane_id])
                        IN  get_text(sel, texts) = SelectedText(sel, texts)
    BY DEF CopiesTheSelection
  <2> DEFINE ms == app.mouse_selection
             sel == [ms.selection EXCEPT !.mode = mode]
             s == app.screens[ms.pane_id]
  <2>2. ms \in MouseSelection /\ ScreenOK(s)
    BY <1>1, <2>1 DEF IInv, AppOK, Moded, Tabbed, Selecting, Panes
  <2>3. ms.selection \in Selections
    BY <2>2 DEF MouseSelection
  <2>4. sel.start \in Points /\ sel.end \in Points /\ sel.mode \in SelectionMode
    BY <2>3 DEF Selections
  <2>5. \A row \in Nat : row_full_text(AllTexts(s), row) \in Seq(Char)
    BY <2>2, TextsAre
  <2> HIDE DEF sel, s
  <2>6. get_text(sel, AllTexts(s)) = SelectedText(sel, AllTexts(s))
    BY <2>4, <2>5, TextIsSelected
  <2> QED BY <2>6 DEF sel, s
<1>2. IInv => CopiesTheSelection
  BY <1>1
<1> QED BY <1>2, InputModesInvariant, PTL

-----------------------------------------------------------------------------
(* Columns of matches in a row *)

(* The leftmost column of O from s on. *)
Leftmost(O, s) == CHOOSE col \in {c \in O : c >= s} : \A c \in {d \in O : d >= s} : col <= c

(* There is one, when there is a column at all. *)
LEMMA LeftmostIs ==
  ASSUME NEW O \in SUBSET Nat, NEW s \in Nat, {c \in O : c >= s} # {}
  PROVE  Leftmost(O, s) \in O /\ Leftmost(O, s) >= s /\ \A c \in O : c >= s => Leftmost(O, s) <= c
<1> DEFINE C == {c \in O : c >= s}
<1>1. \E k \in C : \A j \in C : k <= j
  <2>1. C \in SUBSET Nat /\ C # {}
    OBVIOUS
  <2> HIDE DEF C
  <2> QED BY <2>1, Assumed, P!LeastNumber
<1>2. Leftmost(O, s) \in C /\ \A c \in C : Leftmost(O, s) <= c
  BY <1>1 DEF Leftmost
<1> QED BY <1>2

(* cols are columns of O from s on, in order and apart from each other by   *)
(* span, and every one of O from s on lies fewer than span behind one of    *)
(* them.                                                                    *)
Tiles(O, span, s, cols) ==
  /\ cols \in Seq(Nat)
  /\ \A i \in 1..Len(cols) : cols[i] \in O /\ cols[i] >= s
  /\ \A i, j \in 1..Len(cols) : i < j => cols[i] + span <= cols[j]
  /\ \A c \in O : c >= s => \E i \in 1..Len(cols) : cols[i] \in c - span + 1 .. c

(* The leftmost one, and those from its end on. *)
LEMMA JoinTiles ==
  ASSUME NEW O \in SUBSET Nat, NEW span \in Nat \ {0}, NEW s \in Nat, NEW rest,
         {c \in O : c >= s} # {},
         Tiles(O, span, Leftmost(O, s) + span, rest)
  PROVE  Tiles(O, span, s, <<Leftmost(O, s)>> \o rest)
<1> DEFINE first == Leftmost(O, s)
           cols == <<first>> \o rest
           n == Len(rest)
<1>1. first \in O /\ first >= s /\ first \in Nat /\ \A c \in O : c >= s => first <= c
  BY LeftmostIs
<1> HIDE DEF first
<1>2. /\ rest \in Seq(Nat) /\ n \in Nat
      /\ \A i \in 1..n : rest[i] \in O /\ rest[i] >= first + span /\ rest[i] \in Nat
      /\ \A i, j \in 1..n : i < j => rest[i] + span <= rest[j]
      /\ \A c \in O : c >= first + span => \E i \in 1..n : rest[i] \in c - span + 1 .. c
  BY DEF Tiles, first
<1>3. /\ cols \in Seq(Nat) /\ Len(cols) = n + 1 /\ cols[1] = first
      /\ \A i \in 1..n : cols[i + 1] = rest[i]
  BY <1>1, <1>2
<1> HIDE DEF cols, n
<1>4. \A i \in 2..n + 1 : i - 1 \in 1..n /\ cols[i] = rest[i - 1]
  <2> TAKE i \in 2..n + 1
  <2>1. i - 1 \in 1..n /\ (i - 1) + 1 = i
    BY <1>2
  <2> QED BY <1>3, <2>1
<1>5. \A i \in 1..n + 1 : cols[i] \in O /\ cols[i] >= s
  <2> TAKE i \in 1..n + 1
  <2>1. CASE i = 1
    BY <1>1, <1>3, <2>1
  <2>2. CASE i # 1
    <3>1. i \in 2..n + 1 /\ i - 1 \in 1..n /\ cols[i] = rest[i - 1]
      BY <1>2, <1>4, <2>2
    <3>2. rest[i - 1] \in O /\ rest[i - 1] >= first + span /\ rest[i - 1] \in Nat
      BY <1>2, <3>1
    <3> QED BY <1>1, <3>1, <3>2
  <2> QED BY <2>1, <2>2
<1>6. ASSUME NEW i \in 1..n + 1, NEW j \in 1..n + 1, i < j PROVE cols[i] + span <= cols[j]
  <2>1. j \in 2..n + 1 /\ j - 1 \in 1..n /\ cols[j] = rest[j - 1]
    BY <1>2, <1>4, <1>6
  <2>2. CASE i = 1
    BY <1>1, <1>2, <1>3, <2>1, <2>2
  <2>3. CASE i # 1
    <3>1. i \in 2..n + 1 /\ i - 1 \in 1..n /\ i - 1 < j - 1 /\ cols[i] = rest[i - 1]
      BY <1>2, <1>4, <1>6, <2>3
    <3> QED BY <1>2, <2>1, <3>1
  <2> QED BY <2>2, <2>3
<1>7. ASSUME NEW c \in O, c >= s PROVE \E i \in 1..n + 1 : cols[i] \in c - span + 1 .. c
  <2>1. c \in Nat /\ first <= c
    BY <1>1, <1>7
  <2>2. CASE c >= first + span
    <3>1. PICK i \in 1..n : rest[i] \in c - span + 1 .. c
      BY <1>2, <2>2
    <3>2. i + 1 \in 1..n + 1 /\ cols[i + 1] = rest[i]
      BY <1>2, <1>3
    <3> QED BY <3>1, <3>2
  <2>3. CASE c < first + span
    <3>1. first \in c - span + 1 .. c
      BY <1>1, <2>1, <2>3
    <3>2. 1 \in 1..n + 1
      BY <1>2
    <3> QED BY <1>3, <3>1, <3>2
  <2> QED BY <1>1, <2>1, <2>2, <2>3
<1> QED BY <1>3, <1>5, <1>6, <1>7 DEF Tiles, cols, first

(* The columns found from s on, when those from every later one are in f. *)
FoundFrom(O, span, f, s) ==
  IF {c \in O : c >= s} = {} THEN <<>> ELSE <<Leftmost(O, s)>> \o f[Leftmost(O, s) + span]

(* There is such a function on all columns up to N. *)
LEMMA SearchRuns ==
  ASSUME NEW O, NEW span \in Nat \ {0}, NEW N \in Nat, \A c \in O : c \in Nat /\ c + span <= N
  PROVE  \E f : f = [s \in 0..N |-> FoundFrom(O, span, f, s)]
<1> DEFINE Runs(f, k) == f = [s \in N - k..N |-> FoundFrom(O, span, f, s)]
           S == {k \in Nat : \E f : Runs(f, k)}
<1>1. 0 \in S
  <2> DEFINE f == [s \in N..N |-> <<>>]
  <2>1. \A s \in N..N : {c \in O : c >= s} = {}
    OBVIOUS
  <2>2. \A g : \A s \in N..N : FoundFrom(O, span, g, s) = <<>>
    BY <2>1 DEF FoundFrom
  <2>3. f = [s \in N..N |-> FoundFrom(O, span, f, s)]
    <3> HIDE DEF f
    <3>1. f = [s \in N..N |-> <<>>]
      BY DEF f
    <3> QED BY <2>2, <3>1
  <2>4. N - 0 = N /\ 0 \in Nat
    OBVIOUS
  <2> HIDE DEF f
  <2>5. Runs(f, 0)
    BY <2>3, <2>4
  <2> QED BY <2>4, <2>5
<1>2. ASSUME NEW k \in 1..N, k - 1 \in S PROVE k \in S
  <2> DEFINE b == N - k
  <2>1. PICK f : Runs(f, k - 1)
    BY <1>2
  <2>2. b \in Nat /\ N - (k - 1) = b + 1 /\ k \in Nat /\ b + 1 <= N
    BY <1>2
  <2>3. f = [s \in b + 1..N |-> FoundFrom(O, span, f, s)]
    BY <2>1, <2>2
  <2> HIDE DEF b, Runs
  <2> DEFINE g == [s \in b..N |-> IF s = b THEN FoundFrom(O, span, f, b) ELSE f[s]]
  <2>4. \A s \in b + 1..N : s \in b..N /\ s # b /\ g[s] = f[s]
    BY <2>2
  <2>5. g = [s \in b..N |-> g[s]] /\ b \in b..N /\ g[b] = FoundFrom(O, span, f, b)
    BY <2>2
  <2> HIDE DEF g
  <2>6. ASSUME NEW s \in b..N PROVE FoundFrom(O, span, g, s) = FoundFrom(O, span, f, s)
    <3>1. CASE {c \in O : c >= s} = {}
      BY <3>1 DEF FoundFrom
    <3>2. CASE {c \in O : c >= s} # {}
      <4>1. s \in Nat /\ O \in SUBSET Nat
        BY <2>2
      <4>2. Leftmost(O, s) \in O /\ Leftmost(O, s) >= s
        BY <3>2, <4>1, LeftmostIs
      <4> DEFINE m == Leftmost(O, s)
      <4>3. m + span \in b + 1..N
        <5>1. m \in Nat /\ m + span <= N /\ m >= s /\ s >= b
          BY <2>2, <4>2
        <5> HIDE DEF m
        <5> QED BY <2>2, <5>1
      <4> QED BY <2>4, <4>3 DEF FoundFrom
    <3> QED BY <3>1, <3>2
  <2>7. ASSUME NEW s \in b..N PROVE g[s] = FoundFrom(O, span, g, s)
    <3>1. CASE s = b
      BY <2>5, <2>6, <3>1
    <3>2. CASE s # b
      <4>1. s \in b + 1..N
        BY <2>2, <3>2
      <4>2. f[s] = FoundFrom(O, span, f, s)
        BY <2>3, <4>1
      <4> QED BY <2>4, <2>6, <4>1, <4>2
    <3> QED BY <3>1, <3>2
  <2>8. g = [s \in b..N |-> FoundFrom(O, span, g, s)]
    BY <2>5, <2>7
  <2>9. Runs(g, k)
    BY <2>8 DEF Runs, b
  <2> QED BY <2>2, <2>9
<1>3. N \in S
  <2>1. 0 \in Nat /\ N \in Nat /\ \A i \in 0 + 1..N : i - 1 \in S => i \in S
    BY <1>2
  <2>2. 0..N \subseteq S
    <3> HIDE DEF S
    <3> QED BY <1>1, <2>1, Assumed, P!Climb
  <2> QED BY <2>2
<1>4. PICK f : Runs(f, N)
  BY <1>3
<1>5. N - N = 0
  OBVIOUS
<1> QED BY <1>4, <1>5

(* What it finds. *)
LEMMA SearchTiles ==
  ASSUME NEW O, NEW span \in Nat \ {0}, NEW N \in Nat, \A c \in O : c \in Nat /\ c + span <= N,
         NEW f, f = [s \in 0..N |-> FoundFrom(O, span, f, s)]
  PROVE  Tiles(O, span, 0, f[0])
<1> DEFINE S == {k \in Nat : \A s \in N - k..N : s \in Nat => Tiles(O, span, s, f[s])}
<1>0. O \in SUBSET Nat
  OBVIOUS
<1>1. ASSUME NEW s \in 0..N, \A t \in s + 1..N : Tiles(O, span, t, f[t]) PROVE Tiles(O, span, s, f[s])
  <2>1. f[s] = FoundFrom(O, span, f, s)
    OBVIOUS
  <2>2. CASE {c \in O : c >= s} = {}
    <3>1. f[s] = <<>> /\ <<>> \in Seq(Nat) /\ Len(<<>>) = 0
      BY <2>1, <2>2 DEF FoundFrom
    <3> QED BY <2>2, <3>1 DEF Tiles
  <2>3. CASE {c \in O : c >= s} # {}
    <3>1. Leftmost(O, s) \in O /\ Leftmost(O, s) >= s
      <4>1. s \in Nat
        OBVIOUS
      <4> HIDE DEF S
      <4>2. Leftmost(O, s) \in {c \in O : c >= s}
        BY <1>0, <2>3, <4>1, LeftmostIs
      <4> QED BY <4>2
    <3>2. Leftmost(O, s) + span \in s + 1..N
      <4> DEFINE m == Leftmost(O, s)
      <4>1. m \in Nat /\ m + span <= N /\ m >= s
        BY <3>1
      <4> HIDE DEF m
      <4>2. m + span \in s + 1..N
        BY <4>1
      <4> QED BY <4>2 DEF m
    <3>3. f[s] = <<Leftmost(O, s)>> \o f[Leftmost(O, s) + span]
      BY <2>1, <2>3 DEF FoundFrom
    <3>4. Tiles(O, span, Leftmost(O, s) + span, f[Leftmost(O, s) + span])
      BY <1>1, <3>2
    <3>5. s \in Nat
      OBVIOUS
    <3> QED BY <1>0, <2>3, <3>3, <3>4, <3>5, JoinTiles
  <2> QED BY <2>2, <2>3
<1>2. 0 \in S
  <2>1. Tiles(O, span, N, f[N])
    BY <1>1
  <2> QED BY <2>1
<1>3. ASSUME NEW k \in 1..N, k - 1 \in S PROVE k \in S
  <2> DEFINE b == N - k
  <2>1. b \in 0..N /\ N - (k - 1) = b + 1 /\ k \in Nat
    BY <1>3
  <2>2. \A s \in b + 1..N : s \in Nat => Tiles(O, span, s, f[s])
    BY <1>3, <2>1
  <2>3. Tiles(O, span, b, f[b])
    BY <1>1, <2>1, <2>2
  <2>4. \A s \in b..N : Tiles(O, span, s, f[s])
    BY <2>1, <2>2, <2>3
  <2> QED BY <2>1, <2>4
<1>4. N \in S
  <2>1. 0 \in Nat /\ N \in Nat /\ \A i \in 0 + 1..N : i - 1 \in S => i \in S
    <3> HIDE DEF S
    <3> QED BY <1>3
  <2>2. 0..N \subseteq S
    <3> HIDE DEF S
    <3> QED BY <1>2, <2>1, Assumed, P!Climb
  <2> QED BY <2>2
<1> QED BY <1>4

(* The matches in one row. *)
LEMMA MatchColumnsAre ==
  ASSUME NEW S, NEW text \in Seq(S), NEW T, NEW query \in Seq(T), query # <<>>
  PROVE  Tiles(Occurrences(text, query), Len(query), 0, MatchColumns(text, query))
<1> DEFINE O == Occurrences(text, query)
           span == Len(query)
           N == Len(text) + Len(query)
           Found(f) == [s \in 0..N |-> FoundFrom(O, span, f, s)]
<1>1. span \in Nat \ {0} /\ Len(text) \in Nat /\ N \in Nat
  OBVIOUS
<1>2. \A c \in O : c \in Nat /\ c + span <= N
  BY <1>1 DEF Occurrences, OccursAt
<1>3. MatchColumns(text, query) = (CHOOSE f : f = Found(f))[0]
  BY DEF MatchColumns, FoundFrom, Leftmost
<1> HIDE DEF O, span, N
<1>4. \E f : f = Found(f)
  BY <1>1, <1>2, SearchRuns
<1> DEFINE from == CHOOSE f : f = Found(f)
<1>5. from = Found(from)
  <2> HIDE DEF Found
  <2> QED BY <1>4
<1> HIDE DEF from
<1>6. Tiles(O, span, 0, from[0])
  BY <1>1, <1>2, <1>5, SearchTiles
<1> QED BY <1>3, <1>6 DEF from, O, span

-----------------------------------------------------------------------------
(* Matches in all rows *)

Match == [row : Nat, col : Nat, len : Nat]

(* M holds the matches of the first m rows. *)
FoundIn(texts, q, m, M) ==
  /\ M \in Seq(Match)
  /\ \A i \in 1..Len(M) :
       /\ M[i].row < m /\ M[i].len = Len(q)
       /\ M[i].col \in Occurrences(texts[M[i].row + 1], q)
  /\ \A i, j \in 1..Len(M) : i < j =>
       M[i].row < M[j].row \/ (M[i].row = M[j].row /\ M[i].col + M[i].len <= M[j].col)
  /\ \A r \in 1..m : \A col \in Occurrences(texts[r], q) :
       \E i \in 1..Len(M) : M[i].row = r - 1 /\ M[i].col \in col - Len(q) + 1 .. col

(* The matches of one row. *)
LEMMA RowIs ==
  ASSUME NEW S, NEW text \in Seq(S), NEW T, NEW q \in Seq(T), q # <<>>, NEW row \in Nat
  PROVE  LET R == MatchesOfRow(row, text, q)
         IN  /\ R \in Seq(Match)
             /\ \A i \in 1..Len(R) : R[i].row = row /\ R[i].len = Len(q)
                                     /\ R[i].col \in Occurrences(text, q)
             /\ \A i, j \in 1..Len(R) : i < j => R[i].col + Len(q) <= R[j].col
             /\ \A col \in Occurrences(text, q) :
                  \E i \in 1..Len(R) : R[i].col \in col - Len(q) + 1 .. col
<1> DEFINE cols == MatchColumns(text, q)
           span == Len(q)
           n == Len(cols)
           R == [i \in 1..n |-> [row |-> row, col |-> cols[i], len |-> span]]
<1>1. Tiles(Occurrences(text, q), span, 0, cols)
  BY MatchColumnsAre
<1>2. span \in Nat
  OBVIOUS
<1> HIDE DEF cols, span
<1>3. cols \in Seq(Nat) /\ n \in Nat /\ DOMAIN cols = 1..n /\ \A i \in 1..n : cols[i] \in Nat
  BY <1>1 DEF Tiles
<1>4. MatchesOfRow(row, text, q) = R
  BY <1>3 DEF MatchesOfRow, cols, span
<1>5. \A i \in 1..n : R[i] \in Match /\ R[i].row = row /\ R[i].len = span /\ R[i].col = cols[i]
  BY <1>2, <1>3 DEF Match
<1>6. R \in Seq(Match) /\ Len(R) = n
  <2>1. \A i \in 1..n : [row |-> row, col |-> cols[i], len |-> span] \in Match
    BY <1>2, <1>3 DEF Match
  <2> QED BY <1>3, <2>1
<1> HIDE DEF R, n
<1>7. \A col \in Occurrences(text, q) : col >= 0
  BY DEF Occurrences
<1>8. /\ \A i \in 1..n : cols[i] \in Occurrences(text, q)
      /\ \A i, j \in 1..n : i < j => cols[i] + span <= cols[j]
      /\ \A c \in Occurrences(text, q) : \E i \in 1..n : cols[i] \in c - span + 1 .. c
  BY <1>1, <1>7 DEF Tiles, n
<1>9. \A c \in Occurrences(text, q) : \E i \in 1..n : R[i].col \in c - span + 1 .. c
  BY <1>5, <1>8
<1> QED BY <1>4, <1>5, <1>6, <1>8, <1>9 DEF span

(* One row more. *)
LEMMA RowAdded ==
  ASSUME NEW T, NEW q \in Seq(T), q # <<>>, NEW texts, NEW m \in Nat, NEW M, FoundIn(texts, q, m, M),
         NEW S, texts[m + 1] \in Seq(S)
  PROVE  FoundIn(texts, q, m + 1, M \o MatchesOfRow(m, texts[m + 1], q))
<1> DEFINE text == texts[m + 1]
           R == MatchesOfRow(m, text, q)
           span == Len(q)
           k == Len(M)
           n == Len(R)
           J == M \o R
<1>1. /\ R \in Seq(Match)
      /\ \A i \in 1..n : R[i].row = m /\ R[i].len = span /\ R[i].col \in Occurrences(text, q)
      /\ \A i, j \in 1..n : i < j => R[i].col + span <= R[j].col
      /\ \A col \in Occurrences(text, q) : \E i \in 1..n : R[i].col \in col - span + 1 .. col
  <2> HIDE DEF text
  <2>1. text \in Seq(S)
    BY DEF text
  <2> QED BY <2>1, RowIs
<1>2. /\ M \in Seq(Match)
      /\ \A i \in 1..k : M[i].row < m /\ M[i].len = span /\ M[i].col \in Occurrences(texts[M[i].row + 1], q)
      /\ \A i, j \in 1..k : i < j =>
           M[i].row < M[j].row \/ (M[i].row = M[j].row /\ M[i].col + M[i].len <= M[j].col)
      /\ \A r \in 1..m : \A col \in Occurrences(texts[r], q) :
           \E i \in 1..k : M[i].row = r - 1 /\ M[i].col \in col - span + 1 .. col
  BY DEF FoundIn
<1> HIDE DEF R
<1>3. /\ k \in Nat /\ n \in Nat /\ J \in Seq(Match) /\ Len(J) = k + n
      /\ \A i \in 1..k : J[i] = M[i] /\ i \in 1..k + n
      /\ \A i \in 1..n : J[k + i] = R[i] /\ k + i \in 1..k + n
      /\ \A i \in 1..k + n : i \in 1..k \/ (i - k \in 1..n /\ J[i] = R[i - k])
  BY <1>1, <1>2, ConcatProperties
<1>4. /\ \A i \in 1..k : M[i].row \in Nat /\ M[i].col \in Nat
      /\ \A i \in 1..n : R[i].row \in Nat /\ R[i].col \in Nat
      /\ span \in Nat
  <2>1. span \in Nat
    OBVIOUS
  <2> HIDE DEF k, n
  <2>2. \A i \in 1..k : M[i] \in Match
    BY <1>2, <1>3 DEF k
  <2>3. \A i \in 1..n : R[i] \in Match
    BY <1>1, <1>3 DEF n
  <2>4. \A x \in Match : x.row \in Nat /\ x.col \in Nat
    BY DEF Match
  <2> QED BY <2>1, <2>2, <2>3, <2>4
<1> HIDE DEF J, k, n, span, text
<1>5. ASSUME NEW i \in 1..k + n
      PROVE  J[i].row < m + 1 /\ J[i].len = span /\ J[i].col \in Occurrences(texts[J[i].row + 1], q)
  <2>1. CASE i \in 1..k
    <3>1. J[i] = M[i] /\ M[i].row \in Nat
      BY <1>3, <1>4, <2>1
    <3>2. /\ M[i].row < m /\ M[i].len = span
          /\ M[i].col \in Occurrences(texts[M[i].row + 1], q)
      BY <1>2, <2>1
    <3>3. M[i].row < m + 1
      BY <3>1, <3>2
    <3> QED BY <3>1, <3>2, <3>3
  <2>2. CASE i \notin 1..k
    <3>1. i - k \in 1..n /\ J[i] = R[i - k]
      BY <1>3, <2>2
    <3> QED BY <1>1, <3>1 DEF text
  <2> QED BY <2>1, <2>2
<1>6. ASSUME NEW i \in 1..k + n, NEW j \in 1..k + n, i < j
      PROVE  J[i].row < J[j].row \/ (J[i].row = J[j].row /\ J[i].col + J[i].len <= J[j].col)
  <2>1. CASE j \in 1..k
    <3>1. i \in 1..k
      BY <1>3, <1>6, <2>1
    <3>2. J[i] = M[i] /\ J[j] = M[j]
      BY <1>3, <2>1, <3>1
    <3>3. M[i].row < M[j].row \/ (M[i].row = M[j].row /\ M[i].col + M[i].len <= M[j].col)
      BY <1>2, <1>6, <2>1, <3>1
    <3> QED BY <3>2, <3>3
  <2>2. CASE j \notin 1..k /\ i \in 1..k
    <3>1. j - k \in 1..n /\ J[j] = R[j - k] /\ J[i] = M[i]
      BY <1>3, <2>2
    <3>2. R[j - k].row = m /\ M[i].row < m
      BY <1>1, <1>2, <2>2, <3>1
    <3> QED BY <3>1, <3>2
  <2>3. CASE j \notin 1..k /\ i \notin 1..k
    <3>1. j - k \in 1..n /\ J[j] = R[j - k] /\ i - k \in 1..n /\ J[i] = R[i - k] /\ i - k < j - k
      BY <1>3, <1>6, <2>3
    <3>2. R[j - k].row = m /\ R[i - k].row = m /\ R[i - k].len = span
          /\ R[i - k].col + span <= R[j - k].col
      BY <1>1, <3>1
    <3> QED BY <3>1, <3>2
  <2> QED BY <2>1, <2>2, <2>3
<1>7. ASSUME NEW r \in 1..m + 1, NEW col \in Occurrences(texts[r], q)
      PROVE  \E i \in 1..k + n : J[i].row = r - 1 /\ J[i].col \in col - span + 1 .. col
  <2>1. CASE r = m + 1
    <3>1. PICK i \in 1..n : R[i].col \in col - span + 1 .. col
      BY <1>1, <2>1 DEF text
    <3>2. J[k + i] = R[i] /\ k + i \in 1..k + n /\ R[i].row = m
      BY <1>1, <1>3
    <3> QED BY <2>1, <3>1, <3>2
  <2>2. CASE r # m + 1
    <3>1. r \in 1..m
      BY <2>2
    <3>2. PICK i \in 1..k : M[i].row = r - 1 /\ M[i].col \in col - span + 1 .. col
      BY <1>2, <3>1
    <3>3. J[i] = M[i] /\ i \in 1..k + n
      BY <1>3
    <3> QED BY <3>2, <3>3
  <2> QED BY <2>1, <2>2
<1> QED BY <1>3, <1>5, <1>6, <1>7 DEF FoundIn, J, span, text, R

(* Rows joined one after the other. *)
JoinedUpTo(q, f, i) == IF i = 1 THEN q[i] ELSE f[i - 1] \o q[i]

(* FlattenSeq joins them in that way. *)
LEMMA FlattenRuns ==
  ASSUME NEW q, Len(q) \in Nat \ {0}
  PROVE  \E f : /\ f = [i \in 1..Len(q) |-> JoinedUpTo(q, f, i)]
                /\ FlattenSeq(q) = f[Len(q)]
<1> DEFINE Runs(f, n) == f = [i \in 1..n |-> JoinedUpTo(q, f, i)]
           S == {n \in Nat : \E f : Runs(f, n)}
           k == Len(q)
<1>1. 1 \in S
  <2> DEFINE f == [i \in 1..1 |-> q[1]]
  <2>1. \A g : \A i \in 1..1 : JoinedUpTo(q, g, i) = q[1]
    BY DEF JoinedUpTo
  <2>2. Runs(f, 1)
    <3> HIDE DEF f
    <3>1. f = [i \in 1..1 |-> q[1]]
      BY DEF f
    <3> QED BY <2>1, <3>1
  <2> HIDE DEF f, Runs
  <2> QED BY <2>2
<1>2. ASSUME NEW n \in 2..k, n - 1 \in S PROVE n \in S
  <2>1. PICK f : Runs(f, n - 1)
    BY <1>2
  <2> DEFINE g == [i \in 1..n |-> IF i = n THEN f[n - 1] \o q[n] ELSE f[i]]
  <2>a. n \in 1..n
    OBVIOUS
  <2>b. \A i \in 1..n - 1 : i \in 1..n /\ i # n
    OBVIOUS
  <2>c. g = [i \in 1..n |-> g[i]]
    OBVIOUS
  <2>d. g[n] = f[n - 1] \o q[n]
    BY <2>a
  <2>e. \A i \in 1..n - 1 : g[i] = f[i]
    BY <2>b
  <2> HIDE DEF g
  <2>2. /\ g = [i \in 1..n |-> g[i]] /\ g[n] = f[n - 1] \o q[n]
        /\ \A i \in 1..n - 1 : g[i] = f[i] /\ i \in 1..n
    BY <2>b, <2>c, <2>d, <2>e
  <2>3. ASSUME NEW i \in 1..n PROVE g[i] = JoinedUpTo(q, g, i)
    <3>1. CASE i = n
      <4>1. n - 1 \in 1..n - 1 /\ n # 1
        OBVIOUS
      <4> QED BY <2>2, <3>1, <4>1 DEF JoinedUpTo
    <3>2. CASE i # n
      <4>1. i \in 1..n - 1 /\ (i # 1 => i - 1 \in 1..n - 1)
        BY <3>2
      <4>2. f[i] = JoinedUpTo(q, f, i)
        BY <2>1, <4>1
      <4> QED BY <2>2, <4>1, <4>2 DEF JoinedUpTo
    <3> QED BY <3>1, <3>2
  <2>4. Runs(g, n)
    BY <2>2, <2>3
  <2> HIDE DEF Runs
  <2>5. n \in Nat
    OBVIOUS
  <2> QED BY <2>4, <2>5
<1>3. k \in S
  <2>1. 1 \in Nat /\ k \in Nat /\ \A i \in 1 + 1..k : i - 1 \in S => i \in S
    <3> HIDE DEF S
    <3> QED BY <1>2
  <2>2. 1..k \subseteq S
    <3> HIDE DEF S, k
    <3> QED BY <1>1, <2>1, Assumed, P!Climb
  <2> QED BY <2>2
<1>4. \E f : Runs(f, k)
  BY <1>3
<1>5. Runs(CHOOSE f : Runs(f, k), k)
  <2> HIDE DEF Runs
  <2> QED BY <1>4
<1>6. FlattenSeq(q) = (CHOOSE f : Runs(f, k))[k]
  BY DEF FlattenSeq, JoinedUpTo
<1> QED BY <1>5, <1>6

(* find_all_matches, in any rows. *)
LEMMA AllMatchesAre ==
  ASSUME NEW T, NEW q \in Seq(T), q # <<>>, NEW S, NEW texts \in Seq(Seq(S))
  PROVE  FoundIn(texts, q, Len(texts), find_all_matches(texts, q))
<1> DEFINE n == Len(texts)
           R == [r \in DOMAIN texts |-> MatchesOfRow(r - 1, texts[r], q)]
<1>1. n \in Nat /\ DOMAIN texts = 1..n /\ \A r \in 1..n : texts[r] \in Seq(S)
  OBVIOUS
<1>2. find_all_matches(texts, q) = FlattenSeq(R)
  BY DEF find_all_matches
<1>3. FoundIn(texts, q, 0, <<>>)
  BY DEF FoundIn
<1>4. ASSUME NEW r \in 1..n PROVE R[r] \in Seq(Match)
  <2>1. R[r] = MatchesOfRow(r - 1, texts[r], q) /\ r - 1 \in Nat /\ texts[r] \in Seq(S)
    BY <1>1
  <2> HIDE DEF R
  <2> QED BY <2>1, RowIs
<1>5. R \in Seq(Seq(Match)) /\ Len(R) = n
  <2>1. R = [r \in 1..n |-> R[r]]
    BY <1>1
  <2> HIDE DEF R
  <2> QED BY <1>1, <1>4, <2>1
<1>6. CASE n = 0
  <2>1. FlattenSeq(R) = <<>>
    <3> HIDE DEF R
    <3> QED BY <1>5, <1>6 DEF FlattenSeq
  <2> QED BY <1>2, <1>3, <1>6, <2>1
<1>7. CASE n # 0
  <2>1. Len(R) \in Nat \ {0}
    BY <1>1, <1>5, <1>7
  <2>2. PICK f : f = [i \in 1..n |-> JoinedUpTo(R, f, i)] /\ FlattenSeq(R) = f[n]
    <3> HIDE DEF R
    <3> QED BY <1>5, <2>1, FlattenRuns
  <2>3. \A r \in 1..n : R[r] = MatchesOfRow(r - 1, texts[r], q)
    BY <1>1
  <2> DEFINE Good == {m \in Nat : FoundIn(texts, q, m, f[m])}
  <2>4. 1 \in Good
    <3>1. 1 \in 1..n /\ 0 + 1 = 1 /\ 1 - 1 = 0 /\ 0 \in Nat
      BY <1>1, <1>7
    <3>2. f[1] = R[1] /\ R[1] = MatchesOfRow(0, texts[1], q) /\ R[1] \in Seq(Match)
      <4> HIDE DEF R
      <4> QED BY <1>4, <2>2, <2>3, <3>1 DEF JoinedUpTo
    <3>3. <<>> \o R[1] = R[1]
      <4> HIDE DEF R
      <4> QED BY <3>2
    <3>4. texts[0 + 1] \in Seq(S)
      BY <1>1, <3>1
    <3> HIDE DEF R
    <3>5. FoundIn(texts, q, 0 + 1, <<>> \o MatchesOfRow(0, texts[0 + 1], q))
      BY <1>3, <3>1, <3>4, RowAdded
    <3> QED BY <3>1, <3>2, <3>3, <3>5
  <2>5. ASSUME NEW i \in 2..n, i - 1 \in Good PROVE i \in Good
    <3>1. i \in 1..n /\ i # 1 /\ i - 1 \in Nat /\ (i - 1) + 1 = i /\ i \in Nat
      BY <1>1
    <3> HIDE DEF R
    <3>2. f[i] = f[i - 1] \o R[i]
      BY <2>2, <3>1 DEF JoinedUpTo
    <3>3. R[i] = MatchesOfRow(i - 1, texts[i], q) /\ texts[i] \in Seq(S)
      BY <1>1, <2>3, <3>1
    <3>4. FoundIn(texts, q, i - 1, f[i - 1])
      BY <2>5
    <3> DEFINE m == i - 1
    <3>5. m \in Nat /\ m + 1 = i
      BY <3>1
    <3> HIDE DEF m
    <3>6. FoundIn(texts, q, m + 1, f[m] \o MatchesOfRow(m, texts[m + 1], q))
      <4>1. FoundIn(texts, q, m, f[m]) /\ texts[m + 1] \in Seq(S)
        BY <3>3, <3>4, <3>5 DEF m
      <4> QED BY <3>5, <4>1, RowAdded
    <3>7. FoundIn(texts, q, i, f[i])
      BY <3>2, <3>3, <3>5, <3>6 DEF m
    <3> QED BY <3>1, <3>7
  <2>6. n \in Good
    <3>1. 1 \in Nat /\ n \in Nat /\ \A i \in 1 + 1..n : i - 1 \in Good => i \in Good
      <4> HIDE DEF Good
      <4> QED BY <1>1, <2>5
    <3>2. 1..n \subseteq Good
      <4> HIDE DEF Good, n
      <4> QED BY <2>4, <3>1, Assumed, P!Climb
    <3>3. n \in 1..n
      BY <1>1, <1>7
    <3> QED BY <3>2, <3>3
  <2> QED BY <1>2, <2>2, <2>6
<1> QED BY <1>6, <1>7

-----------------------------------------------------------------------------
(* Commands that leave the query *)

(* The query stays what it was. *)
Quiet(a, b) == DOMAIN a = AppFields => DOMAIN b = AppFields /\ b.search_query = a.search_query

(* The commands of keys, except those that edit the query. *)
LEMMA QuietKeys ==
  ASSUME NEW a, NEW x
  PROVE  /\ Quiet(a, dispatch_split_pane(a, x)) /\ Quiet(a, dispatch_close_active_pane(a))
         /\ Quiet(a, ClosePane(a, x)) /\ Quiet(a, FocusDirection(a, x))
         /\ Quiet(a, [a EXCEPT !.input_mode = "Normal"])
         /\ Quiet(a, SearchNextMatch(a)) /\ Quiet(a, SearchPrevMatch(a))
         /\ Quiet(a, EnterCopyMode(a)) /\ Quiet(a, ExitCopyMode(a)) /\ Quiet(a, copy_move(a, x))
         /\ Quiet(a, CopyToggleSelection(a)) /\ Quiet(a, CopyYank(a)) /\ Quiet(a, ForwardKeyToPty(a))
         /\ Quiet(a, [a EXCEPT !.sent = @ \cup {x}]) /\ Quiet(a, ToggleFullscreen(a)) /\ Quiet(a, a)
<1>1. Quiet(a, dispatch_split_pane(a, x))
  BY DEF Quiet, AppFields, dispatch_split_pane
<1>2. Quiet(a, ClosePane(a, x)) /\ Quiet(a, ClosePane(a, a.active))
  BY DEF Quiet, AppFields, ClosePane
<1>3. Quiet(a, dispatch_close_active_pane(a))
  <2> DEFINE b == ClosePane(a, a.active)
  <2>1. Quiet(a, b)
    BY <1>2
  <2>2. dispatch_close_active_pane(a) \in {a, [b EXCEPT !.fit = TRUE]}
    BY DEF dispatch_close_active_pane
  <2> HIDE DEF b
  <2>3. Quiet(a, a) /\ Quiet(a, [b EXCEPT !.fit = TRUE])
    BY <2>1 DEF Quiet, AppFields
  <2> QED BY <2>2, <2>3
<1>4. Quiet(a, FocusDirection(a, x))
  BY DEF Quiet, AppFields, FocusDirection, FocusOneOf, Focus
<1>5. Quiet(a, [a EXCEPT !.input_mode = "Normal"]) /\ Quiet(a, [a EXCEPT !.sent = @ \cup {x}])
  BY DEF Quiet, AppFields
<1>6. Quiet(a, SearchNextMatch(a)) /\ Quiet(a, SearchPrevMatch(a))
  BY DEF Quiet, AppFields, SearchNextMatch, SearchPrevMatch
<1>7. Quiet(a, EnterCopyMode(a)) /\ Quiet(a, ExitCopyMode(a))
  BY DEF Quiet, AppFields, EnterCopyMode, ExitCopyMode
<1>8. Quiet(a, copy_move(a, x)) /\ Quiet(a, CopyToggleSelection(a))
  BY DEF Quiet, AppFields, copy_move, CopyToggleSelection
<1>9. Quiet(a, CopyYank(a))
  BY DEF Quiet, AppFields, CopyYank, ExitCopyMode
<1>10. Quiet(a, ForwardKeyToPty(a))
  BY DEF Quiet, AppFields, ForwardKeyToPty
<1>11. Quiet(a, ToggleFullscreen(a)) /\ Quiet(a, a)
  BY DEF Quiet, AppFields, ToggleFullscreen
<1> QED BY <1>1, <1>2, <1>3, <1>4, <1>5, <1>6, <1>7, <1>8, <1>9, <1>10, <1>11

(* The commands of the mouse, and the fitting of the screens. *)
LEMMA QuietMouse ==
  ASSUME NEW a, NEW x, NEW y
  PROVE  /\ Quiet(a, ScrollPane(a, x, y)) /\ Quiet(a, FocusPane(a, x))
         /\ Quiet(a, [a EXCEPT !.border_drag = x]) /\ Quiet(a, ContinueBorderDrag(a, x))
         /\ Quiet(a, EndBorderDrag(a)) /\ Quiet(a, [a EXCEPT !.mouse_selection = x])
         /\ Quiet(a, [a EXCEPT !.mouse_selection.selection = Extend(@, x)])
         /\ Quiet(a, FinalizeMouseSelection(a)) /\ Quiet(a, Fresh(a)) /\ Quiet(a, sync_pty_sizes(a))
         /\ Quiet(a, Resize(a, x))
<1>1. /\ Quiet(a, ScrollPane(a, x, y)) /\ Quiet(a, FocusPane(a, x))
      /\ Quiet(a, [a EXCEPT !.border_drag = x])
  BY DEF Quiet, AppFields, ScrollPane, FocusPane, Focus
<1>2. Quiet(a, ContinueBorderDrag(a, x))
  <2>1. ASSUME NEW id, NEW axis, NEW amount PROVE Quiet(a, resize_pane(a, id, axis, amount))
    BY DEF Quiet, AppFields, resize_pane
  <2>2. ASSUME NEW b, Quiet(a, b) PROVE Quiet(a, [b EXCEPT !.border_drag.last = x])
    BY <2>2 DEF Quiet, AppFields
  <2> QED BY <2>1, <2>2 DEF ContinueBorderDrag
<1>3. Quiet(a, EndBorderDrag(a)) /\ Quiet(a, [a EXCEPT !.mouse_selection = x])
  BY DEF Quiet, AppFields, EndBorderDrag
<1>4. Quiet(a, [a EXCEPT !.mouse_selection.selection = Extend(@, x)])
  BY DEF Quiet, AppFields
<1>5. Quiet(a, FinalizeMouseSelection(a))
  BY DEF Quiet, AppFields, FinalizeMouseSelection
<1>6. Quiet(a, Fresh(a)) /\ Quiet(a, sync_pty_sizes(a))
  BY DEF Quiet, AppFields, Fresh, sync_pty_sizes
<1>7. Quiet(a, Resize(a, x))
  <2> DEFINE b == [a EXCEPT !.size = x, !.fit = TRUE]
             s == sync_pty_sizes(b)
  <2>1. Quiet(a, b)
    BY DEF Quiet, AppFields
  <2> HIDE DEF b
  <2>2. Quiet(b, s)
    BY DEF Quiet, AppFields, sync_pty_sizes
  <2>3. Resize(a, x) = ClampCopyCursor(s)
    BY DEF Resize, b
  <2> HIDE DEF s
  <2>4. Quiet(s, ClampCopyCursor(s))
    BY DEF Quiet, AppFields, ClampCopyCursor
  <2> QED BY <2>1, <2>2, <2>3, <2>4 DEF Quiet
<1> QED BY <1>1, <1>2, <1>3, <1>4, <1>5, <1>6, <1>7

(* Whatever a performs, if dispatching it leaves the query. *)
LEMMA QuietPerform ==
  ASSUME NEW a, NEW c, Quiet(a, dispatch(a, c))
  PROVE  Quiet(a, Perform(a, c))
<1> DEFINE b == dispatch(a, c)
<1>1. Perform(a, c) \in {b, sync_pty_sizes(b)}
  BY DEF Perform, execute_side_effects
<1> HIDE DEF b
<1>2. Quiet(b, sync_pty_sizes(b))
  BY QuietMouse
<1> QED BY <1>1, <1>2 DEF Quiet, b

(* A command that leaves the query, and the commands of an event that do. *)
Spares(c) == \A a : Quiet(a, dispatch(a, c))
AllSpare(q) ==
  \/ q = <<>>
  \/ \E c : q = <<c>> /\ Spares(c)
  \/ \E c, d : q = <<c, d>> /\ Spares(c) /\ Spares(d)

(* So do the commands of keys, except those that edit the query. *)
LEMMA KeysLeave ==
  ASSUME NEW x
  PROVE  /\ Spares(<<"SplitPane", x>>) /\ Spares(<<"CloseActivePane">>) /\ Spares(<<"FocusDirection", x>>)
         /\ Spares(<<"ScrollUp">>) /\ Spares(<<"ScrollDown">>) /\ Spares(<<"ExitSearchMode">>)
         /\ Spares(<<"SearchNextMatch">>) /\ Spares(<<"SearchPrevMatch">>)
         /\ Spares(<<"EnterCopyMode">>) /\ Spares(<<"ExitCopyMode">>)
         /\ Spares(<<"CopyToggleSelection">>) /\ Spares(<<"CopyYank">>)
         /\ Spares(<<"ForwardKeyToPty">>) /\ Spares(<<"ForwardPaste">>)
         /\ Spares(<<"ToggleFullscreen">>) /\ Spares(<<"NextTab">>) /\ Spares(<<"PrevTab">>)
         /\ Spares(<<"CloseTab">>) /\ Spares(<<"ToggleFloat">>)
         /\ \A command \in CopyMoves : Spares(<<command>>)
<1>1. ASSUME NEW a
      PROVE  /\ Quiet(a, dispatch(a, <<"SplitPane", x>>)) /\ Quiet(a, dispatch(a, <<"CloseActivePane">>))
             /\ Quiet(a, dispatch(a, <<"FocusDirection", x>>))
             /\ Quiet(a, dispatch(a, <<"ScrollUp">>)) /\ Quiet(a, dispatch(a, <<"ScrollDown">>))
             /\ Quiet(a, dispatch(a, <<"ExitSearchMode">>))
             /\ Quiet(a, dispatch(a, <<"SearchNextMatch">>)) /\ Quiet(a, dispatch(a, <<"SearchPrevMatch">>))
             /\ Quiet(a, dispatch(a, <<"EnterCopyMode">>)) /\ Quiet(a, dispatch(a, <<"ExitCopyMode">>))
             /\ Quiet(a, dispatch(a, <<"CopyToggleSelection">>)) /\ Quiet(a, dispatch(a, <<"CopyYank">>))
             /\ Quiet(a, dispatch(a, <<"ForwardKeyToPty">>)) /\ Quiet(a, dispatch(a, <<"ForwardPaste">>))
             /\ Quiet(a, dispatch(a, <<"ToggleFullscreen">>))
             /\ Quiet(a, dispatch(a, <<"NextTab">>)) /\ Quiet(a, dispatch(a, <<"PrevTab">>))
             /\ Quiet(a, dispatch(a, <<"CloseTab">>)) /\ Quiet(a, dispatch(a, <<"ToggleFloat">>))
  <2>1. \A y : Quiet(a, [a EXCEPT !.sent = @ \cup {y}])
    BY QuietKeys
  <2>2. \A y, z : Quiet(a, ScrollPane(a, y, z))
    BY QuietMouse
  <2>3. /\ Quiet(a, dispatch_split_pane(a, x)) /\ Quiet(a, dispatch_close_active_pane(a))
        /\ Quiet(a, FocusDirection(a, x)) /\ Quiet(a, [a EXCEPT !.input_mode = "Normal"])
        /\ Quiet(a, SearchNextMatch(a)) /\ Quiet(a, SearchPrevMatch(a))
        /\ Quiet(a, EnterCopyMode(a)) /\ Quiet(a, ExitCopyMode(a))
        /\ Quiet(a, CopyToggleSelection(a)) /\ Quiet(a, CopyYank(a)) /\ Quiet(a, ForwardKeyToPty(a))
        /\ Quiet(a, ToggleFullscreen(a)) /\ Quiet(a, a)
    BY QuietKeys
  <2>4. /\ Quiet(a, ScrollPane(a, a.active, ScrollViewportUp(Screen(a), half_page(Screen(a)))))
        /\ Quiet(a, ScrollPane(a, a.active, ScrollViewportDown(Screen(a), half_page(Screen(a)))))
        /\ Quiet(a, [a EXCEPT !.sent = @ \cup {<<"paste", a.active>>}])
    BY <2>1, <2>2
  <2> QED BY <2>3, <2>4, KeysDispatch
<1>2. ASSUME NEW command \in CopyMoves, NEW a PROVE Quiet(a, dispatch(a, <<command>>))
  <2>1. dispatch(a, <<command>>) = copy_move(a, command)
    BY MovesDispatch
  <2>2. Quiet(a, copy_move(a, command))
    BY QuietKeys
  <2> QED BY <2>1, <2>2
<1> QED BY <1>1, <1>2 DEF Spares

(* And the commands of the mouse. *)
LEMMA MouseLeaves ==
  ASSUME NEW x, NEW y
  PROVE  /\ Spares(<<"FocusPane", x>>) /\ Spares(<<"StartBorderDrag", x>>)
         /\ Spares(<<"ContinueBorderDrag", x>>) /\ Spares(<<"EndBorderDrag">>)
         /\ Spares(<<"StartMouseSelection", x, y>>) /\ Spares(<<"ExtendMouseSelection", x>>)
         /\ Spares(<<"FinalizeMouseSelection">>) /\ Spares(<<"ForwardMouseToPty", x>>)
         /\ Spares(<<"ScrollPaneUp", x>>) /\ Spares(<<"ScrollPaneDown", x>>) /\ Spares(<<"Resize", x>>)
<1>1. ASSUME NEW a
      PROVE  /\ Quiet(a, dispatch(a, <<"FocusPane", x>>)) /\ Quiet(a, dispatch(a, <<"StartBorderDrag", x>>))
             /\ Quiet(a, dispatch(a, <<"ContinueBorderDrag", x>>)) /\ Quiet(a, dispatch(a, <<"EndBorderDrag">>))
             /\ Quiet(a, dispatch(a, <<"StartMouseSelection", x, y>>))
             /\ Quiet(a, dispatch(a, <<"ExtendMouseSelection", x>>))
             /\ Quiet(a, dispatch(a, <<"FinalizeMouseSelection">>))
             /\ Quiet(a, dispatch(a, <<"ForwardMouseToPty", x>>))
             /\ Quiet(a, dispatch(a, <<"ScrollPaneUp", x>>)) /\ Quiet(a, dispatch(a, <<"ScrollPaneDown", x>>))
             /\ Quiet(a, dispatch(a, <<"Resize", x>>))
  <2>1. \A z : Quiet(a, [a EXCEPT !.sent = @ \cup {z}])
    BY QuietKeys
  <2>2. \A z : Quiet(a, ScrollPane(a, x, z)) /\ Quiet(a, [a EXCEPT !.mouse_selection = z])
    BY QuietMouse
  <2>3. /\ Quiet(a, FocusPane(a, x)) /\ Quiet(a, [a EXCEPT !.border_drag = x])
        /\ Quiet(a, ContinueBorderDrag(a, x)) /\ Quiet(a, EndBorderDrag(a))
        /\ Quiet(a, [a EXCEPT !.mouse_selection.selection = Extend(@, x)])
        /\ Quiet(a, FinalizeMouseSelection(a)) /\ Quiet(a, Resize(a, x))
    BY QuietMouse
  <2>4. /\ Quiet(a, [a EXCEPT !.mouse_selection = [pane_id |-> x, selection |-> SelectFrom(y, "Normal")]])
        /\ Quiet(a, [a EXCEPT !.sent = @ \cup {<<"mouse", x>>}])
        /\ Quiet(a, ScrollPane(a, x, ScrollViewportUp(a.screens[x], WHEEL_LINES)))
        /\ Quiet(a, ScrollPane(a, x, ScrollViewportDown(a.screens[x], WHEEL_LINES)))
    BY <2>1, <2>2
  <2>5. /\ dispatch(a, <<"FocusPane", x>>) = FocusPane(a, x)
        /\ dispatch(a, <<"StartBorderDrag", x>>) = [a EXCEPT !.border_drag = x]
        /\ dispatch(a, <<"ContinueBorderDrag", x>>) = ContinueBorderDrag(a, x)
        /\ dispatch(a, <<"EndBorderDrag">>) = EndBorderDrag(a)
        /\ dispatch(a, <<"StartMouseSelection", x, y>>)
             = [a EXCEPT !.mouse_selection = [pane_id |-> x, selection |-> SelectFrom(y, "Normal")]]
        /\ dispatch(a, <<"ExtendMouseSelection", x>>) = [a EXCEPT !.mouse_selection.selection = Extend(@, x)]
        /\ dispatch(a, <<"FinalizeMouseSelection">>) = FinalizeMouseSelection(a)
        /\ dispatch(a, <<"ForwardMouseToPty", x>>) = [a EXCEPT !.sent = @ \cup {<<"mouse", x>>}]
        /\ dispatch(a, <<"ScrollPaneUp", x>>) = ScrollPane(a, x, ScrollViewportUp(a.screens[x], WHEEL_LINES))
        /\ dispatch(a, <<"ScrollPaneDown", x>>)
             = ScrollPane(a, x, ScrollViewportDown(a.screens[x], WHEEL_LINES))
        /\ dispatch(a, <<"Resize", x>>) = Resize(a, x)
    BY DEF dispatch, CopyMoves, NoOtherTabNorFloat
  <2> QED BY <2>3, <2>4, <2>5
<1> QED BY <1>1 DEF Spares

(* The commands of the mouse. *)
LEMMA MouseAllLeave ==
  ASSUME NEW a, NEW kind, NEW button, NEW at
  PROVE  AllSpare(resolve_mouse(a, kind, button, at))
<1>1. ASSUME NEW c, Spares(c) PROVE AllSpare(<<c>>)
  BY <1>1 DEF AllSpare
<1>2. AllSpare(<<>>)
  BY DEF AllSpare
<1>3. ASSUME NEW id PROVE AllSpare(ForwardTo(a, id))
  <2>1. ForwardTo(a, id) \in {<<>>, <<<<"ForwardMouseToPty", id>>>>}
    BY DEF ForwardTo
  <2>2. Spares(<<"ForwardMouseToPty", id>>)
    BY MouseLeaves
  <2> QED BY <1>1, <1>2, <2>1, <2>2
<1>4. AllSpare(push_forward_mouse(a, at))
  BY <1>3 DEF push_forward_mouse
<1>5. ASSUME NEW id PROVE AllSpare(PressIn(a, id, at))
  <2> DEFINE focus == <<"FocusPane", id>>
             select == <<"StartMouseSelection", id, PointAt(a, id, at)>>
             mouse == <<"ForwardMouseToPty", id>>
  <2>1. Spares(focus) /\ Spares(select) /\ Spares(mouse)
    BY MouseLeaves
  <2>2. ForwardTo(a, id) \in {<<>>, <<mouse>>}
    BY DEF ForwardTo
  <2>3. PressIn(a, id, at) = IF id = None THEN <<>>
                             ELSE (IF id # a.active THEN <<focus>> ELSE <<>>)
                                  \o (IF a.screens[id].tracking THEN ForwardTo(a, id) ELSE <<select>>)
    BY DEF PressIn
  <2> HIDE DEF focus, select, mouse
  <2>4. PressIn(a, id, at) \in {<<>>, <<>> \o <<>>, <<focus>> \o <<>>, <<>> \o <<mouse>>, <<>> \o <<select>>,
                               <<focus>> \o <<mouse>>, <<focus>> \o <<select>>}
    BY <2>2, <2>3
  <2>5. /\ <<>> \o <<>> = <<>> /\ <<focus>> \o <<>> = <<focus>> /\ <<>> \o <<mouse>> = <<mouse>>
        /\ <<>> \o <<select>> = <<select>> /\ <<focus>> \o <<mouse>> = <<focus, mouse>>
        /\ <<focus>> \o <<select>> = <<focus, select>>
    BY JoinTwo
  <2>6. PressIn(a, id, at) \in {<<>>, <<focus>>, <<mouse>>, <<select>>, <<focus, mouse>>, <<focus, select>>}
    BY <2>4, <2>5
  <2> QED BY <2>1, <2>6 DEF AllSpare
<1>6. AllSpare(ResolveLeftDown(a, at))
  <2>1. ASSUME NEW drag PROVE AllSpare(PressOn(a, drag, at))
    <3>1. Spares(<<"StartBorderDrag", drag>>)
      BY MouseLeaves
    <3> QED BY <1>1, <1>5, <3>1 DEF PressOn
  <2> QED BY <2>1 DEF ResolveLeftDown
<1>7. AllSpare(ResolveUp(a, at))
  <2>1. Spares(<<"EndBorderDrag">>) /\ Spares(<<"FinalizeMouseSelection">>)
    BY MouseLeaves
  <2> QED BY <1>1, <1>4, <2>1 DEF ResolveUp
<1>8. AllSpare(ResolveLeftDrag(a, at))
  <2>1. /\ Spares(<<"ContinueBorderDrag", at>>)
        /\ Spares(<<"ExtendMouseSelection", PointAt(a, a.mouse_selection.pane_id, at)>>)
    BY MouseLeaves
  <2> QED BY <1>1, <1>2, <1>4, <2>1 DEF ResolveLeftDrag
<1>9. AllSpare(ResolveScroll(a, at, "ScrollPaneUp")) /\ AllSpare(ResolveScroll(a, at, "ScrollPaneDown"))
  <2>1. ASSUME NEW id PROVE AllSpare(ScrollIn(a, id, "ScrollPaneUp")) /\ AllSpare(ScrollIn(a, id, "ScrollPaneDown"))
    <3>1. Spares(<<"ScrollPaneUp", id>>) /\ Spares(<<"ScrollPaneDown", id>>)
      BY MouseLeaves
    <3> QED BY <1>1, <1>2, <1>3, <3>1 DEF ScrollIn
  <2> QED BY <2>1 DEF ResolveScroll
<1> QED BY <1>4, <1>6, <1>7, <1>8, <1>9 DEF resolve_mouse

(* An event of such commands. *)
LEMMA QuietAfter ==
  ASSUME NEW q, AllSpare(q)
  PROVE  Quiet(app, After(q))
<1> DEFINE f == Fresh(app)
<1>1. Quiet(app, f)
  BY QuietMouse
<1>2. ASSUME NEW a, NEW c, Spares(c) PROVE Quiet(a, Perform(a, c))
  BY <1>2, QuietPerform DEF Spares
<1>3. CASE q = <<>>
  BY <1>1, <1>3, AfterIs
<1>4. CASE \E c : q = <<c>> /\ Spares(c)
  <2>1. PICK c : q = <<c>> /\ Spares(c)
    BY <1>4
  <2>2. After(q) = Perform(f, c) /\ Quiet(f, Perform(f, c))
    BY <1>2, <2>1, AfterIs
  <2> HIDE DEF f
  <2> QED BY <1>1, <2>2 DEF Quiet
<1>5. CASE \E c, d : q = <<c, d>> /\ Spares(c) /\ Spares(d)
  <2>1. PICK c, d : q = <<c, d>> /\ Spares(c) /\ Spares(d)
    BY <1>5
  <2> DEFINE e == Perform(f, c)
  <2>2. Quiet(f, e)
    BY <1>2, <2>1
  <2>3. After(q) = Perform(e, d)
    BY <2>1, AfterIs
  <2> HIDE DEF e, f
  <2>4. Quiet(e, Perform(e, d))
    BY <1>2, <2>1
  <2> QED BY <1>1, <2>2, <2>3, <2>4 DEF Quiet
<1> QED BY <1>3, <1>4, <1>5 DEF AllSpare

-----------------------------------------------------------------------------
(* The search *)

(* The query is one of characters that can be typed. *)
QueryOK(a) == a.search_query \in Seq(SearchKeys)

(* The texts of the live rows. *)
LEMMA LiveTextsAre ==
  ASSUME NEW s, ScreenOK(s)
  PROVE  LiveTexts(s) \in Seq(Seq(STRING))
<1>1. s.lines \in Seq(LineId) /\ Rows(s) \in Nat /\ Rows(s) = Len(s.lines)
  BY ScreenHas DEF Rows
<1>2. ASSUME NEW r \in 1..Rows(s) PROVE TextOf(s.lines[r]) \in Seq(STRING)
  <2>1. s.lines[r] \in LineId
    BY <1>1
  <2>2. CASE s.lines[r] = 0
    BY <2>2 DEF TextOf
  <2>3. CASE s.lines[r] # 0
    <3>1. Text \in Seq(Seq(STRING)) /\ s.lines[r] \in 1..Len(Text)
      BY <2>1, <2>3, InputModesAssumption DEF LineId
    <3>2. Text[s.lines[r]] \in Seq(STRING)
      BY <3>1
    <3> QED BY <2>3, <3>2 DEF TextOf
  <2> QED BY <2>2, <2>3
<1> DEFINE n == Rows(s)
           G(r) == TextOf(s.lines[r])
<1>3. n \in Nat /\ \A r \in 1..n : G(r) \in Seq(STRING)
  BY <1>1, <1>2
<1>4. LiveTexts(s) = [r \in 1..n |-> G(r)]
  BY DEF LiveTexts
<1> HIDE DEF n, G
<1> QED BY <1>3, <1>4

(* run_search, from any state of the tab. *)
LEMMA SearchFinds ==
  ASSUME NEW b, DOMAIN b = AppFields, b.search_query \in Seq(SearchKeys), ScreenOK(Screen(b))
  PROVE  FindsAll(run_search(b))
<1> DEFINE c == run_search(b)
           q == b.search_query
           texts == LiveTexts(Screen(b))
           M == find_all_matches(texts, q)
           state == IF q = <<>> THEN NoSearch ELSE FreshSearch(q, M)
<1>1. /\ c.search_state = state /\ c.search_query = q
      /\ c.screens = b.screens /\ c.active = b.active
  <2>1. c = [b EXCEPT !.search_state = state]
    BY DEF run_search
  <2> HIDE DEF state, c
  <2> QED BY <2>1 DEF AppFields
<1>2. LiveTexts(Screen(c)) = texts
  <2> HIDE DEF c
  <2> QED BY <1>1 DEF Screen
<1> HIDE DEF c
<1>3. ASSUME q = <<>> PROVE FindsAll(c)
  <2>1. c.search_state.query = q /\ c.search_state.matches = <<>> /\ c.search_state.current = NoMatch
    BY <1>1, <1>3 DEF NoSearch
  <2>2. DOMAIN <<>> = {} /\ Len(<<>>) = 0 /\ NoMatch < 0
    BY DEF NoMatch
  <2>3. c.search_query = <<>> /\ c.search_state.query = <<>>
    BY <1>1, <1>3, <2>1
  <2> HIDE DEF q, state
  <2> QED BY <2>1, <2>2, <2>3 DEF FindsAll
<1>4. ASSUME q # <<>> PROVE FindsAll(c)
  <2> DEFINE N == Len(texts)
  <2>1. texts \in Seq(Seq(STRING)) /\ DOMAIN texts = 1..N
    BY LiveTextsAre
  <2>2. FoundIn(texts, q, N, M)
    <3> HIDE DEF texts, q, M, N
    <3>1. q \in Seq(SearchKeys)
      BY DEF q
    <3>2. FoundIn(texts, q, Len(texts), find_all_matches(texts, q))
      BY <1>4, <2>1, <3>1, AllMatchesAre
    <3> QED BY <3>2 DEF M, N
  <2>3. /\ c.search_state.query = q /\ c.search_state.matches = M
        /\ c.search_state.current = IF M = <<>> THEN NoMatch ELSE 0
    BY <1>1, <1>4 DEF FreshSearch
  <2> HIDE DEF M, q, texts, N
  <2>4. /\ M \in Seq(Match) /\ DOMAIN M = 1..Len(M)
        /\ \A i \in 1..Len(M) :
             /\ M[i].len = Len(q)
             /\ M[i].col \in Occurrences(texts[M[i].row + 1], q)
        /\ \A i, j \in 1..Len(M) : i < j =>
             M[i].row < M[j].row \/ (M[i].row = M[j].row /\ M[i].col + M[i].len <= M[j].col)
        /\ \A r \in 1..N : \A col \in Occurrences(texts[r], q) :
             \E i \in 1..Len(M) : M[i].row = r - 1 /\ M[i].col \in col - Len(q) + 1 .. col
    BY <2>2 DEF FoundIn
  <2>5. \A i \in 1..Len(M) : OccursAt(texts[M[i].row + 1], q, M[i].col)
    BY <2>4 DEF Occurrences
  <2>6. /\ c.search_state.current = NoMatch <=> M = <<>>
        /\ c.search_state.current < Len(M)
    BY <2>3, <2>4 DEF NoMatch
  <2>7. /\ \A i \in DOMAIN M : M[i].len = Len(q) /\ OccursAt(texts[M[i].row + 1], q, M[i].col)
        /\ \A i, j \in DOMAIN M : i < j =>
             M[i].row < M[j].row \/ (M[i].row = M[j].row /\ M[i].col + M[i].len <= M[j].col)
        /\ \A r \in DOMAIN texts : \A col \in Occurrences(texts[r], q) :
             \E i \in DOMAIN M : M[i].row = r - 1 /\ M[i].col \in col - Len(q) + 1 .. col
    BY <2>1, <2>4, <2>5
  <2>8. c.search_query = q /\ c.search_state.query = q /\ c.search_state.matches = M
    BY <1>1, <2>3 DEF q
  <2> HIDE DEF state
  <2> QED BY <1>2, <2>6, <2>7, <2>8 DEF FindsAll
<1> QED BY <1>3, <1>4 DEF c

(* What FindsAll speaks of. *)
LEMMA FindsSame ==
  ASSUME NEW a, NEW b, FindsAll(a), b.screens = a.screens, b.active = a.active,
         b.search_query = a.search_query, b.search_state = a.search_state
  PROVE  FindsAll(b)
BY DEF FindsAll, Screen

(* An edit of the query. *)
LEMMA EditFinds ==
  ASSUME NEW a, AppOK(a), QueryOK(a), NEW key \in SearchKeys
  PROVE  /\ QueryOK(SearchAppendChar(a, key)) /\ FindsAll(SearchAppendChar(a, key))
         /\ QueryOK(SearchDeleteChar(a)) /\ FindsAll(SearchDeleteChar(a))
         /\ QueryOK(EnterSearchMode(a)) /\ FindsAll(EnterSearchMode(a))
<1>1. DOMAIN a = AppFields /\ a.search_query \in Seq(SearchKeys) /\ ScreenOK(Screen(a))
  BY DEF AppOK, Tabbed, QueryOK, Screen
<1>2. ASSUME NEW q \in Seq(SearchKeys), NEW b, b = [a EXCEPT !.search_query = q]
      PROVE  /\ DOMAIN run_search(b) = AppFields /\ run_search(b).search_query = q /\ FindsAll(run_search(b))
  <2>1. DOMAIN b = AppFields /\ b.search_query = q /\ b.screens = a.screens /\ b.active = a.active
    BY <1>1, <1>2 DEF AppFields
  <2>2. ScreenOK(Screen(b))
    BY <1>1, <2>1 DEF Screen
  <2>3. DOMAIN run_search(b) = AppFields /\ run_search(b).search_query = q
    BY <2>1 DEF run_search, AppFields
  <2> QED BY <2>1, <2>2, <2>3, SearchFinds
<1>3. QueryOK(SearchAppendChar(a, key)) /\ FindsAll(SearchAppendChar(a, key))
  <2> DEFINE q == Append(a.search_query, key)
             b == [a EXCEPT !.search_query = q]
             c == run_search(b)
             d == [c EXCEPT !.search_direction_active = TRUE]
  <2>1. q \in Seq(SearchKeys)
    BY <1>1
  <2>2. SearchAppendChar(a, key) = d
    BY DEF SearchAppendChar
  <2>3. DOMAIN c = AppFields /\ c.search_query = q /\ FindsAll(c)
    BY <1>2, <2>1
  <2> HIDE DEF q, c
  <2>4. /\ d.screens = c.screens /\ d.active = c.active /\ d.search_query = q
        /\ d.search_state = c.search_state
    BY <2>3 DEF AppFields
  <2> HIDE DEF d
  <2>5. FindsAll(d)
    BY <2>3, <2>4, FindsSame
  <2> QED BY <2>1, <2>2, <2>4, <2>5 DEF QueryOK
<1>4. QueryOK(SearchDeleteChar(a)) /\ FindsAll(SearchDeleteChar(a))
  <2> DEFINE old == a.search_query
             q == IF old = <<>> THEN old ELSE Front(old)
             b == [a EXCEPT !.search_query = q]
             c == run_search(b)
  <2>1. q \in Seq(SearchKeys)
    <3>1. CASE old = <<>>
      BY <1>1, <3>1
    <3>2. CASE old # <<>>
      <4>1. Front(old) \in Seq(SearchKeys)
        <5> HIDE DEF old
        <5>1. old \in Seq(SearchKeys)
          BY <1>1 DEF old
        <5> QED BY <3>2, <5>1, HeadTailFront
      <4> QED BY <3>2, <4>1
    <3> QED BY <3>1, <3>2
  <2>2. SearchDeleteChar(a) = c
    BY DEF SearchDeleteChar
  <2> HIDE DEF q
  <2>3. c.search_query = q /\ FindsAll(c)
    BY <1>2, <2>1
  <2> HIDE DEF c
  <2> QED BY <2>1, <2>2, <2>3 DEF QueryOK
<1>5. QueryOK(EnterSearchMode(a)) /\ FindsAll(EnterSearchMode(a))
  <2> DEFINE b == EnterSearchMode(a)
  <2>1. b.search_query = <<>> /\ b.search_state = NoSearch
    BY <1>1 DEF EnterSearchMode, AppFields
  <2> HIDE DEF b
  <2>2. b.search_state.query = <<>> /\ b.search_state.matches = <<>> /\ b.search_state.current = NoMatch
    BY <2>1 DEF NoSearch
  <2>3. DOMAIN <<>> = {} /\ Len(<<>>) = 0 /\ NoMatch < 0 /\ <<>> \in Seq(SearchKeys)
    BY DEF NoMatch
  <2>4. QueryOK(b) /\ FindsAll(b)
    BY <2>1, <2>2, <2>3 DEF QueryOK, FindsAll
  <2> QED BY <2>4 DEF b
<1> QED BY <1>3, <1>4, <1>5

(* What an event leaves: a query as before, or one that was searched for. *)
Searched(b) == QueryOK(b) /\ (b.search_query # app.search_query => FindsAll(b))

(* A query left alone is one of those. *)
LEMMA QuietSearched ==
  ASSUME IInv, QueryOK(app), NEW b, Quiet(app, b)
  PROVE  Searched(b)
BY DEF IInv, AppOK, Tabbed, Quiet, QueryOK, Searched

(* An event of one command that spares the query. *)
LEMMA CommandSearched ==
  ASSUME IInv, QueryOK(app), NEW c, Spares(c)
  PROVE  Searched(After(<<c>>))
<1>1. AllSpare(<<c>>)
  BY DEF AllSpare
<1> QED BY <1>1, QuietAfter, QuietSearched

(* The three commands that edit the query. *)
LEMMA EditSearched ==
  ASSUME IInv, QueryOK(app), NEW key \in SearchKeys
  PROVE  /\ Searched(After(<<<<"SearchAppendChar", key>>>>))
         /\ Searched(After(<<<<"SearchDeleteChar">>>>))
         /\ app.input_mode = "Normal" => Searched(After(<<<<"EnterSearchMode">>>>))
<1> DEFINE f == Fresh(app)
<1>1. AppOK(f) /\ f.fit = FALSE /\ f.input_mode = app.input_mode
  BY FreshIs DEF IInv, SameModes
<1>2. QueryOK(f)
  <2>1. Quiet(app, f)
    BY QuietMouse
  <2> HIDE DEF f
  <2> QED BY <2>1 DEF Quiet, QueryOK, IInv, AppOK, Tabbed
<1> HIDE DEF f
<1>3. ASSUME NEW c, NEW b, dispatch(f, c) = b, b.fit = f.fit PROVE After(<<c>>) = b
  <2>1. After(<<c>>) = Perform(f, c)
    BY AfterIs DEF f
  <2> QED BY <1>1, <1>3, <2>1 DEF Perform, execute_side_effects
<1>4. /\ SearchAppendChar(f, key).fit = f.fit /\ SearchDeleteChar(f).fit = f.fit
      /\ app.input_mode = "Normal" => EnterSearchMode(f).fit = f.fit
  BY <1>1, SearchSteps
<1>5. /\ dispatch(f, <<"SearchAppendChar", key>>) = SearchAppendChar(f, key)
      /\ dispatch(f, <<"SearchDeleteChar">>) = SearchDeleteChar(f)
      /\ dispatch(f, <<"EnterSearchMode">>) = EnterSearchMode(f)
  BY KeysDispatch
<1>6. /\ Searched(SearchAppendChar(f, key)) /\ Searched(SearchDeleteChar(f))
      /\ Searched(EnterSearchMode(f))
  BY <1>1, <1>2, EditFinds DEF Searched
<1>7. Searched(After(<<<<"SearchAppendChar", key>>>>))
  <2>1. After(<<<<"SearchAppendChar", key>>>>) = SearchAppendChar(f, key)
    BY <1>3, <1>4, <1>5
  <2> QED BY <1>6, <2>1
<1>8. Searched(After(<<<<"SearchDeleteChar">>>>))
  <2>1. After(<<<<"SearchDeleteChar">>>>) = SearchDeleteChar(f)
    BY <1>3, <1>4, <1>5
  <2> QED BY <1>6, <2>1
<1>9. app.input_mode = "Normal" => Searched(After(<<<<"EnterSearchMode">>>>))
  <2>1. app.input_mode = "Normal" => After(<<<<"EnterSearchMode">>>>) = EnterSearchMode(f)
    BY <1>3, <1>4, <1>5
  <2> QED BY <1>6, <2>1
<1> QED BY <1>7, <1>8, <1>9

(* The keys of each mode. *)
LEMMA NormalKeySearched ==
  ASSUME IInv, QueryOK(app), app.input_mode = "Normal", NEW key
  PROVE  Searched(After(<<resolve_normal_key(key)>>))
<1>1. resolve_normal_key(key) \in
        {<<"SplitPane", "Vertical">>, <<"SplitPane", "Horizontal">>, <<"CloseActivePane">>,
         <<"FocusDirection", "Left">>, <<"FocusDirection", "Right">>, <<"ScrollUp">>, <<"ScrollDown">>,
         <<"EnterCopyMode">>, <<"ForwardKeyToPty">>, <<"EnterSearchMode">>, <<"ToggleFullscreen">>,
         <<"NextTab">>, <<"PrevTab">>, <<"CloseTab">>, <<"ToggleFloat">>}
  <2>1. CASE key \notin DOMAIN Binding
    BY <2>1 DEF resolve_normal_key
  <2>2. CASE key \in DOMAIN Binding
    <3>1. resolve_normal_key(key) = Binding[key]
      BY <2>2 DEF resolve_normal_key
    <3>2. Binding[key] \in
            {<<"SplitPane", "Vertical">>, <<"SplitPane", "Horizontal">>, <<"CloseActivePane">>,
             <<"FocusDirection", "Left">>, <<"FocusDirection", "Right">>, <<"ScrollUp">>, <<"ScrollDown">>,
             <<"EnterCopyMode">>, <<"EnterSearchMode">>, <<"ToggleFullscreen">>,
             <<"NextTab">>, <<"PrevTab">>, <<"CloseTab">>, <<"ToggleFloat">>}
      BY <2>2 DEF Binding
    <3> QED BY <3>1, <3>2
  <2> QED BY <2>1, <2>2
<1>2. /\ Spares(<<"SplitPane", "Vertical">>) /\ Spares(<<"SplitPane", "Horizontal">>)
      /\ Spares(<<"FocusDirection", "Left">>) /\ Spares(<<"FocusDirection", "Right">>)
      /\ Spares(<<"CloseActivePane">>) /\ Spares(<<"ScrollUp">>) /\ Spares(<<"ScrollDown">>)
      /\ Spares(<<"EnterCopyMode">>) /\ Spares(<<"ForwardKeyToPty">>)
      /\ Spares(<<"ToggleFullscreen">>) /\ Spares(<<"NextTab">>) /\ Spares(<<"PrevTab">>)
      /\ Spares(<<"CloseTab">>) /\ Spares(<<"ToggleFloat">>)
  BY KeysLeave
<1>3. resolve_normal_key(key) = <<"EnterSearchMode">> \/ Spares(resolve_normal_key(key))
  BY <1>1, <1>2
<1>4. Searched(After(<<<<"EnterSearchMode">>>>))
  <2>1. "a" \in SearchKeys
    BY DEF SearchKeys
  <2> QED BY <2>1, EditSearched
<1> QED BY <1>3, <1>4, CommandSearched

(* A key while searching. *)
LEMMA SearchKeySearched ==
  ASSUME IInv, QueryOK(app), NEW key \in SearchKeys
  PROVE  Searched(After(<<resolve_search_key(app, key)>>))
<1>1. resolve_search_key(app, key) \in
        {<<"ExitSearchMode">>, <<"SearchDeleteChar">>, <<"SearchNextMatch">>, <<"SearchPrevMatch">>,
         <<"SearchAppendChar", key>>}
  BY DEF resolve_search_key
<1>2. Spares(<<"ExitSearchMode">>) /\ Spares(<<"SearchNextMatch">>) /\ Spares(<<"SearchPrevMatch">>)
  BY KeysLeave
<1>3. /\ Searched(After(<<<<"ExitSearchMode">>>>)) /\ Searched(After(<<<<"SearchNextMatch">>>>))
      /\ Searched(After(<<<<"SearchPrevMatch">>>>))
  BY <1>2, CommandSearched
<1>4. /\ Searched(After(<<<<"SearchAppendChar", key>>>>))
      /\ Searched(After(<<<<"SearchDeleteChar">>>>))
  BY EditSearched
<1> QED BY <1>1, <1>3, <1>4

(* A key in copy mode. *)
LEMMA CopyKeySearched ==
  ASSUME IInv, QueryOK(app), NEW key
  PROVE  Searched(After(<<resolve_copy_key(key)>>))
<1>1. /\ Spares(<<"ExitCopyMode">>) /\ Spares(<<"CopyYank">>) /\ Spares(<<"CopyToggleSelection">>)
      /\ \A command \in CopyMoves : Spares(<<command>>)
  BY KeysLeave
<1>2. CASE key \notin DOMAIN CopyKey
  BY <1>1, <1>2, CommandSearched DEF resolve_copy_key
<1>3. CASE key \in DOMAIN CopyKey
  <2>1. CopyKey[key] \in CopyMoves \cup {"CopyYank", "CopyToggleSelection"}
    BY <1>3 DEF CopyKey, CopyMoves
  <2>2. resolve_copy_key(key) = <<CopyKey[key]>>
    BY <1>3 DEF resolve_copy_key
  <2> QED BY <1>1, <2>1, <2>2, CommandSearched
<1> QED BY <1>2, <1>3

(* A key in any mode. *)
LEMMA KeySearched ==
  ASSUME IInv, QueryOK(app), NEW key \in KeysIn(app.input_mode), KeyPress(key)
  PROVE  Searched(app')
<1>1. app' = After(<<resolve_keybinding(app, key)>>) /\ app.input_mode \in {"Normal", "Search", "Copy"}
  BY DEF KeyPress, IInv, AppOK, Moded
<1>2. CASE app.input_mode = "Normal"
  <2>1. resolve_keybinding(app, key) = resolve_normal_key(key)
    BY <1>2 DEF resolve_keybinding
  <2> QED BY <1>1, <1>2, <2>1, NormalKeySearched
<1>3. CASE app.input_mode = "Search"
  <2>1. resolve_keybinding(app, key) = resolve_search_key(app, key)
    BY <1>3 DEF resolve_keybinding
  <2>2. key \in SearchKeys
    BY <1>3 DEF KeysIn
  <2> QED BY <1>1, <2>1, <2>2, SearchKeySearched
<1>4. CASE app.input_mode = "Copy"
  <2>1. resolve_keybinding(app, key) = resolve_copy_key(key)
    BY <1>4 DEF resolve_keybinding
  <2> QED BY <1>1, <2>1, CopyKeySearched
<1> QED BY <1>1, <1>2, <1>3, <1>4

(* The programs in the panes edit no query. *)
LEMMA ProgramSearched ==
  ASSUME IInv, QueryOK(app), NEW id, Output(id) \/ TrackMouse(id) \/ PaneDies(id)
  PROVE  Searched(app')
<1> DEFINE f == Fresh(app)
<1>1. Quiet(app, f)
  BY QuietMouse
<1> HIDE DEF f
<1>2. ASSUME NEW s, NEW b, b = [f EXCEPT !.screens = s] PROVE Quiet(f, b)
  BY <1>2 DEF Quiet, AppFields
<1>3. \/ \E s : app' = [f EXCEPT !.screens = s]
      \/ app' = ClosePane(f, id)
  BY DEF Output, TrackMouse, PaneDies, f
<1>4. Quiet(f, ClosePane(f, id))
  BY QuietKeys
<1>5. Quiet(f, app')
  BY <1>2, <1>3, <1>4
<1>6. Quiet(app, app')
  BY <1>1, <1>5 DEF Quiet
<1> QED BY <1>6, QuietSearched

(* Every step. *)
LEMMA NextSearched ==
  ASSUME IInv, QueryOK(app), [Next]_vars
  PROVE  Searched(app')
<1>1. ASSUME NEW q, AllSpare(q), app' = After(q) PROVE Searched(app')
  BY <1>1, QuietAfter, QuietSearched
<1>2. ASSUME NEW c, Spares(c), app' = After(<<c>>) PROVE Searched(app')
  BY <1>2, CommandSearched
<1>3. CASE \E key \in KeysIn(app.input_mode) : KeyPress(key)
  BY <1>3, KeySearched
<1>4. CASE Paste
  <2>1. Spares(<<"ForwardPaste">>)
    BY KeysLeave
  <2> QED BY <1>2, <1>4, <2>1 DEF Paste
<1>5. CASE \E button \in user.buttons, at \in user.points :
             \/ MousePress(button, at)
             \/ MouseRelease(button, at)
             \/ MouseDrag(button, at)
  <2>1. \E q : AllSpare(q) /\ app' = After(q)
    BY <1>5, MouseAllLeave DEF MousePress, MouseRelease, MouseDrag
  <2> QED BY <1>1, <2>1
<1>6. CASE \E kind \in {"ScrollUp", "ScrollDown"}, at \in user.points : MouseWheel(kind, at)
  <2>1. \E q : AllSpare(q) /\ app' = After(q)
    BY <1>6, MouseAllLeave DEF MouseWheel
  <2> QED BY <1>1, <2>1
<1>7. CASE \E size \in user.sizes : TerminalResize(size)
  <2>1. PICK size : app' = After(<<<<"Resize", size>>>>)
    BY <1>7 DEF TerminalResize
  <2>2. Spares(<<"Resize", size>>)
    BY MouseLeaves
  <2> QED BY <1>2, <2>1, <2>2
<1>8. CASE \E id \in PaneId : Output(id) \/ TrackMouse(id) \/ PaneDies(id)
  BY <1>8, ProgramSearched
<1>9. CASE UNCHANGED vars
  BY <1>9 DEF vars, Searched, QueryOK
<1> QED BY <1>3, <1>4, <1>5, <1>6, <1>7, <1>8, <1>9 DEF Next

(* After every edit of the query the matches are occurrences of it in the   *)
(* live rows of the active pane, whatever part of its history is in view,   *)
(* in order and apart from each other, every occurrence in a live row is at *)
(* least partly inside one, and the current match is one of them            *)
(* (command.rs:370-395, 608-610, search.rs:find_all_matches).               *)
THEOREM InputModesSearchFindsAll == Spec => SearchFindsAll
<1>1. Init => QueryOK(app)
  BY DEF Init, QueryOK
<1>2. IInv /\ QueryOK(app) /\ [Next]_vars => QueryOK(app)'
  BY NextSearched DEF Searched, QueryOK
<1>3. IInv /\ QueryOK(app) /\ [Next]_vars =>
        [app'.input_mode = "Search" /\ app'.search_query # app.search_query => FindsAll(app')]_vars
  BY NextSearched DEF Searched
<1> QED BY <1>1, <1>2, <1>3, InputModesInvariant, PTL DEF Spec, SearchFindsAll
=============================================================================
