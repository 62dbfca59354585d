------------------------------- MODULE Layout -------------------------------
(***************************************************************************)
(* The layout engine of a tab (crates/emux-mux/src/layout.rs): a binary    *)
(* tree whose leaves are panes and whose inner nodes divide a rectangle,   *)
(* with the operations of tab.rs that read its geometry.                   *)
(*                                                                         *)
(* A node is named by the way to it from the root, a sequence of 1 (the    *)
(* first child) and 2 (the second).  A tree is what its nodes hold: leaf   *)
(* gives the leaves their panes, split the inner nodes their direction and *)
(* ratio.  What the code does on the way down to a pane is done here at    *)
(* the pane's path.  Ratios, f32 in the code, are whole multiples of       *)
(* 1/RatioUnit.                                                            *)
(***************************************************************************)
EXTENDS Integers, FiniteSets, PaneOrder

CONSTANTS
  Ids,       \* the pane ids that may come and go
  Sentinel,  \* u32::MAX in the code
  Sizes,     \* the <<cols, rows>> the terminal may have
  Amounts,   \* by how many cells one resize_pane call moves a border
  Templates  \* swap layouts; their leaf ids may be ids of panes

VARIABLES
  root,  \* LayoutEngine.root
  size   \* Tab.size

vars == <<root, size>>

RatioUnit == 100
MinRatio == 10
MaxRatio == 90
MIN_PANE == 2

Direction == {"Vertical", "Horizontal"}
FocusDirection == {"Up", "Down", "Left", "Right"}

-----------------------------------------------------------------------------
(* The tree *)

Child(p, side) == Append(p, side)
Sibling(p) == Append(Front(p), 3 - Last(p))

Nodes(t) == DOMAIN t.leaf \cup DOMAIN t.split
Leaves(t) == {t.leaf[p] : p \in DOMAIN t.leaf}
IsLeaf(t) == <<>> \in DOMAIN t.leaf

(* Every split has two children, every other node is one of them, and no    *)
(* pane has two leaves.                                                     *)
IsTree(t) ==
  /\ DOMAIN t = {"leaf", "split"}
  /\ Nodes(t) \subseteq Seq({1, 2}) /\ IsFiniteSet(Nodes(t))
  /\ DOMAIN t.leaf \cap DOMAIN t.split = {}
  /\ <<>> \in Nodes(t)
  /\ \A p \in DOMAIN t.split :
       /\ {Child(p, 1), Child(p, 2)} \subseteq Nodes(t)
       /\ t.split[p] \in [direction : Direction, ratio : Int]
  /\ \A p \in Nodes(t) : p # <<>> => Front(p) \in DOMAIN t.split
  /\ \A p, q \in DOMAIN t.leaf : t.leaf[p] = t.leaf[q] => p = q

ASSUME LayoutAssumption ==
  /\ Sentinel \notin Ids
  /\ Sizes # {} /\ Sizes \subseteq (Nat \X Nat)
  /\ Amounts \subseteq Int
  /\ \A template \in Templates : IsTree(template)

Leaf(id) == [leaf |-> [p \in {<<>>} |-> id], split |-> [p \in {} |-> id]]

(* p is left of q, or above it: it goes first where their ways part. *)
Before(p, q) ==
  \E i \in DOMAIN p \cap DOMAIN q : p[i] < q[i] /\ SubSeq(p, 1, i - 1) = SubSeq(q, 1, i - 1)

(* The leaves in the order of a walk through the tree. *)
leaf_paths(t) ==
  LET S == DOMAIN t.leaf
  IN  [i \in 1..Cardinality(S) |->
         CHOOSE p \in S : Cardinality({q \in S : Before(q, p)}) = i - 1]

PanesAt(t, s) == [i \in DOMAIN s |-> t.leaf[s[i]]]
pane_ids(t) == PanesAt(t, leaf_paths(t))

(* The first leaf that holds id. *)
PathOf(t, id) ==
  CHOOSE p \in DOMAIN t.leaf :
    /\ t.leaf[p] = id
    /\ \A q \in DOMAIN t.leaf : t.leaf[q] = id => q = p \/ Before(p, q)

(* LayoutNode::split: the leaf becomes a half-and-half split. *)
SplitAt(t, p, id, direction) ==
  [leaf  |-> [q \in (DOMAIN t.leaf \ {p}) \cup {Child(p, 1), Child(p, 2)} |->
                CASE q = Child(p, 1) -> t.leaf[p]
                  [] q = Child(p, 2) -> id
                  [] OTHER -> t.leaf[q]],
   split |-> [q \in DOMAIN t.split \cup {p} |->
                IF q = p THEN [direction |-> direction, ratio |-> 50] ELSE t.split[q]]]

SplitLeaf(t, target, id, direction) ==
  IF target \in Leaves(t) THEN SplitAt(t, PathOf(t, target), id, direction) ELSE t

(* The leaf p goes and the subtree of its sibling moves up to their parent: *)
(* the paths into it lose the step at the depth of p.                       *)
Lifted(f, p) ==
  [q \in {q \in DOMAIN f : ~IsPrefix(Front(p), q)}
           \cup {RemoveAt(q, Len(p)) : q \in {q \in DOMAIN f : IsPrefix(Sibling(p), q)}} |->
     IF IsPrefix(Front(p), q) THEN f[InsertAt(q, Len(p), Last(Sibling(p)))] ELSE f[q]]

Collapsed(t, p) == [leaf |-> Lifted(t.leaf, p), split |-> Lifted(t.split, p)]

(* LayoutNode::remove: what takes the root's own place is only reported,    *)
(* the tree stays as it is.                                                 *)
RemoveLeaf(t, target) ==
  IF target \in Leaves(t) /\ Len(PathOf(t, target)) > 1
    THEN Collapsed(t, PathOf(t, target)) ELSE t

(* Mutant: the root's own replacement is dropped. *)
RemovePane_drops_root(t, target) == RemoveLeaf(t, target)

(* LayoutEngine::remove_pane of a pane that is not the only one. *)
RemovePane(t, target) == Collapsed(t, PathOf(t, target))

(* LayoutNode::replace_leaf: the first leaf named old is renamed. *)
replace_leaf(t, old, new) ==
  IF old \in Leaves(t) THEN [t EXCEPT !.leaf[PathOf(t, old)] = new] ELSE t

(* swap_leaves goes through a sentinel; a missing leaf undoes the start. *)
swap_leaves(t, a, b) ==
  LET t1 == replace_leaf(t, a, Sentinel)
      t2 == replace_leaf(t1, b, a)
  IN  IF b \in Leaves(t1) THEN replace_leaf(t2, Sentinel, b)
                          ELSE replace_leaf(t1, Sentinel, a)

Clamp(r) == IF r < MinRatio THEN MinRatio ELSE IF r > MaxRatio THEN MaxRatio ELSE r

(* Mutant: growing the second child raises the ratio too. *)
NewRatio_same_sign(ratio, side, delta) == Clamp(ratio + delta)

(* Growing the pane raises the ratio of a split that has it first, lowers   *)
(* that of one that has it second.                                          *)
NewRatio(ratio, side, delta) == IF side = 1 THEN Clamp(ratio + delta) ELSE Clamp(ratio - delta)

(* The splits on the way to p that divide along the axis. *)
SplitsAbove(t, p, axis) ==
  {q \in DOMAIN t.split : IsStrictPrefix(q, p) /\ t.split[q].direction = axis}

(* LayoutNode::adjust_ratio changes the first of them on the way down. *)
adjust_ratio(t, target, axis, delta) ==
  LET p == PathOf(t, target)
      above == SplitsAbove(t, p, axis)
      q == CHOOSE q \in above : \A r \in above : Len(q) <= Len(r)
  IN  IF target \notin Leaves(t) THEN t
      ELSE IF above = {} THEN t
      ELSE [t EXCEPT !.split[q].ratio = NewRatio(@, p[Len(q) + 1], delta)]

-----------------------------------------------------------------------------
(* Swap layouts *)

(* The template with its leaves renamed one by one to the tab's panes. *)
Renamed(t, from, to) ==
  LET n == IF Len(from) <= Len(to) THEN Len(from) ELSE Len(to)
      renamed[i \in 0..n] ==
        IF i = 0 THEN t ELSE replace_leaf(renamed[i - 1], from[i], to[i])
  IN  renamed[n]

(* Mutant: the extra panes are all split off the template's first leaf. *)
Extended_at_first(t, ids, n) ==
  LET extended[i \in n..Len(ids)] ==
        IF i = n THEN t ELSE SplitLeaf(extended[i - 1], ids[1], ids[i], "Vertical")
  IN  extended[Len(ids)]

(* The panes beyond the template's n leaves, each split off the one before. *)
Extended(t, ids, n) ==
  LET extended[i \in n..Len(ids)] ==
        IF i = n THEN t ELSE SplitLeaf(extended[i - 1], ids[i - 1], ids[i], "Vertical")
  IN  extended[Len(ids)]

(* The template's leaves beyond the n panes, removed with LayoutNode::remove. *)
Pruned(t, from, n) ==
  LET pruned[i \in n..Len(from)] == IF i = n THEN t ELSE RemoveLeaf(pruned[i - 1], from[i])
  IN  pruned[Len(from)]

(* LayoutEngine::apply_template. *)
apply_template(template, ids) ==
  LET from == pane_ids(template)
      t == Renamed(template, from, ids)
  IN  IF Len(ids) > Len(from) THEN Extended(t, ids, Len(from))
                              ELSE Pruned(t, from, Len(ids))

(* A new root over two trees. *)
Beneath(f, g) ==
  [p \in {<<1>> \o q : q \in DOMAIN f} \cup {<<2>> \o q : q \in DOMAIN g} |->
     IF Head(p) = 1 THEN f[Tail(p)] ELSE g[Tail(p)]]
Split(direction, ratio, first, second) ==
  LET below == Beneath(first.split, second.split)
  IN  [leaf  |-> Beneath(first.leaf, second.leaf),
       split |-> [p \in {<<>>} \cup DOMAIN below |->
                    IF p = <<>> THEN [direction |-> direction, ratio |-> ratio] ELSE below[p]]]

(* swap_config.rs build_layout_node: a chain of splits, the newest leaf     *)
(* second.  Leaf ids start at 100 in the code, those of `base` here.        *)
Chain(base, n, direction) ==
  LET chain[i \in 1..n] ==
        IF i = 1 THEN Leaf(base[1])
        ELSE Split(direction, ((i - 1) * RatioUnit) \div i, chain[i - 1], Leaf(base[i]))
  IN  chain[n]

build_layout_node(base, pane_count, direction, ratio) ==
  IF pane_count = 2 THEN Split(direction, ratio, Leaf(base[1]), Leaf(base[2]))
                    ELSE Chain(base, pane_count, direction)

-----------------------------------------------------------------------------
(* Geometry *)

(* Mutant: nothing stops the first child from taking every cell. *)
FirstCells_unbounded(n, ratio) ==
  LET rounded == (2 * n * ratio + RatioUnit) \div (2 * RatioUnit)
  IN  IF rounded < 1 THEN 1 ELSE rounded

(* How many of n cells the first child gets: the ratio rounded half up, at  *)
(* least one cell and at most all but one.                                  *)
FirstCells(n, ratio) ==
  LET rounded == (2 * n * ratio + RatioUnit) \div (2 * RatioUnit)
      atLeast == IF rounded < 1 THEN 1 ELSE rounded
      most    == IF n = 0 THEN 0 ELSE n - 1
  IN  IF atLeast > most THEN most ELSE atLeast

(* The part of a split's area that goes to one of its children. *)
ChildArea(area, split, side) ==
  LET h == FirstCells(area.rows, split.ratio)
      w == FirstCells(area.cols, split.ratio)
  IN  CASE split.direction = "Horizontal" /\ side = 1 -> [area EXCEPT !.rows = h]
        [] split.direction = "Horizontal" /\ side = 2 -> [area EXCEPT !.row = @ + h, !.rows = @ - h]
        [] split.direction = "Vertical" /\ side = 1 -> [area EXCEPT !.cols = w]
        [] split.direction = "Vertical" /\ side = 2 -> [area EXCEPT !.col = @ + w, !.cols = @ - w]

(* LayoutNode::compute_positions_inner: the area is divided on the way down. *)
AreaOf(t, p, sz) ==
  LET area[i \in 0..Len(p)] ==
        IF i = 0 THEN [col |-> 0, row |-> 0, cols |-> sz[1], rows |-> sz[2]]
        ELSE ChildArea(area[i - 1], t.split[SubSeq(p, 1, i - 1)], p[i])
  IN  area[Len(p)]

(* A pane and its area. *)
PanePosition(id, area) ==
  [id |-> id, col |-> area.col, row |-> area.row, cols |-> area.cols, rows |-> area.rows]

(* Where the pane at leaf p is. *)
Placed(t, sz, p) == PanePosition(t.leaf[p], AreaOf(t, p, sz))

(* The place of every leaf, in leaf order. *)
compute_positions(t, sz) ==
  LET s == leaf_paths(t) IN [i \in DOMAIN s |-> Placed(t, sz, s[i])]

PositionOf(t, sz, id) == Placed(t, sz, PathOf(t, id))

(* Tab::can_split of a pane without fixed dimensions. *)
can_split(t, sz, id, direction) ==
  LET p == PositionOf(t, sz, id)
  IN  IF direction = "Vertical" THEN p.cols >= 2 * MIN_PANE ELSE p.rows >= 2 * MIN_PANE

ranges_overlap(a_start, a_end, b_start, b_end) == a_start < b_end /\ b_start < a_end

ColsOverlap(p, q) == ranges_overlap(p.col, p.col + p.cols, q.col, q.col + q.cols)
RowsOverlap(p, q) == ranges_overlap(p.row, p.row + p.rows, q.row, q.row + q.rows)

(* Mutant: a pane that begins right where the active one ends is missed. *)
LiesTowards_strict(p, a, direction) ==
  CASE direction = "Up"    -> p.row + p.rows < a.row /\ ColsOverlap(p, a)
    [] direction = "Down"  -> p.row > a.row + a.rows /\ ColsOverlap(p, a)
    [] direction = "Left"  -> p.col + p.cols < a.col /\ RowsOverlap(p, a)
    [] direction = "Right" -> p.col > a.col + a.cols /\ RowsOverlap(p, a)

LiesTowards(p, a, direction) ==
  CASE direction = "Up"    -> p.row + p.rows <= a.row /\ ColsOverlap(p, a)
    [] direction = "Down"  -> p.row >= a.row + a.rows /\ ColsOverlap(p, a)
    [] direction = "Left"  -> p.col + p.cols <= a.col /\ RowsOverlap(p, a)
    [] direction = "Right" -> p.col >= a.col + a.cols /\ RowsOverlap(p, a)

AbsDiff(m, n) == IF m >= n THEN m - n ELSE n - m

(* The distance of two centres, doubled. *)
Distance(p, q) == AbsDiff(2 * p.col + p.cols, 2 * q.col + q.cols)
                    + AbsDiff(2 * p.row + p.rows, 2 * q.row + q.rows)

(* Tab::find_neighbor_in_direction: the nearest candidate, the first in     *)
(* leaf order among equals; the set is empty at the edge.                   *)
find_neighbor_in_direction(t, sz, active, direction) ==
  LET ps == compute_positions(t, sz)
      a == PositionOf(t, sz, active)
      C == {i \in DOMAIN ps : ps[i].id # active /\ LiesTowards(ps[i], a, direction)}
  IN  {ps[i].id : i \in {k \in C : \A m \in C :
          \/ Distance(ps[k], a) < Distance(ps[m], a)
          \/ Distance(ps[k], a) = Distance(ps[m], a) /\ k <= m}}

-----------------------------------------------------------------------------
(* The engine as the tab drives it *)

Init ==
  /\ \E id \in Ids : root = Leaf(id)
  /\ size \in Sizes

split(target, id, direction) ==
  /\ target \in Leaves(root)
  /\ id \notin Leaves(root)
  /\ can_split(root, size, target, direction)
  /\ root' = SplitLeaf(root, target, id, direction)
  /\ UNCHANGED size

(* embed_floating_pane: a vertical split of the last leaf, whatever its     *)
(* size.                                                                    *)
add_pane(id) ==
  /\ id \notin Leaves(root)
  /\ root' = SplitLeaf(root, Last(pane_ids(root)), id, "Vertical")
  /\ UNCHANGED size

remove_pane(id) ==
  /\ id \in Leaves(root)
  /\ ~IsLeaf(root)
  /\ root' = RemovePane(root, id)
  /\ UNCHANGED size

(* move_active_pane: the pane trades places with its neighbour. *)
swap_with_neighbor(id, direction) ==
  /\ id \in Leaves(root)
  /\ \E n \in find_neighbor_in_direction(root, size, id, direction) :
       root' = swap_leaves(root, id, n)
  /\ UNCHANGED size

(* Tab::resize_pane: the cells as a share of the tab. *)
RatioDelta(amount, total) == (amount * RatioUnit) \div total

resize_pane(id, axis, amount) ==
  LET total == IF axis = "Vertical" THEN size[1] ELSE size[2] IN
  /\ id \in Leaves(root)
  /\ total > 0
  /\ root' = adjust_ratio(root, id, axis, RatioDelta(amount, total))
  /\ UNCHANGED size

(* The terminal is resized. *)
resize(sz) ==
  /\ size' = sz
  /\ UNCHANGED root

(* apply_swap_layout_at, for a layout that applies: min_panes is the number *)
(* of the template's leaves unless the configuration says less.             *)
apply_swap_layout(template) ==
  /\ Len(pane_ids(template)) <= Len(pane_ids(root))
  /\ root' = apply_template(template, pane_ids(root))
  /\ UNCHANGED size

Next ==
  \/ \E target, id \in Ids, direction \in Direction : split(target, id, direction)
  \/ \E id \in Ids : add_pane(id) \/ remove_pane(id)
  \/ \E id \in Ids, direction \in FocusDirection : swap_with_neighbor(id, direction)
  \/ \E id \in Ids, axis \in Direction, amount \in Amounts : resize_pane(id, axis, amount)
  \/ \E template \in Templates : apply_swap_layout(template)
  \/ \E sz \in Sizes : resize(sz)

Spec == Init /\ [][Next]_vars

-----------------------------------------------------------------------------
Positions == compute_positions(root, size)

Covers(p, col, row) ==
  col \in p.col .. p.col + p.cols - 1 /\ row \in p.row .. p.row + p.rows - 1

(* However often the area was divided, resized and shrunk, every cell of    *)
(* the terminal belongs to a pane, no pane reaches over the edge and no two *)
(* overlap (layout.rs:111).                                                 *)
PanesTileTheTerminal ==
  LET ps == Positions IN
  /\ \A col \in 0 .. size[1] - 1, row \in 0 .. size[2] - 1 :
       \E i \in DOMAIN ps : Covers(ps[i], col, row)
  /\ \A i \in DOMAIN ps :
       /\ ps[i].cols >= 0 /\ ps[i].col + ps[i].cols <= size[1]
       /\ ps[i].rows >= 0 /\ ps[i].row + ps[i].rows <= size[2]
  /\ \A i, j \in DOMAIN ps :
       i # j => ~(ColsOverlap(ps[i], ps[j]) /\ RowsOverlap(ps[i], ps[j]))

(* Every tree operation does to the list of leaves what module Tab says it  *)
(* does: a split inserts right after its target, a removal closes the gap,  *)
(* a swap exchanges two entries, wherever in the tree the leaves are.       *)
OperationsActOnLeafOrder ==
  LET ids == pane_ids(root) IN
  /\ \A target \in Leaves(root), id \in Ids \ Leaves(root), direction \in Direction :
       pane_ids(SplitLeaf(root, target, id, direction)) = InsertAfter(ids, target, id)
  /\ ~IsLeaf(root) =>
       \A id \in Leaves(root) : pane_ids(RemovePane(root, id)) = Without(ids, id)
  /\ \A a, b \in Leaves(root) :
       a # b => pane_ids(swap_leaves(root, a, b)) = Swapped(ids, a, b)

(* adjust_ratio keeps the ratios it changes there; a template may not be.   *)
RatiosClamped == \A p \in DOMAIN root.split : root.split[p].ratio \in MinRatio .. MaxRatio

(* `The pane grows in the specified direction` (tab.rs:483): asking for     *)
(* more cells never costs the pane any, in any nesting, unless a swap       *)
(* layout brought a ratio that the limits cut down.                         *)
GrowNeverShrinks ==
  RatiosClamped =>
  \A id \in Leaves(root), amount \in {a \in Amounts : a > 0} :
    LET p == PositionOf(root, size, id)
        After(axis, total) ==
          PositionOf(adjust_ratio(root, id, axis, RatioDelta(amount, total)), size, id)
    IN  /\ size[1] > 0 => After("Vertical", size[1]).cols >= p.cols
        /\ size[2] > 0 => After("Horizontal", size[2]).rows >= p.rows

(* The pane touches that edge of the terminal. *)
AtEdge(p, direction) ==
  CASE direction = "Up"    -> p.row = 0
    [] direction = "Down"  -> p.row + p.rows = size[2]
    [] direction = "Left"  -> p.col = 0
    [] direction = "Right" -> p.col + p.cols = size[1]

(* `Returns true if focus moved, false if at edge` (tab.rs:450): while      *)
(* every pane shows a cell, a directional move fails exactly for the panes  *)
(* along that edge of the terminal.                                         *)
MovesFailOnlyAtEdge ==
  (\A i \in DOMAIN Positions : Positions[i].cols >= 1 /\ Positions[i].rows >= 1) =>
    \A id \in Leaves(root), direction \in FocusDirection :
      find_neighbor_in_direction(root, size, id, direction) = {}
        <=> AtEdge(PositionOf(root, size, id), direction)

(* A template with at most as many leaves as there are panes arranges       *)
(* exactly those panes, each once, and in order unless a leaf of the        *)
(* template has the id of a pane (layout.rs:384).                           *)
TemplateArrangesPanes ==
  \A template \in Templates :
    Len(pane_ids(root)) >= Len(pane_ids(template)) =>
      LET arranged == apply_template(template, pane_ids(root)) IN
      /\ IsTree(arranged)
      /\ Leaves(arranged) = Leaves(root)
      /\ Leaves(template) \cap Leaves(root) = {} => pane_ids(arranged) = pane_ids(root)
=============================================================================
