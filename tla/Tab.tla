-------------------------------- MODULE Tab --------------------------------
(***************************************************************************)
(* One tab of a session (crates/emux-mux/src/tab.rs): the tiled panes and  *)
(* their layout, the floating panes, the focus and the fullscreen pane.    *)
(*                                                                         *)
(* The layout tree is seen through LayoutEngine::pane_ids, the list of its *)
(* leaves; module Layout has the tree itself and shows that each tree      *)
(* operation acts on that list as it does here.  What the geometry decides *)
(* (whether a split fits, which neighbour lies in a direction, which pane  *)
(* is the largest) is any choice among the panes the code could pick.      *)
(* Tabs here have no registered swap layout: auto_swap_layout then only    *)
(* stores None in current_swap_index, which already is None.               *)
(***************************************************************************)
EXTENDS PaneOrder

CONSTANTS
  MaxPaneId,  \* bound: ids 0 .. MaxPaneId - 1 are ever handed out
  NoPane      \* Option::None where the code has Option<PaneId>

ASSUME MaxPaneIdAssumption == MaxPaneId \in Nat \ {0}
ASSUME NoPaneAssumption == NoPane \notin Nat

VARIABLES
  order,          \* layout.pane_ids(): the tiled panes, left to right
  panes,          \* keys of the panes map
  floating,       \* ids of floating_panes in z-order, topmost last
  show_floating,
  active_pane,
  fullscreen_pane,
  next_pane_id

vars == <<order, panes, floating, show_floating, active_pane,
          fullscreen_pane, next_pane_id>>

PaneId == 0 .. MaxPaneId - 1

-----------------------------------------------------------------------------
(* The panes of the tab, tiled or floating. *)
Live == panes \cup ToSet(floating)

(* Tab::new: pane 0 tiled and focused. *)
Init ==
  /\ order = <<0>>
  /\ panes = {0}
  /\ floating = <<>>
  /\ show_floating = TRUE
  /\ active_pane = 0
  /\ fullscreen_pane = NoPane
  /\ next_pane_id = 1

(* The id handed to a pane being created. *)
AllocateId ==
  /\ next_pane_id < MaxPaneId
  /\ next_pane_id' = next_pane_id + 1

-----------------------------------------------------------------------------
(* Splitting, closing *)

(* The successful end of split_pane with `target` the active pane. *)
SplitAt(target) ==
  /\ target \in ToSet(order)
  /\ AllocateId
  /\ order' = InsertAfter(order, target, next_pane_id)
  /\ panes' = panes \cup {next_pane_id}
  /\ active_pane' = next_pane_id
  /\ fullscreen_pane' = NoPane
  /\ UNCHANGED <<floating, show_floating>>

split_pane == SplitAt(active_pane)

(* split_largest_pane focuses the largest tiled pane and splits that one. *)
split_largest_pane == \E target \in ToSet(order) : SplitAt(target)

(* can_split says no: a fixed size, too few cells, or a floating pane has   *)
(* the focus.  The fullscreen mode is left nevertheless; split_largest_pane *)
(* puts the focus back.                                                     *)
split_refused ==
  /\ fullscreen_pane' = NoPane
  /\ UNCHANGED <<order, panes, floating, show_floating, active_pane,
                 next_pane_id>>

(* Mutant: closing the newest pane gives its id back. *)
close_pane_recycles(id) ==
  /\ id \in panes
  /\ panes # {id}
  /\ order' = Without(order, id)
  /\ panes' = panes \ {id}
  /\ fullscreen_pane' = IF fullscreen_pane = id THEN NoPane ELSE fullscreen_pane
  /\ active_pane' = IF active_pane = id THEN order'[1] ELSE active_pane
  /\ next_pane_id' = IF next_pane_id = id + 1 THEN id ELSE next_pane_id
  /\ UNCHANGED <<floating, show_floating>>

(* close_pane: a tiled pane that is not the last one. *)
close_pane(id) ==
  /\ id \in panes
  /\ panes # {id}
  /\ order' = Without(order, id)
  /\ panes' = panes \ {id}
  /\ fullscreen_pane' = IF fullscreen_pane = id THEN NoPane ELSE fullscreen_pane
  /\ active_pane' = IF active_pane = id THEN order'[1] ELSE active_pane
  /\ UNCHANGED <<floating, show_floating, next_pane_id>>

-----------------------------------------------------------------------------
(* Focus *)

(* focus_pane: a tiled pane leaves another pane's fullscreen mode; a        *)
(* floating one goes to the top of the z-order.                             *)
focus_pane(id) ==
  /\ active_pane' = id
  /\ \/ /\ id \in panes
        /\ fullscreen_pane' = IF fullscreen_pane = id THEN id ELSE NoPane
        /\ UNCHANGED floating
     \/ /\ id \notin panes
        /\ id \in ToSet(floating)
        /\ floating' = MovedToEnd(floating, id)
        /\ UNCHANGED fullscreen_pane
  /\ UNCHANGED <<order, panes, show_floating, next_pane_id>>

focus_cycle_ids == order \o (IF show_floating THEN floating ELSE <<>>)

(* The focus moves to `id` along the cycle; a floating pane is raised. *)
FocusInCycle(id) ==
  /\ active_pane' = id
  /\ fullscreen_pane' = NoPane
  /\ floating' = IF id \in ToSet(floating) THEN MovedToEnd(floating, id)
                                            ELSE floating
  /\ UNCHANGED <<order, panes, show_floating, next_pane_id>>

(* The focus was outside the cycle (a hidden floating pane): it moves to    *)
(* one end of it, and nothing is raised.                                    *)
FocusCycleEnd(id) ==
  /\ active_pane' = id
  /\ fullscreen_pane' = NoPane
  /\ UNCHANGED <<order, panes, floating, show_floating, next_pane_id>>

(* Mutant: the index saturates instead of wrapping around. *)
NextIndex_saturating(i, n) == IF i = n THEN n ELSE i + 1

NextIndex(i, n) == (i % n) + 1

PrevIndex(i, n) == IF i = 1 THEN n ELSE i - 1

focus_next ==
  LET ids == focus_cycle_ids IN
  IF active_pane \in ToSet(ids)
    THEN FocusInCycle(ids[NextIndex(IndexOf(ids, active_pane), Len(ids))])
    ELSE FocusCycleEnd(ids[1])

focus_prev ==
  LET ids == focus_cycle_ids IN
  IF active_pane \in ToSet(ids)
    THEN FocusInCycle(ids[PrevIndex(IndexOf(ids, active_pane), Len(ids))])
    ELSE FocusCycleEnd(ids[Len(ids)])

(* find_neighbor_in_direction: another tiled pane, when the active one is   *)
(* tiled itself.                                                            *)
Neighbour(from, to) ==
  /\ from \in ToSet(order)
  /\ to \in ToSet(order)
  /\ to # from

(* Mutant: moving the focus leaves the fullscreen pane in place. *)
focus_direction_keeps_fullscreen(to) ==
  /\ Neighbour(active_pane, to)
  /\ active_pane' = to
  /\ UNCHANGED <<order, panes, floating, show_floating, fullscreen_pane,
                 next_pane_id>>

focus_direction(to) ==
  /\ Neighbour(active_pane, to)
  /\ active_pane' = to
  /\ fullscreen_pane' = NoPane
  /\ UNCHANGED <<order, panes, floating, show_floating, next_pane_id>>

-----------------------------------------------------------------------------
(* Fullscreen *)

toggle_fullscreen ==
  /\ fullscreen_pane' = IF fullscreen_pane = NoPane THEN active_pane ELSE NoPane
  /\ UNCHANGED <<order, panes, floating, show_floating, active_pane,
                 next_pane_id>>

toggle_fullscreen_by_id(id) ==
  /\ id \in panes
  /\ \/ /\ fullscreen_pane = id
        /\ fullscreen_pane' = NoPane
        /\ UNCHANGED active_pane
     \/ /\ fullscreen_pane # id
        /\ fullscreen_pane' = id
        /\ active_pane' = id
  /\ UNCHANGED <<order, panes, floating, show_floating, next_pane_id>>

-----------------------------------------------------------------------------
(* Floating panes *)

new_floating_pane ==
  /\ AllocateId
  /\ floating' = Append(floating, next_pane_id)
  /\ show_floating' = TRUE
  /\ active_pane' = next_pane_id
  /\ UNCHANGED <<order, panes, fullscreen_pane>>

(* Hiding moves the focus off a floating pane, showing moves it to the      *)
(* topmost one.                                                             *)
toggle_floating_panes ==
  /\ show_floating' = ~show_floating
  /\ active_pane' =
       CASE show_floating /\ active_pane \in ToSet(floating) -> order[1]
         [] ~show_floating /\ floating # <<>> -> Last(floating)
         [] OTHER -> active_pane
  /\ UNCHANGED <<order, panes, floating, fullscreen_pane, next_pane_id>>

close_floating_pane(id) ==
  /\ id \in ToSet(floating)
  /\ floating' = Without(floating, id)
  /\ active_pane' =
       CASE active_pane # id -> active_pane
         [] active_pane = id /\ floating' # <<>> -> Last(floating')
         [] OTHER -> order[1]
  /\ UNCHANGED <<order, panes, show_floating, fullscreen_pane, next_pane_id>>

(* embed_floating_pane: LayoutEngine::add_pane splits the last leaf. *)
embed_floating_pane(id) ==
  /\ id \in ToSet(floating)
  /\ floating' = Without(floating, id)
  /\ panes' = panes \cup {id}
  /\ order' = Append(order, id)
  /\ active_pane' = id
  /\ UNCHANGED <<show_floating, fullscreen_pane, next_pane_id>>

(* Mutant: the floated pane keeps its leaf in the layout. *)
float_pane_keeps_leaf(id) ==
  /\ id \in panes
  /\ panes # {id}
  /\ panes' = panes \ {id}
  /\ floating' = Append(floating, id)
  /\ show_floating' = TRUE
  /\ active_pane' = id
  /\ UNCHANGED <<order, fullscreen_pane, next_pane_id>>

float_pane(id) ==
  /\ id \in panes
  /\ panes # {id}
  /\ panes' = panes \ {id}
  /\ order' = Without(order, id)
  /\ floating' = Append(floating, id)
  /\ show_floating' = TRUE
  /\ active_pane' = id
  /\ UNCHANGED <<fullscreen_pane, next_pane_id>>

ReorderFloating(z_order) ==
  /\ floating' = z_order
  /\ UNCHANGED <<order, panes, show_floating, active_pane, fullscreen_pane,
                 next_pane_id>>

bring_floating_to_front(id) ==
  /\ id \in ToSet(floating)
  /\ ReorderFloating(MovedToEnd(floating, id))

send_floating_to_back(id) ==
  /\ id \in ToSet(floating)
  /\ ReorderFloating(<<id>> \o Without(floating, id))

swap_floating_z_order(a, b) ==
  /\ a \in ToSet(floating)
  /\ b \in ToSet(floating)
  /\ ReorderFloating(Swapped(floating, a, b))

-----------------------------------------------------------------------------
(* Moving tiled panes around *)

(* move_active_pane, and move_pane_by_id, which focuses the pane it moves   *)
(* and gives the focus back only when there is no neighbour.                *)
MovePane(id, neighbour) ==
  /\ Neighbour(id, neighbour)
  /\ order' = Swapped(order, id, neighbour)
  /\ active_pane' = id
  /\ UNCHANGED <<panes, floating, show_floating, fullscreen_pane, next_pane_id>>

move_active_pane(neighbour) == MovePane(active_pane, neighbour)

move_pane_by_id(id, neighbour) == MovePane(id, neighbour)

move_pane_backwards(id) ==
  /\ id \in ToSet(order)
  /\ id # order[1]
  /\ order' = Swapped(order, id, order[IndexOf(order, id) - 1])
  /\ UNCHANGED <<panes, floating, show_floating, active_pane, fullscreen_pane,
                 next_pane_id>>

-----------------------------------------------------------------------------
(* What the program itself calls: command.rs and ipc_handler.rs. *)
AppNext ==
  \/ split_pane
  \/ split_refused
  \/ focus_next
  \/ focus_prev
  \/ toggle_fullscreen
  \/ toggle_floating_panes
  \/ \E id \in PaneId :
       \/ close_pane(id)
       \/ focus_pane(id)
       \/ focus_direction(id)

(* The rest of the crate's public interface. *)
ApiNext ==
  \/ split_largest_pane
  \/ new_floating_pane
  \/ \E id \in PaneId :
       \/ toggle_fullscreen_by_id(id)
       \/ close_floating_pane(id)
       \/ embed_floating_pane(id)
       \/ float_pane(id)
       \/ bring_floating_to_front(id)
       \/ send_floating_to_back(id)
       \/ move_active_pane(id)
       \/ move_pane_backwards(id)
  \/ \E a, b \in PaneId :
       \/ swap_floating_z_order(a, b)
       \/ move_pane_by_id(a, b)

Next == AppNext \/ ApiNext

Spec == Init /\ [][Next]_vars

(* A tab driven by the program alone. *)
AppSpec == Init /\ [][AppNext]_vars

-----------------------------------------------------------------------------
(* The kinds of the variables. *)
TypeOK ==
  /\ order \in Seq(PaneId)
  /\ panes \subseteq PaneId
  /\ floating \in Seq(PaneId)
  /\ show_floating \in BOOLEAN
  /\ active_pane \in PaneId
  /\ fullscreen_pane \in PaneId \cup {NoPane}
  /\ next_pane_id \in 1 .. MaxPaneId

(* The layout tree and the panes map, two structures that split_pane,       *)
(* close_pane, float_pane and embed_floating_pane update one after the      *)
(* other, hold the same panes, each once, and at least one.                 *)
LayoutMatchesPanes ==
  /\ ToSet(order) = panes
  /\ Distinct(order)
  /\ panes # {}

(* A pane lives in exactly one place: floating, embedding and closing never *)
(* leave it both tiled and floating, or floating twice.                     *)
OneHome ==
  /\ panes \cap ToSet(floating) = {}
  /\ Distinct(floating)

(* Whatever was closed, floated or hidden, the focus is on a pane the tab   *)
(* still has: input always has a recipient.                                 *)
FocusNeverDangles == active_pane \in Live

(* Every pane the tab has was allocated from the counter before. *)
IdsAllocated == \A id \in Live : id < next_pane_id

(* The inductive invariant behind the safety of a tab. *)
TabInv ==
  TypeOK /\ LayoutMatchesPanes /\ OneHome /\ FocusNeverDangles /\ IdsAllocated

(* No operation brings an id back: the counter never runs backwards and a   *)
(* pane that appears was just allocated from it, so an id a client still    *)
(* holds for a closed pane never comes to mean another pane of the tab.     *)
IdsNeverReused ==
  [][/\ next_pane_id' >= next_pane_id
     /\ \A id \in Live' \ Live : next_pane_id <= id /\ id < next_pane_id']_vars

(* Opening, closing, floating or embedding a pane leaves the remaining      *)
(* tiled panes in their left-to-right order; only moves permute them.       *)
SurvivorsKeepOrder ==
  [][panes' # panes =>
       \A i, j \in DOMAIN order :
         i < j /\ order[i] \in panes' /\ order[j] \in panes'
           => IndexOf(order', order[i]) < IndexOf(order', order[j])]_vars

(* The program's own operations keep the fullscreen pane focused: no        *)
(* keystroke goes to a pane hidden behind another one in fullscreen mode.   *)
FullscreenHasFocus == fullscreen_pane \in {NoPane, active_pane}

(* The inductive invariant of a tab the program drives: nothing it calls    *)
(* opens a floating pane.                                                   *)
AppInv == TabInv /\ floating = <<>> /\ FullscreenHasFocus

(* Whatever the rest of the interface did before, as long as no floating    *)
(* pane is left, the operations the program calls never leave the focus on  *)
(* a pane that another one in fullscreen mode covers.                       *)
AppKeepsFocus ==
  [][AppNext /\ floating = <<>> /\ FullscreenHasFocus => FullscreenHasFocus']_vars

(* From whatever the interface did before, a user who only goes on pressing *)
(* focus-next comes to every pane that is shown again and again, although   *)
(* raising a floating pane reorders the very list being cycled through:     *)
(* `Cycling focus (next pane) should visit both tiled and floating panes`   *)
(* (tests/floating_panes.rs:187).                                           *)
CyclingVisitsAll ==
  <>[][focus_next]_vars /\ WF_vars(focus_next) =>
    \A id \in PaneId : []<>(id \in ToSet(focus_cycle_ids) => active_pane = id)
=============================================================================
