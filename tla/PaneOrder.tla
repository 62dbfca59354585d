----------------------------- MODULE PaneOrder -----------------------------
(***************************************************************************)
(* Lists of pane ids without repetition: what the rest of emux-mux sees of *)
(* the layout tree through LayoutEngine::pane_ids (the leaves from left to *)
(* right) and of Vec<FloatingPane> (the z-order, bottom first).            *)
(***************************************************************************)
EXTENDS Naturals, Sequences, SequencesExt

(* Iterator::position of an id that occurs in the list. *)
IndexOf(s, id) == CHOOSE i \in DOMAIN s : s[i] = id

(* Mutant: Vec::swap_remove, which fills the gap with the last element. *)
Without_swap_remove(s, id) ==
  IF id \in ToSet(s) THEN Front([s EXCEPT ![IndexOf(s, id)] = Last(s)]) ELSE s

(* The list without id, the others closing the gap. *)
Without(s, id) == IF id \in ToSet(s) THEN RemoveAt(s, IndexOf(s, id)) ELSE s

(* LayoutEngine::split: the new leaf comes right after the split one. *)
InsertAfter(s, target, id) == InsertAt(s, IndexOf(s, target) + 1, id)

(* LayoutEngine::swap_leaves, Vec::swap: two ids trade places. *)
Swapped(s, a, b) ==
  [s EXCEPT ![IndexOf(s, a)] = b, ![IndexOf(s, b)] = a]

(* Vec::remove followed by Vec::push: id becomes the last (topmost) one. *)
MovedToEnd(s, id) == Append(Without(s, id), id)

(* No id occurs twice. *)
Distinct(s) == \A i, j \in DOMAIN s : s[i] = s[j] => i = j
=============================================================================
