------------------------------ MODULE Session ------------------------------
(***************************************************************************)
(* A session (crates/emux-mux/src/session.rs): an ordered list of tabs,    *)
(* the index of the active one and the index remembered for going back.    *)
(* Indices, from 0 in the code, are from 1 here.  Of a tab only its number *)
(* of tiled panes is kept: break_pane_to_new_tab depends on it; module Tab *)
(* has the rest.                                                           *)
(***************************************************************************)
EXTENDS Integers, PaneOrder

CONSTANTS
  MaxTabId,   \* bound: tab ids 0 .. MaxTabId - 1 are ever handed out
  MaxPanes,   \* bound on the panes of one tab
  NoTab       \* Option::None for previous_tab

ASSUME MaxTabIdAssumption == MaxTabId \in Nat \ {0}
ASSUME MaxPanesAssumption == MaxPanes \in Nat \ {0}
ASSUME NoTabAssumption == NoTab \notin Nat

VARIABLES
  tabs,          \* ids of the tabs, left to right
  active_tab,    \* index into tabs
  previous_tab,  \* index into tabs, or NoTab
  next_tab_id,
  pane_count     \* tiled panes of every tab ever created

session_vars == <<tabs, active_tab, previous_tab, next_tab_id, pane_count>>

TabId == 0 .. MaxTabId - 1

(* The tab active_tab_mut works on. *)
ActiveTab == tabs[active_tab]

-----------------------------------------------------------------------------
SessionInit ==
  /\ tabs = <<0>>
  /\ active_tab = 1
  /\ previous_tab = NoTab
  /\ next_tab_id = 1
  /\ pane_count = [t \in TabId |-> 1]

AllocateTabId ==
  /\ next_tab_id < MaxTabId
  /\ next_tab_id' = next_tab_id + 1

new_tab ==
  /\ AllocateTabId
  /\ tabs' = Append(tabs, next_tab_id)
  /\ active_tab' = Len(tabs')
  /\ UNCHANGED <<previous_tab, pane_count>>

(* Mutant: the index is not shifted when a tab to its left goes away. *)
IndexAfterClose_unshifted(index) ==
  IF active_tab >= Len(tabs) THEN Len(tabs) - 1 ELSE active_tab

(* Mutant: the index is not clamped when the last tab goes away. *)
IndexAfterClose_unclamped(index) ==
  IF active_tab > index THEN active_tab - 1 ELSE active_tab

(* close_tab's new active index, over the list that lost one tab. *)
IndexAfterClose(index) ==
  IF active_tab > Len(tabs) - 1 THEN Len(tabs) - 1
  ELSE IF active_tab > index THEN active_tab - 1 ELSE active_tab

(* close_tab, and close_tab_by_id, which looks the index up. *)
close_tab(index) ==
  /\ Len(tabs) > 1
  /\ index <= Len(tabs)
  /\ tabs' = RemoveAt(tabs, index)
  /\ active_tab' = IndexAfterClose(index)
  /\ UNCHANGED <<previous_tab, next_tab_id, pane_count>>

switch_tab(index) ==
  /\ index <= Len(tabs)
  /\ previous_tab' = IF index # active_tab THEN active_tab ELSE previous_tab
  /\ active_tab' = index
  /\ UNCHANGED <<tabs, next_tab_id, pane_count>>

next_tab ==
  /\ Len(tabs) > 1
  /\ active_tab' = (active_tab % Len(tabs)) + 1
  /\ UNCHANGED <<tabs, previous_tab, next_tab_id, pane_count>>

prev_tab ==
  /\ Len(tabs) > 1
  /\ active_tab' = IF active_tab = 1 THEN Len(tabs) ELSE active_tab - 1
  /\ UNCHANGED <<tabs, previous_tab, next_tab_id, pane_count>>

toggle_previous_tab ==
  /\ previous_tab # NoTab
  /\ previous_tab <= Len(tabs)
  /\ active_tab' = previous_tab
  /\ previous_tab' = active_tab
  /\ UNCHANGED <<tabs, next_tab_id, pane_count>>

(* The active tab trades places with the one at `index` and stays active. *)
SwapActiveWith(index) ==
  /\ tabs' = [tabs EXCEPT ![active_tab] = tabs[index], ![index] = tabs[active_tab]]
  /\ active_tab' = index
  /\ UNCHANGED <<previous_tab, next_tab_id, pane_count>>

move_tab_left ==
  /\ active_tab > 1
  /\ SwapActiveWith(active_tab - 1)

move_tab_right ==
  /\ active_tab < Len(tabs)
  /\ SwapActiveWith(active_tab + 1)

move_tab_left_wrapping ==
  /\ Len(tabs) > 1
  /\ \/ /\ active_tab = 1
        /\ tabs' = Append(RemoveAt(tabs, 1), tabs[1])
        /\ active_tab' = Len(tabs')
        /\ UNCHANGED <<previous_tab, next_tab_id, pane_count>>
     \/ move_tab_left

move_tab_right_wrapping ==
  /\ Len(tabs) > 1
  /\ \/ /\ active_tab = Len(tabs)
        /\ tabs' = InsertAt(RemoveAt(tabs, active_tab), 1, tabs[active_tab])
        /\ active_tab' = 1
        /\ UNCHANGED <<previous_tab, next_tab_id, pane_count>>
     \/ move_tab_right

(* break_pane_to_new_tab, and move_pane_to_new_tab_right with the active    *)
(* pane: the pane is closed and a tab with a pane of its own opens next to  *)
(* the active one.                                                          *)
break_pane_to_new_tab ==
  /\ pane_count[ActiveTab] > 1
  /\ AllocateTabId
  /\ pane_count' = [pane_count EXCEPT ![ActiveTab] = @ - 1]
  /\ tabs' = InsertAt(tabs, active_tab + 1, next_tab_id)
  /\ previous_tab' = active_tab
  /\ active_tab' = active_tab + 1

(* active_tab_mut().split_pane / close_pane. *)
split_active ==
  /\ pane_count[ActiveTab] < MaxPanes
  /\ pane_count' = [pane_count EXCEPT ![ActiveTab] = @ + 1]
  /\ UNCHANGED <<tabs, active_tab, previous_tab, next_tab_id>>

close_active_pane ==
  /\ pane_count[ActiveTab] > 1
  /\ pane_count' = [pane_count EXCEPT ![ActiveTab] = @ - 1]
  /\ UNCHANGED <<tabs, active_tab, previous_tab, next_tab_id>>

SessionNext ==
  \/ new_tab
  \/ \E index \in 1 .. MaxTabId : close_tab(index) \/ switch_tab(index)
  \/ next_tab
  \/ prev_tab
  \/ toggle_previous_tab
  \/ move_tab_left
  \/ move_tab_right
  \/ move_tab_left_wrapping
  \/ move_tab_right_wrapping
  \/ break_pane_to_new_tab
  \/ split_active
  \/ close_active_pane

SessionSpec == SessionInit /\ [][SessionNext]_session_vars

-----------------------------------------------------------------------------
(* The kinds of the variables; the remembered index may lie beyond the      *)
(* list, once tabs were closed.                                             *)
SessionTypeOK ==
  /\ tabs \in Seq(TabId)
  /\ active_tab \in Nat
  /\ previous_tab \in (Nat \ {0}) \cup {NoTab}
  /\ next_tab_id \in 1 .. MaxTabId
  /\ pane_count \in [TabId -> Nat \ {0}]

(* active_tab and active_tab_mut index the list unchecked: whatever was     *)
(* closed, moved, broken out or toggled to, the index is inside it.         *)
ActiveTabExists == active_tab \in 1 .. Len(tabs)

(* Tab ids are unique and were allocated: close_tab_by_id closes the tab    *)
(* that was meant.                                                          *)
TabIdsUnique ==
  /\ Distinct(tabs)
  /\ \A t \in ToSet(tabs) : t < next_tab_id

SessionInv == SessionTypeOK /\ ActiveTabExists /\ TabIdsUnique

(* Closing or moving tabs never moves the user to another tab, unless the   *)
(* active one itself is closed.                                             *)
FocusFollowsTab ==
  [][tabs' # tabs /\ ToSet(tabs') \subseteq ToSet(tabs) /\ ActiveTab \in ToSet(tabs')
       => tabs'[active_tab'] = ActiveTab]_session_vars
=============================================================================
