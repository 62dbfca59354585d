------------------------------ MODULE Persistence ------------------------------
(***************************************************************************)
(* Sessions and their snapshots (crates/emux-daemon/src/persistence.rs).   *)
(*                                                                         *)
(* Of a session its name, size, tabs and the active tab are kept; of a tab *)
(* its name, its panes with their titles and the next pane id.  The        *)
(* focused pane is left out (it is saved and never restored), scrollback   *)
(* and working directories too (no caller of this code fills them in).     *)
(***************************************************************************)
EXTENDS Naturals, Sequences

CONSTANT Untitled      \* the empty title

\* Tab::new: one pane, with id 0.  born tells panes apart that had the same id.
NewTab(name) ==
  [name |-> name, panes |-> [id \in {0} |-> [title |-> Untitled, born |-> 0]],
   next |-> 1, made |-> 1]

NewSession(name, size) ==
  [name |-> name, size |-> size, tabs |-> <<NewTab("Tab 1")>>, active |-> 1]

TabSnapshot(t) ==
  [name |-> t.name, titles |-> [id \in DOMAIN t.panes |-> t.panes[id].title]]

snapshot_from_session(s) ==
  [name |-> s.name, size |-> s.size, active |-> s.active,
   tabs |-> [i \in DOMAIN s.tabs |-> TabSnapshot(s.tabs[i])]]

\* A restored tab has the one pane of a new tab, and its title if a pane with
\* that id was saved.
RestoredTab(t) ==
  LET new == NewTab(t.name)
  IN  IF 0 \in DOMAIN t.titles THEN [new EXCEPT !.panes[0].title = t.titles[0]] ELSE new

session_from_snapshot(snap) ==
  [name |-> snap.name, size |-> snap.size, active |-> snap.active,
   tabs |-> [i \in DOMAIN snap.tabs |-> RestoredTab(snap.tabs[i])]]
=============================================================================
