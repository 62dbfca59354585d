-------------------------------- MODULE App --------------------------------
(***************************************************************************)
(* The standalone program (bins/emux/src/event_loop.rs, command.rs and     *)
(* ipc_handler.rs): the session's tabs, each with its own pane ids, and    *)
(* App::panes, the one map from pane ids to child processes (a PaneState   *)
(* with its PTY).  One pass of run_event_loop reaps dead children, serves  *)
(* agents on the IPC socket and dispatches one terminal event; children    *)
(* exit whenever they like.                                                *)
(*                                                                         *)
(* A tab is the tiled part of module Tab (commands and agents create no    *)
(* floating pane), tabs are those of module Session under the commands     *)
(* that have a key.  Sizes, rendering and text are left out.               *)
(***************************************************************************)
EXTENDS Naturals, PaneOrder

CONSTANTS
  MaxPaneId,    \* bound: a tab hands out pane ids 0 .. MaxPaneId - 1
  MaxTabs,      \* bound: tab ids 0 .. MaxTabs - 1 are ever created
  MaxProcs,     \* bound: processes 1 .. MaxProcs are ever spawned
  SpawnMayFail, \* whether spawn_pane_state may return an error
  NoProc        \* no entry in App::panes

ASSUME AppAssumption ==
  /\ MaxPaneId \in Nat \ {0}
  /\ MaxTabs \in Nat \ {0}
  /\ MaxProcs \in Nat \ {0}
  /\ SpawnMayFail \in BOOLEAN
  /\ NoProc \notin Nat

PaneId == 0 .. MaxPaneId - 1
Proc == 1 .. MaxProcs

VARIABLES
  tabs,        \* Session::tabs: records of id, order, active, next
  active_tab,  \* index into tabs, from 1
  next_tab_id,
  panes,       \* App::panes: pane id -> process, or NoProc
  alive,       \* the processes that run
  spawned_for, \* history: the <<tab id, pane id>> each process was started for
  phase,       \* where the pass of the event loop is
  dead,        \* handle_dead_panes: ids still to be closed
  exit         \* "none", or why the program ended

vars == <<tabs, active_tab, next_tab_id, panes, alive, spawned_for, phase, dead, exit>>

Keys == {id \in PaneId : panes[id] # NoProc}
Active == tabs[active_tab]
NewTabRecord(id) == [id |-> id, order |-> <<0>>, active |-> 0, next |-> 1]

-----------------------------------------------------------------------------
Init ==
  /\ tabs = <<NewTabRecord(0)>>
  /\ active_tab = 1
  /\ next_tab_id = 1
  /\ panes = [id \in PaneId |-> IF id = 0 THEN 1 ELSE NoProc]
  /\ alive = {1}
  /\ spawned_for = <<<<0, 0>>>>
  /\ phase = "reap"
  /\ dead = {}
  /\ exit = "none"

(* The program ends: every PaneState is dropped, and Drop hangs up its      *)
(* child.                                                                   *)
ExitWith(reason) ==
  /\ exit' = reason
  /\ phase' = "exited"
  /\ panes' = [id \in PaneId |-> NoProc]
  /\ alive' = {}

(* HashMap::remove of a set of ids; the dropped PTYs hang up their children. *)
DropPanes(ids) ==
  /\ panes' = [id \in PaneId |-> IF id \in ids THEN NoProc ELSE panes[id]]
  /\ alive' = alive \ {panes[id] : id \in ids}

(* spawn_pane_state and HashMap::insert: a PaneState that was under the id  *)
(* is dropped.                                                              *)
SpawnInto(tab_id, id) ==
  /\ Len(spawned_for) < MaxProcs
  /\ spawned_for' = Append(spawned_for, <<tab_id, id>>)
  /\ panes' = [panes EXCEPT ![id] = Len(spawned_for')]
  /\ alive' = (alive \ {panes[id]}) \cup {Len(spawned_for')}

(* Tab::split_pane, close_pane and focus_pane on the active tab. *)
split_pane ==
  /\ Active.next < MaxPaneId
  /\ tabs' = [tabs EXCEPT ![active_tab] =
                [Active EXCEPT !.order = InsertAfter(@, Active.active, Active.next),
                               !.active = Active.next,
                               !.next = @ + 1]]

(* The tab that is left when close_pane took the pane out of it. *)
WithoutPane(tab, id) ==
  LET order == Without(tab.order, id)
  IN  [tab EXCEPT !.order = order,
                  !.active = IF @ = id THEN order[1] ELSE @]

CanClose(id) == id \in ToSet(Active.order) /\ Len(Active.order) > 1

close_pane(id) == tabs' = [tabs EXCEPT ![active_tab] = WithoutPane(@, id)]

focus_pane(id) ==
  /\ id \in ToSet(Active.order)
  /\ tabs' = [tabs EXCEPT ![active_tab].active = id]

-----------------------------------------------------------------------------
(* A child exits by itself. *)
ProcessExits(p) ==
  /\ p \in alive
  /\ alive' = alive \ {p}
  /\ UNCHANGED <<tabs, active_tab, next_tab_id, panes, spawned_for, phase, dead, exit>>

(* handle_dead_panes polls is_alive of every entry ... *)
CollectDead ==
  /\ phase = "reap"
  /\ dead' = {id \in Keys : panes[id] \notin alive}
  /\ phase' = "close"
  /\ UNCHANGED <<tabs, active_tab, next_tab_id, panes, alive, spawned_for, exit>>

(* Mutant: the program quits with two panes left. *)
CloseDead_off_by_one(id) ==
  /\ phase = "close"
  /\ id \in dead
  /\ UNCHANGED <<active_tab, next_tab_id, spawned_for>>
  /\ \/ /\ Len(Active.order) > 2
        /\ dead' = dead \ {id}
        /\ DropPanes({id})
        /\ close_pane(id)
        /\ UNCHANGED <<phase, exit>>
     \/ /\ Len(Active.order) <= 2
        /\ ExitWith("dead")
        /\ UNCHANGED <<tabs, dead>>

(* Mutant: the process is forgotten, the pane stays in the layout. *)
CloseDead_keeps_pane(id) ==
  /\ phase = "close"
  /\ id \in dead
  /\ dead' = dead \ {id}
  /\ DropPanes({id})
  /\ UNCHANGED <<tabs, active_tab, next_tab_id, spawned_for, phase, exit>>

(* ... and takes the dead ones, in the order of the map, out of the map and *)
(* out of the active tab; when that tab has one pane the program quits.     *)
CloseDead(id) ==
  /\ phase = "close"
  /\ id \in dead
  /\ UNCHANGED <<active_tab, next_tab_id, spawned_for>>
  /\ \/ /\ Len(Active.order) > 1
        /\ dead' = dead \ {id}
        /\ DropPanes({id})
        /\ IF CanClose(id) THEN close_pane(id) ELSE UNCHANGED tabs
        /\ UNCHANGED <<phase, exit>>
     \/ /\ Len(Active.order) <= 1
        /\ ExitWith("dead")
        /\ UNCHANGED <<tabs, dead>>

(* Mutant: the emptiness of the map is not looked at. *)
DeadClosed_ignores_empty ==
  /\ phase = "close"
  /\ dead = {}
  /\ phase' = "agent"
  /\ UNCHANGED <<tabs, active_tab, next_tab_id, panes, alive, spawned_for, dead, exit>>

(* The end of handle_dead_panes: the program quits when no entry is left. *)
DeadClosed ==
  /\ phase = "close"
  /\ dead = {}
  /\ UNCHANGED <<tabs, active_tab, next_tab_id, spawned_for, dead>>
  /\ \/ Keys = {} /\ ExitWith("dead")
     \/ Keys # {} /\ phase' = "agent" /\ UNCHANGED <<panes, alive, exit>>

-----------------------------------------------------------------------------
(* Agent IPC: process_agent_ipc serves the messages that have arrived. *)

(* SplitPane, SpawnPane.  When the spawn fails the agent gets an error, and *)
(* the pane stays in the layout.                                            *)
AgentSplit ==
  /\ phase = "agent"
  /\ split_pane
  /\ \/ SpawnInto(Active.id, Active.next)
     \/ SpawnMayFail /\ UNCHANGED <<panes, alive, spawned_for>>
  /\ UNCHANGED <<active_tab, next_tab_id, phase, dead, exit>>

(* Mutant: remove_pane is not called. *)
AgentKillPane_keeps_process(id) ==
  /\ phase = "agent"
  /\ CanClose(id)
  /\ close_pane(id)
  /\ UNCHANGED <<active_tab, next_tab_id, panes, alive, spawned_for, phase, dead, exit>>

AgentKillPane(id) ==
  /\ phase = "agent"
  /\ CanClose(id)
  /\ close_pane(id)
  /\ DropPanes({id})
  /\ UNCHANGED <<active_tab, next_tab_id, spawned_for, phase, dead, exit>>

AgentFocusPane(id) ==
  /\ phase = "agent"
  /\ focus_pane(id)
  /\ UNCHANGED <<active_tab, next_tab_id, panes, alive, spawned_for, phase, dead, exit>>

AgentsServed ==
  /\ phase = "agent"
  /\ phase' = "poll"
  /\ UNCHANGED <<tabs, active_tab, next_tab_id, panes, alive, spawned_for, dead, exit>>

-----------------------------------------------------------------------------
(* Commands, from one terminal event; then the loop starts over. *)

PollTimesOut ==
  /\ phase = "poll"
  /\ phase' = "reap"
  /\ UNCHANGED <<tabs, active_tab, next_tab_id, panes, alive, spawned_for, dead, exit>>

(* The side effect spawn_pane of a command: an error leaves run_event_loop. *)
SpawnOrFail(tab_id, id) ==
  \/ SpawnInto(tab_id, id) /\ phase' = "reap" /\ UNCHANGED exit
  \/ SpawnMayFail /\ ExitWith("error") /\ UNCHANGED spawned_for

SplitPane ==
  /\ phase = "poll"
  /\ split_pane
  /\ SpawnOrFail(Active.id, Active.next)
  /\ UNCHANGED <<active_tab, next_tab_id, dead>>

(* Mutant: the id to remove is read after the focus moved on. *)
CloseActivePane_reads_late ==
  /\ phase = "poll"
  /\ CanClose(Active.active)
  /\ close_pane(Active.active)
  /\ DropPanes({tabs'[active_tab].active})
  /\ phase' = "reap"
  /\ UNCHANGED <<active_tab, next_tab_id, spawned_for, dead, exit>>

CloseActivePane ==
  /\ phase = "poll"
  /\ CanClose(Active.active)
  /\ close_pane(Active.active)
  /\ DropPanes({Active.active})
  /\ phase' = "reap"
  /\ UNCHANGED <<active_tab, next_tab_id, spawned_for, dead, exit>>

NewTab ==
  /\ phase = "poll"
  /\ next_tab_id < MaxTabs
  /\ next_tab_id' = next_tab_id + 1
  /\ tabs' = Append(tabs, NewTabRecord(next_tab_id))
  /\ active_tab' = Len(tabs')
  /\ SpawnOrFail(next_tab_id, 0)
  /\ UNCHANGED dead

(* The panes of the closed tab are looked up by their ids. *)
CloseTab ==
  /\ phase = "poll"
  /\ Len(tabs) > 1
  /\ tabs' = RemoveAt(tabs, active_tab)
  /\ active_tab' = IF active_tab > Len(tabs) - 1 THEN Len(tabs) - 1 ELSE active_tab
  /\ DropPanes(ToSet(Active.order))
  /\ phase' = "reap"
  /\ UNCHANGED <<next_tab_id, spawned_for, dead, exit>>

(* NextTab, PrevTab. *)
SwitchTab ==
  /\ phase = "poll"
  /\ Len(tabs) > 1
  /\ active_tab' \in { (active_tab % Len(tabs)) + 1,
                       IF active_tab = 1 THEN Len(tabs) ELSE active_tab - 1 }
  /\ phase' = "reap"
  /\ UNCHANGED <<tabs, next_tab_id, panes, alive, spawned_for, dead, exit>>

(* FocusDirection, FocusPane. *)
FocusPane(id) ==
  /\ phase = "poll"
  /\ focus_pane(id)
  /\ phase' = "reap"
  /\ UNCHANGED <<active_tab, next_tab_id, panes, alive, spawned_for, dead, exit>>

(* Quit, Detach. *)
Quit ==
  /\ phase = "poll"
  /\ ExitWith("quit")
  /\ UNCHANGED <<tabs, active_tab, next_tab_id, spawned_for, dead>>

-----------------------------------------------------------------------------
Loop ==
  \/ CollectDead
  \/ \E id \in PaneId : CloseDead(id)
  \/ DeadClosed
  \/ AgentsServed
  \/ PollTimesOut

Next ==
  \/ Loop
  \/ \E p \in Proc : ProcessExits(p)
  \/ AgentSplit
  \/ \E id \in PaneId : AgentKillPane(id) \/ AgentFocusPane(id) \/ FocusPane(id)
  \/ SplitPane \/ CloseActivePane \/ NewTab \/ CloseTab \/ SwitchTab \/ Quit

Spec == Init /\ [][Next]_vars

(* poll waits at most one frame, so the loop goes round whatever the user   *)
(* and the agents do.                                                       *)
FairSpec == Spec /\ WF_vars(Loop)

-----------------------------------------------------------------------------
TabRecord == [id : 0 .. MaxTabs - 1, order : Seq(PaneId), active : PaneId,
              next : 1 .. MaxPaneId]

(* The kinds of the variables. *)
TypeOK ==
  /\ tabs \in Seq(TabRecord)
  /\ active_tab \in 1 .. Len(tabs)
  /\ next_tab_id \in 1 .. MaxTabs
  /\ panes \in [PaneId -> Proc \cup {NoProc}]
  /\ alive \subseteq Proc
  /\ spawned_for \in Seq((0 .. MaxTabs - 1) \X PaneId)
  /\ phase \in {"reap", "close", "agent", "poll", "exited"}
  /\ dead \subseteq PaneId
  /\ exit \in {"none", "dead", "error", "quit"}

(* However panes and tabs were closed, a process that still runs is in      *)
(* App::panes, under the id of a pane some tab shows: no shell is left that *)
(* the user can neither see nor close.                                      *)
NoStrayProcess ==
  /\ alive \subseteq {panes[id] : id \in Keys}
  /\ \A id \in Keys : \E i \in DOMAIN tabs : id \in ToSet(tabs[i].order)

(* Every pane of the session a process was started for has it: what is      *)
(* typed into the pane goes to that shell.                                  *)
OwnProcess ==
  phase = "poll" =>
    \A i \in DOMAIN tabs : \A id \in ToSet(tabs[i].order) :
      <<tabs[i].id, id>> \in ToSet(spawned_for) =>
        id \in Keys /\ spawned_for[panes[id]] = <<tabs[i].id, id>>

NoSecondTab == next_tab_id = 1

(* So it is until a second tab is opened. *)
OwnProcessInOneTab == NoSecondTab => OwnProcess

(* Until then handle_dead_panes ends the program only when nothing runs any *)
(* more.                                                                    *)
QuitsOnlyWhenAllDead ==
  [][NoSecondTab /\ exit' = "dead" /\ exit = "none" => alive = {}]_vars

(* When the last child is gone the program ends, unless another is started. *)
EndsWithLastChild == alive = {} ~> (exit # "none" \/ alive # {})

(* A pane whose child exited leaves the layout, or the program ends, as     *)
(* long as there is one tab.                                                *)
DeadPanesLeave ==
  \A id \in PaneId :
    (id \in ToSet(tabs[1].order) /\ id \in Keys /\ panes[id] \notin alive)
      ~> (id \notin ToSet(tabs[1].order) \/ exit # "none" \/ ~NoSecondTab)
=============================================================================
