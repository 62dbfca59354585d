----------------------------- MODULE EventLoop -----------------------------
(***************************************************************************)
(* What run_event_loop (bins/emux/src/event_loop.rs) promises about        *)
(* drawing and saving: one pass drains the PTYs, closes dead panes, draws  *)
(* when the frame budget allows, reloads a changed config, saves the       *)
(* session when it is due, serves agents and polls for an event.           *)
(* Module App has what these steps do to tabs and processes, module        *)
(* Terminal which rows a pane's output marks; here only whether any row of *)
(* any pane is marked, and whether something is unsaved.  A render draws   *)
(* the marked rows of the active tab and takes every mark away, those of   *)
(* other tabs too.  The clocks are kept as `interval over or not'.         *)
(***************************************************************************)
EXTENDS Naturals

VARIABLES
  phase,
  output,         \* a child's PTY has bytes to read
  any_output,     \* drain_pty_reads read something in this pass
  marked,         \* some pane's damage tracker needs a redraw
  budget_over,    \* FRAME_BUDGET has passed since last_render
  auto_save_path, \* there is a path to save to (HOME is set)
  disk_ok,        \* a write to that path would succeed
  session_dirty,
  unsaved,        \* the session differs from the snapshot on disk
  save_due        \* AUTO_SAVE_INTERVAL has passed since last_auto_save

vars == <<phase, output, any_output, marked, budget_over, auto_save_path, disk_ok,
          session_dirty, unsaved, save_due>>

screen == <<output, any_output, marked, budget_over>>
session == <<session_dirty, unsaved, save_due>>
disk == <<auto_save_path, disk_ok>>

(* The first full draw has been made; the disk may hold a snapshot of       *)
(* another run, or none, or by chance the new session.                      *)
Init ==
  /\ phase = "drain"
  /\ output = FALSE
  /\ any_output = FALSE
  /\ marked = FALSE
  /\ budget_over = FALSE
  /\ auto_save_path \in BOOLEAN
  /\ disk_ok \in BOOLEAN
  /\ session_dirty = FALSE
  /\ unsaved \in BOOLEAN
  /\ save_due = FALSE

-----------------------------------------------------------------------------
(* The surroundings: children write, time passes, the disk fills up or is   *)
(* writable again.                                                          *)
ChildWrites ==
  /\ phase # "exited"
  /\ ~output /\ output' = TRUE
  /\ UNCHANGED <<phase, any_output, marked, budget_over, session, disk>>

FrameTimePasses ==
  /\ ~budget_over /\ budget_over' = TRUE
  /\ UNCHANGED <<phase, output, any_output, marked, session, disk>>

SaveTimePasses ==
  /\ ~save_due /\ save_due' = TRUE
  /\ UNCHANGED <<phase, screen, session_dirty, unsaved, disk>>

DiskChanges ==
  /\ disk_ok' = ~disk_ok
  /\ UNCHANGED <<phase, screen, session, auto_save_path>>

-----------------------------------------------------------------------------
(* save_session to auto_save_path, if there is one; an error is logged.     *)
SaveSession == unsaved' = (unsaved /\ ~(auto_save_path /\ disk_ok))

(* What is read marks the rows it changes, but for the functions that       *)
(* change rows and mark none (module Terminal).                             *)
drain_pty_reads ==
  /\ phase = "drain" /\ phase' = "dead"
  /\ any_output' = output
  /\ marked' \in {marked, marked \/ output}
  /\ output' = FALSE
  /\ UNCHANGED <<budget_over, session, disk>>

(* A pass with dead panes closes them, which alters the session without     *)
(* setting session_dirty and marks nothing (the marks of the dead pane go   *)
(* with it), or leaves the program without a save.                          *)
handle_dead_panes ==
  /\ phase = "dead"
  /\ UNCHANGED <<output, any_output, budget_over, session_dirty, save_due, disk>>
  /\ \/ phase' = "render" /\ UNCHANGED <<marked, unsaved>>
     \/ phase' \in {"render", "exited"} /\ marked' \in {marked, FALSE} /\ unsaved' = TRUE

(* render_all takes the marks away; without a mark and without force it     *)
(* does nothing.                                                            *)
render_all == marked' = FALSE /\ budget_over' = FALSE

(* Mutant: last_render is reset although nothing was drawn. *)
RenderIfDue_always_resets ==
  /\ phase = "render" /\ phase' = "config"
  /\ marked' = (marked /\ ~(any_output /\ budget_over))
  /\ budget_over' = FALSE
  /\ UNCHANGED <<output, any_output, session, disk>>

RenderIfDue ==
  /\ phase = "render" /\ phase' = "config"
  /\ IF any_output /\ budget_over
     THEN render_all
     ELSE UNCHANGED <<marked, budget_over>>
  /\ UNCHANGED <<output, any_output, session, disk>>

(* The watcher reports a new config, which is applied and drawn, or none. *)
ReloadConfig ==
  /\ phase = "config" /\ phase' = "save"
  /\ render_all \/ UNCHANGED <<marked, budget_over>>
  /\ UNCHANGED <<output, any_output, session, disk>>

(* Mutant: the mark is taken away in every pass, due or not. *)
AutoSave_forgets ==
  /\ phase = "save" /\ phase' = "agent"
  /\ session_dirty' = FALSE
  /\ IF session_dirty /\ save_due
     THEN SaveSession /\ save_due' = FALSE
     ELSE UNCHANGED <<unsaved, save_due>>
  /\ UNCHANGED <<screen, disk>>

(* The mark goes also when the save failed or there was nowhere to save to. *)
AutoSave ==
  /\ phase = "save" /\ phase' = "agent"
  /\ IF session_dirty /\ save_due
     THEN SaveSession /\ session_dirty' = FALSE /\ save_due' = FALSE
     ELSE UNCHANGED session
  /\ UNCHANGED <<screen, disk>>

(* An agent may split, kill, resize, focus or rename panes, which does not  *)
(* set session_dirty.  A sync marks the panes shown; a failed spawn and the *)
(* rest mark nothing, and a killed pane takes its marks with it.            *)
process_agent_ipc ==
  /\ phase = "agent" /\ phase' = "poll"
  /\ \/ UNCHANGED <<marked, unsaved>>
     \/ marked' \in BOOLEAN /\ unsaved' = TRUE
  /\ UNCHANGED <<output, any_output, budget_over, session_dirty, save_due, disk>>

PollTimesOut ==
  /\ phase = "poll" /\ phase' = "drain"
  /\ UNCHANGED <<screen, session, disk>>

(* An event resolves to commands that do not end the program, or to none;   *)
(* the marks are drawn in either case.                                      *)
DispatchEvent ==
  /\ phase = "poll" /\ phase' = "drain"
  /\ \/ session_dirty' = TRUE /\ unsaved' \in {unsaved, TRUE}
     \/ UNCHANGED <<session_dirty, unsaved>>
  /\ render_all
  /\ UNCHANGED <<output, any_output, save_due, disk>>

(* Quit and Detach save the session first. *)
DispatchExit ==
  /\ phase = "poll" /\ phase' = "exited"
  /\ SaveSession
  /\ UNCHANGED <<screen, session_dirty, save_due, disk>>

(* A command's spawn fails, or the terminal does: the error ends the        *)
(* program, and what the command did to the session is not saved.           *)
DispatchFails ==
  /\ phase = "poll" /\ phase' = "exited"
  /\ unsaved' \in {unsaved, TRUE}
  /\ UNCHANGED <<screen, session_dirty, save_due, disk>>

-----------------------------------------------------------------------------
Pass ==
  \/ drain_pty_reads
  \/ handle_dead_panes
  \/ RenderIfDue
  \/ ReloadConfig
  \/ AutoSave
  \/ process_agent_ipc
  \/ PollTimesOut

Next == Pass \/ DispatchEvent \/ DispatchExit \/ DispatchFails \/ ChildWrites
          \/ FrameTimePasses \/ SaveTimePasses \/ DiskChanges

(* poll waits no longer than a frame, so every pass ends, and clocks go on. *)
Spec == Init /\ [][Next]_vars /\ WF_vars(Pass) /\ WF_vars(FrameTimePasses)
          /\ WF_vars(SaveTimePasses)

-----------------------------------------------------------------------------
(* While a child keeps writing, marks do not stay: again and again a render *)
(* is started that takes them.  The frame budget delays renders, it does    *)
(* not starve them.  (That a render draws all that changed is not said: see *)
(* DamageCoversChange of module Terminal.)                                  *)
BusyOutputRendered == []<>output => []<>(~marked \/ phase = "exited")

(* From the time the disk can be written, what is unsaved when a command    *)
(* has set session_dirty gets saved, unless the program ends.  That holds   *)
(* after failed saves too: they take the mark away, but what they did not   *)
(* write is written after the next command.                                 *)
CommandsGetSaved ==
  []([]disk_ok /\ auto_save_path /\ session_dirty /\ unsaved
       => <>(~unsaved \/ phase = "exited"))

=============================================================================
