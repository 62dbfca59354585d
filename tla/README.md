# A TLA+ verification of emux

emux is a terminal multiplexer in Rust: sessions of tabs, tabs of tiled and
floating panes, each pane a child process behind a pseudo terminal.  This
directory holds TLA+ modules translated from its source, the TLC configurations
that check them on small instances, and proofs for any size that TLAPS checks.
`PROJECT.json` maps every definition to the lines it stands for.

## 1. The system

| Part | State | Operations | Hard about it | Module |
|---|---|---|---|---|
| Tab (`emux-mux/src/tab.rs`) | layout, panes map, floating list (z-order), visibility, focus, fullscreen pane, id counter | split, close, focus, cycle, fullscreen, float/embed, move, z-order | long call sequences over state kept in several places | `Tab` |
| Layout engine (`layout.rs`, `swap_config.rs`) | binary tree of splits with ratios | split, remove, swap, resize, templates, positions, neighbour search | rounding, nesting, aliasing of ids | `Layout` |
| Session (`session.rs`) | list of tabs, active and previous index, id counter | new, close, switch, move, break out, toggle | indices that outlive a change of the list | `Session` |
| Standalone program (`bins/emux`: `event_loop.rs`, `command.rs`, `ipc_handler.rs`) | the session, `App::panes` (pane id to process) | reap dead children, serve agents, dispatch commands | children exit at any moment; spawns fail; ids are per tab, the map is not | `App` |
| The same loop's clocks | frame budget, auto-save interval, dirty marks | draw, reload config, save | starvation of drawing, unsaved changes | `EventLoop` |
| Keys and mouse (`keybindings.rs`, `command.rs`, `mouse.rs`) | input mode, search, copy mode, drag, selection | keys in three modes, press, drag, release, paste, resize | positions and modes that go stale while panes print, die and move | `InputModes`, `Selection`, `Search` |
| Screen (`emux-term`) | two grids, history, viewport, cursor, region, margins, modes, damage | print, scroll, erase, copy rectangles, resize, switch screens | region and viewport arithmetic, wide characters, missed damage | `Grid`, `Screen`, `Terminal` |
| VT parser (`emux-vt`) | state, parameters, intermediates, OSC data, partial UTF-8 | one read at a time | input cut anywhere, aborted sequences, a fast path | `Params`, `ParserMachine`, `Parser`, `ByteStream` |
| Daemon loop (`bins/emux/src/daemon.rs`, `emux-ipc`) | clients, sockets, frames | accept, poll, stream, read with time limit, attach, kill | partial frames, slow clients, output others take | `Daemon` |
| `DaemonServer` and persistence (`emux-daemon`) | socket files, session, dirty mark, snapshot files | start, restore, messages, save, rename, shut down | two starting at once, crashes between the steps of a save, state tied to a name | `Persistence`, `Server` |
| Recording, SSH transport, key tables, status bar, command line, upgrade, windows/domains | formatting, tables, downloads, unused code | | | not modelled |

How they interact: `run_event_loop` owns an `App`.  In each pass it drains the
PTYs through the parsers into the screens, closes dead panes, draws the marked rows,
reloads the configuration, saves, answers agents (who act on the session through
`handle_ipc`) and dispatches at most one terminal event as commands.  Commands call
methods of the active `Tab` through `Session` and ask for side effects (spawn, PTY
writes, exit) that the loop carries out.  The program is single-threaded; the
concurrency is that of children, agents, the user, the clock and other emux
processes on the same files against the loop.

## 2. Modules

Panes and tabs:

* `PaneOrder` - lists of ids without repetition: insertion, removal, swap.
* `Tab` - one tab.  The layout tree is represented by `order`, its leaves from
  left to right; whether a geometric step is possible (`can_split`, a neighbour
  in a direction) is left open.  `AppNext` are the operations the program calls,
  `ApiNext` the rest of the public interface.  Templates need no action: they
  leave the leaf order alone, which `Layout` checks.
* `Layout`, `MCLayout` - the tree itself.  Ratios are whole percents instead of
  `f32`; the terminal is a few cells wide.  A node is named by the way to it from the
  root, a sequence of 1 (first child) and 2; a tree is what its nodes hold, `leaf`
  and `split`.  What the code does on its way down to a pane is done at the pane's
  path, so nothing is recursive and the module can be proved about.  The leaf ids of
  a swap layout, from 100 in the code, may be ids of panes (`MCBases`).
  `OperationsActOnLeafOrder` ties it to `Tab`: every tree operation
  acts on the leaves as the operator of `PaneOrder` that `Tab` uses.
* `Session` - the tabs.  Indices count from 1.  Of a tab only its number of panes is
  kept.
* `App` - tabs with their panes composed with `App::panes` and the children.
  The loop of `handle_dead_panes` is a step per dead id (`CollectDead`,
  `CloseDead`, `DeadClosed`) since the map's order is arbitrary.
  `spawned_for` is history: which pane each process was started for.  Drop of a
  PTY hangs up its child, which then counts as gone.
* `EventLoop` - one pass of the loop, phase by phase, with whether any row is marked
  and whether something is unsaved.  A render takes every mark away; it draws the
  marked rows of the active tab only (`render.rs:36`, `112`, `141`), so that marks gone
  does not mean drawn: which changes are marked is the business of `Terminal`.  A path
  to save to may be missing (`auto_save_path`) and the disk full (`disk_ok`).  Clocks
  are reduced to "the interval is over".

The terminal:

* `Grid` - rows of cells and the lines that left them: wide characters with their
  padding cell, continuation marks, scrolling, reflow and resize.
* `Screen` - `Screen`: cursor, pending wrap, scroll region, margins, tab stops, the
  alternate screen, the viewport and damage, and every function on them.
* `Terminal`, `MCTerminal` - what a program can do to it: one action per control
  function of the performer, plus scrolling back and resizing by the user.  `damage`
  is what the step recorded; `primary`, `mixed` and `resized` are history for the
  properties: `resized` says that a resize may have left the cursor of the hidden
  screen off the grid (`"hidden"`), or that this cursor is now shown (`"shown"`).  The
  loops of the source over tab stops, cells, rows to shrink by and lines to rewrap are
  closed forms (the n-th stop ahead, the cells of a rectangle, the empty rows at the
  bottom, the first and last row of a logical line).  `Screens(cols, rows)` is the type
  of a screen of that size; `TerminalAssumption` asks the painted screens to be of it.
  Characters are one narrow, one wide and one of width 0.  `DECCOLM` resizes and clears
  the screen once mode 40 allows it; the columns it asks for, 132 and 80 in the code, are
  the constant `ColumnsOf`.  Colours, character sets, OSC effects, mouse and keyboard
  protocols are left out.
* `Params`, `ParserMachine` - the parser's parameters and what one byte does.  Bytes
  are classes no state tells apart; limits (parameters, digits, intermediates, OSC
  data) are constants, and overflow saturates as in the code.
* `Parser` - `Parser::advance` with its look-ahead for runs of text, read by read.
  `since` is history: the bytes of the present sequence.
* `ByteStream` - what it promises: any machine fed one byte after another.  `Parser`
  implements it with `waiting <- run \o next`.

The user:

* `Selection`, `Search` - the selection with its modes, and the scan for matches.
* `InputModes`, `MCInputModes` - keys and mouse over one tab: the split tree of
  `Layout`, full screen, a screen of lines with history per pane, the three input modes,
  the drag of a border and of a selection, programs that print, ask for the mouse and
  exit.  `Positions` is `compute_positions` with its two cases; only the panes shown
  have a place and are fitted (`Synced`).  The commands that switch or close tabs and
  the toggle of the floating panes are there (`NoOtherTabNorFloat`) but find no other
  tab and no floating pane, which no command opens.  A user is a set of keys, buttons,
  points and sizes and a number of lines printed; `anchor`, `strayed`, `unfitted` are
  history: the line under the selection's beginning, a copy mode whose pane changed
  under it, places that changed without a fitting (a death, a toggle of full screen).
  Presses and releases pair, characters are one column wide and lines fit the narrowest
  pane; `Moved` events and the commands covered by `App` (a new tab, agents, quit) are
  left out.

The daemon:

* `Daemon` - the daemon's loop with its lists of connections, phase by phase, and the
  clients. Removing the dead and moving or dropping the marked is a step per
  connection, as in its loops (`DropDead`, `MoveClient`, the last one first; then
  `StartReading`, `EndPass`), so that clients act between any two. A client connects,
  sends a frame in one or two parts, reads or not, and hangs up at any time. A read
  that times out loses what it had read, as `read_exact` does. `from` and `captured`
  are history: what each client was there to see, and what `capture_pane` took.
* `Persistence` - a session with its size, its snapshot and the session restored from it.
* `Server`, `MCServer` - several processes over one file system: `start` call by call
  (`Probe`, `RemoveStale`, `Bind`, `Load`), the messages that change the session, those
  that mark it and `Attach`, which does not, the
  save by temporary file and rename, `rename_session`, `shutdown` with the drop of
  the listener and the removal of the file, and a crash between any two of these
  steps.  A write may be cut short and leaves `Torn`.  A snapshot found at the start
  (`Saved`) need not be called as its file: the standalone program saves every session
  as "main" to `<session_name>.json` (`event_loop.rs:83`, `139`, `177`), and `NamesUnder`
  says what a session kept under a name may be called.  `raced` is history: the names
  on which two processes met; `attached` says that a client attached since the last save.
  Existence test and connection count as one step, as do
  bind and listen.

Proofs: `TabProofs` (`Tab` and `Session`), `AppProofs`, `LayoutProofs`, `ParserProofs`,
`ServerProofs`, `DaemonProofs`, `TerminalProofs`, `InputModesProofs`.

A definition named `X_something` before a definition `X` is a mutated form of it,
used to check that a property notices the mistake.

## 3. Runs

Passing runs:

| Run | Instance | Shows |
|---|---|---|
| `TabApi` | 4 pane ids | every API call in any order keeps layout, panes map, floating list, focus and counter in agreement (`TabInv`); ids are not reused; other panes keep their order; the program's own operations never leave the focus on a pane that a fullscreen one covers; focus-next visits every shown pane |
| `LayoutTiling` | trees of up to 4 panes, 3 sizes, 2 resize amounts, swap layouts of at most as many leaves as panes, whose ids may be those of panes | every cell belongs to a pane and no two panes overlap; tree operations act on the leaf order; growing never shrinks while the ratios are within their limits; swap layouts arrange exactly the panes, in order unless ids clash; while every pane shows a cell a focus move fails only at the edge |
| `SessionTabs` | 5 tab ids, 2 panes a tab | the active index is valid and follows the active tab; ids stay unique |
| `AppTabs` | 2 tabs, 3 pane ids, 3 processes, failing spawns, fair loop | no running child is out of reach; the program ends with its last child; with one tab every pane has its own process, dead panes leave, and it quits only when nothing runs |
| `EventLoopBusy` | fair loop and clocks, with and without a path to save to, a disk that fills up and empties | the frame budget does not starve rendering: under steady output a render that takes the marks is started again and again; from when the disk can be written, what is unsaved when a command marks the session gets saved, after failed saves too |
| `TerminalScreen` | 3x3 screens in three painted states, every 3 steps, 4 sizes to resize to, two numbers of columns for DECCOLM | rows fit the grid and the cursor is on it; a changed row is marked unless the code forgets it (next table); the primary screen comes back from the alternate one; history only grows at its end; wide characters stay whole where the code keeps them so; a resize keeps the text |
| `Parser` | sequences of 3 bytes, 2 parameters, 1 intermediate, 1 byte of OSC data, reads cut anywhere | what is handed over with a sequence is its own; three bytes and a CAN bring text back from any state; the parser implements `ByteStream` |
| `Server` | 2 processes, 2 names, 2 starts, 2 changes, 1 pane killed, a snapshot of the standalone program and a stale socket under one name, crashes anywhere | a daemon stays reachable unless two met on its name; a session marked clean survives a crash, but for the size a client attached with; a snapshot is whole, and called as its name or as what was found there at the start; a pane has its own terminal |
| `InputModes` | one pane 5 columns wide and 1 to 4 rows high, split once, 9 users, history of 3 lines | a release ends the drag; the screens of the panes shown have the size of their places; the selection stays on the line it began on; what is copied are the selected cells; the copy cursor is in the focused pane unless the focus left; the search finds every match in the live rows |
| `DaemonServes` | 2 clients, 2 chunks of output, socket buffer of 1 frame, fair loop | attached clients miss only what a capture took; whoever asks is answered whatever others do |

Runs that refute what a test or a comment says (details under `findings`):

| Run | What the code does |
|---|---|
| `AppSharedIds` | a new tab takes over the process of another tab's pane |
| `TerminalDamage` | reverse index, insert and delete line, rectangle functions, DECALN and RIS change rows and mark none: they are not drawn again |

Bounds. Four panes give a tree with a nested split on either side and a tab with two
tiled and two floating panes, the smallest in which reordering, aliasing and the focus
trap show. Five tabs allow an active tab with neighbours on both sides while one is
closed or wraps round. Two tabs with a split each are enough to share a pane id; three
processes let a pane be replaced and closed. A 3x3 screen has a row above, in and below
a region and a column on either side of the cursor; it starts painted, with a wide
character, a padding cell and a continued row, so that three steps combine any two
functions and a resize. Parameters, digits and data of the parser go one past each
limit. Two server processes and two names with two starts each give a race for a name, a
restart after a crash, and a rename onto the other's name; two changes leave one saved
and one not, or one marked and an attach that is not. The users of `InputModes` each
reach a part of the interface completely: together every key and event of the module
occurs.  One of them makes a pane grow by two rows with two lines in its history (the
case that `AnchorStays` excepts), one zooms two panes with the mouse.  Two clients and
two chunks make a full socket buffer, a silent client beside one that asks, and two
requests in one pass. Sizes of 10x5, 8x4 and 3x2 cells cover a pane above, at and below
the minimum. Deadlock is not checked where a program may end or a bound on ids, steps or
changes is reached.

Fairness.  `event::poll` waits at most one frame (`FRAME_BUDGET`), agents are
served once per pass with time limits, so a pass always ends: weak fairness of the
loop's own steps.  Clocks advance: weak fairness of the two intervals.  Nothing is
assumed of users, agents and children.  `CyclingVisitsAll` is about a user who keeps
pressing the key, which is what it asks about.  In `Daemon` a shell goes on reading its
input and a client takes the reply it asked for, as `DaemonClient` does; clients need
not send what they connected for, nor attached ones read.  `Terminal`, `Parser`,
`Server` and `InputModes` state safety only.

## 4. Proofs

Proved with TLAPS, for every value of the constants:

* `TabSafe`: `TabInv` is inductive.  No conjunct is inductive alone: that closing
  keeps layout and panes map equal needs the layout free of repetition; a split
  keeps it so because the counter lies above every id in use; the focus falls back
  to the first leaf, which needs the layout not to be empty.  From it follow
  `TabLayoutMatchesPanes`, `TabFocusNeverDangles`, the action properties
  `TabIdsNeverReused` and `TabSurvivorsKeepOrder`, `TabOneHome` (a pane is tiled or
  floating, once), and, with `AppInv`, `AppFullscreenHasFocus` for the program's own
  operations and `TabAppKeepsFocus` for each of their steps after any use of the API.
* `SessionSafe`: `SessionInv` is inductive.  That the index follows the active tab
  (`SessionFocusFollowsTab`) can be told from the ids only while they are unique,
  and they stay unique because they come from the counter.
* `AppSafe`: `AppInv` of `AppProofs` joins the tabs, `App::panes` and the processes.
  `AppNoStrayProcess` needs only that every entry's id is shown (`Shown`), which a
  closed pane keeps true because the other panes of its tab stay.
  `AppOwnProcessInOneTab` rests on the tab's counter: the id it hands out next was
  never used for a process, so no entry is replaced; with a second tab that is false,
  which `AppSharedIds` shows.  `AppQuitsOnlyWhenAllDead` rests on `DeadHeld`: between
  the reaping and the closing nobody takes a dead id's entry away, so the last pane's
  entry is the only one left.
* `LayoutStaysTree`, for any panes, sizes, amounts and swap layouts: `TreeInv` says that
  the layout is a tree (every split has two children, no pane has two leaves), whose
  leaves are panes.  It is inductive by itself, but each operation costs an argument
  about paths: the list of leaves is the only list of them in the order of a walk
  (`ListingUnique`), so what an operation does to the order is shown by listing the
  leaves it leaves.  `LayoutActsOnLeafOrder` needs this for the node that a removal
  lifts into its parent's place (`Old` and `New` are each other's inverse and keep the
  order).  `LayoutTemplateArranges` needs that renaming the leaves of a swap layout one by
  one may rename a pane placed before when ids clash: all names together stay a
  permutation, so at the end each pane is there once.  `LayoutPanesTile`: the area of a
  node lies in that of every node above it, the areas of two children divide their
  parent's, and two leaves part at one split; that each cell has a leaf rests on there
  being no endless way down a finite tree (`Descent`).  `LayoutMovesFailOnlyAtEdge` looks
  at the pane that has the cell just past the border.  `LayoutGrowNeverShrinks` rests on
  `FirstCells` being monotone in the cells and in the ratio: a change of the outermost
  split reaches the pane through every split below it.  What the code does step by step is
  followed by `Climb`, an induction over the steps by the least number that fails.
* `ParserImplementsByteStream`: every step of the loop is a step of `ByteStream` or
  none, whatever the limits and however reads cut the input.  The only fact about the
  machine it uses is `TextPrints` (text in the ground state is printed and changes
  nothing), on which the fast path relies; `ParserLoop` says that a run is held only in
  that state.  `ParserWhole` bounds the machine's buffers (parameters and their values,
  intermediates, OSC data, the collected part of a UTF-8 character) after any bytes;
  `ParserCancelRecovers` needs it, because how many bytes a UTF-8 character still takes
  decides which of three bytes and a CAN is the first that is not swallowed.
  `ParserSequenceAsWritten` says that a sequence is handed over with what its own bytes
  write, for streams, parameters and data of any length.  What the property compares is
  only there at the dispatch; inductive is `Gathered`, which says in every state of the
  machine what the buffers hold of the bytes since the sequence began: the finished
  parameters and the number that is being read (`AsRead`), the intermediates and OSC
  data that fit, and that nothing is left of a sequence that was abandoned.  Reading
  digits saturates twice, as u32 while reading and as u16 when kept; both agree with
  the number written because `MaxValue <= MaxCurrent`.
* `ServerSafe`, for any number of processes, names and crashes. `Reachable` is not
  inductive: that nobody takes a daemon's socket away rests on knowing who is about to
  remove one (`Alone`: two processes meet on a name only after that was recorded), and a
  save's rename is harmless only because the temporary file is whole (`TmpWhole`) and
  called as something kept under its name may be (`FilesOfTheirNames`, `NamesUnder`).
  `ServerReachable` and `ServerSnapshotSound` follow, whatever snapshots are found at
  the start. `ServerPanes` follows the ids of panes and terminals through the session in
  memory, every snapshot and every half-finished save: all but nobody's lie below the
  next id that goes with them. `ServerOwnTerminal` rests on it (an id handed out was not
  used before a crash either; a terminal asked for under an id that is no pane is
  `Nobody`'s, which the property excepts), `ServerCleanMeansSaved` on `CleanInv`, which
  says what a save that is between its write and its rename has written, and that what
  is on disk differs from a clean session in the size at most, when a client attached.
* `DaemonSafe`, for any number of clients that act between any two steps: `DaemonInv`
  says where in the pass the loop is, which connections are marked for removal (those
  below the index reached, each once), that its three lists are disjoint and without
  repetition, and what every client has been sent: the attached before the index have the
  pass's output, those after it not yet.  `DaemonMissesOnlyCaptured` follows: the output a
  client gets is what was there to see since it attached, in order and without a hole,
  but for what a capture took.
* `TerminalScreenFits`: `ScreenFits` for grids of any size, any history limit, any
  characters and counts.  `ScreenFits` reads bounds off the screen; inductive is that the
  screen is in `Screens(cols, rows)`: every line has the width of the grid (a reflow
  must give at least a line for each it takes, or fewer lines than rows would be left),
  the region is not empty after any sequence of resizes, saved cursors and stops are
  fitted.  The cursor of the hidden screen is on the grid only while `resized` is not
  `"hidden"`.  `TerminalPrimaryComesBack` follows from the same invariant
  (`TerminalInv`), which says when the hidden grid is the one that entering hid.
  `TerminalResizeKeepsText` needs of it that rows have the grid's width, shown or in
  the history; the rest says where each row of the old grid is in the new one: `Grown`
  when rows come back from the history, `Shrunk` when empty rows leave at the bottom
  and others at the top.
  `TerminalDamageCoversChange` and `TerminalHistoryAppendOnly` rest on a second set of
  facts about the operators: `Drawn` (rows that differ are damaged), `Beside` (all rows
  but one are the same), `Lifted` (where rows stand after a scroll) and `Extended` (the
  history gained the first k rows).  They compose, and printing needs that: a pending
  wrap and a wide character that does not fit may scroll twice in one step
  (`WrappedFitted`), the second time by a row that was the screen's second
  (`ExtendedTwice`).  The attempt at a proof showed two cases in which the history does
  more than that, and the property excepts them: REP, and a wide character that goes
  round a region of one line, where the row pushed is the one it has just padded.
  `TerminalGlyphsStayWhole` needs no more of the invariant than the size of the grid and
  the place of the cursor, but a third set of facts: which operators map rows whose wide
  characters are whole to such rows (`Paired`, `AllPaired`).  The two that cut are the
  heart of it: `CutIsPaired` (a range of cells replaced after both of its ends are
  mended) and `PutIsPaired` (one character written into a row that is cut at both sides
  of it).  The attempt at a proof narrowed the exceptions of the property to one wrap: of
  a wide character, out of the last column, where it pads over a right half.
  Recursive functions (`Repeated`, `FlattenSeq` of the reflow) are reasoned about with
  `LeastNumber`: among the lengths at which a claim fails there is a least one.
* `InputModesInvariant`: `IInv` says that the tab is well-formed (the panes are the
  leaves of its tree, each with a screen whose cursor is on it), that the values of the
  modes are possible ones and copy mode's state is there exactly in copy mode, that with
  no border in motion and nothing unfitted every screen shown has its place's size, that
  a full screen pane has the focus, and that copy mode's cursor is inside unless it
  strayed. It rests on `LayoutProofs`: the trees that splits, removals and drags leave
  are trees, a neighbour is a pane, a place has a size. A command keeps its part of it
  (`KeyStep`: either it asks for fitting or the sizes are as before), and so does an
  event of up to two commands (`MouseEvent`).  `InputModesScreensFitLayout` needs that
  fitting gives each screen exactly the size of its place, whether rows are given up one
  by one, come back from the history or are cut anew at another width, in full screen
  and out of it. `InputModesCopiesTheSelection` holds of any selection and texts: the
  cells that `contains` selects in a row are an interval, and the part `get_text` takes
  is that interval. `InputModesSearchFindsAll`: `Tiles` says of the matches in a row,
  from any column on, that they are occurrences, apart, and that every occurrence begins
  inside one; rows are then joined one after the other (`FoundIn`). It speaks of the
  live rows, which are not those in view when the pane is scrolled back. That the
  matches are always of the present query needs that no other command, of more than
  thirty, touches it.
* The proofs about `Tab`, `Session`, `App` and `Layout` begin with the lemmas about lists
  that they need: what removal, insertion, swap and append do to positions, members and
  order.

Assumptions: the bounds are positive numbers, a parameter kept (`u16`) is no larger than
one being read (`u32`), the "none" values are not ids or files, text bytes are printable
ASCII, a snapshot on disk at the start is whole and its active tab one of its tabs, "no
pane" is no pane, drag or state of copy mode, lines of output are equally long and
pointers have natural coordinates, a user's sizes are among `Sizes`, painted screens are
proper and their cursors on the grid, a terminal has a natural number of columns and
rows, borders move by a whole number of cells, swap layouts are trees, and `u32::MAX`,
by which `swap_leaves` goes, is not the id of a pane.

Only model-checked:

* liveness under fairness (`EndsWithLastChild`, `DeadPanesLeave`, `BusyOutputRendered`,
  `CommandsGetSaved`, `EveryoneServed`, `CyclingVisitsAll`), which this prover does not
  reach; `EventLoop` states nothing else;
* `AnchorStays`.  Growing a pane by two rows or more takes lines out of the history in
  reverse order (section 5), and the line under the selection with them; the property
  excepts that, and the run has a pane that grows so.

## 5. Behaviour met while modelling

Of the tabs, the layout and the program:

* `focus_prev` (`tab.rs:352`) raises the floating pane it focuses and so moves it to
  the end of the list it cycles through: with two floating panes it goes back and
  forth between them and reaches no tiled pane.
* `close_floating_pane` (`tab.rs:795`) does not clear `fullscreen_pane`, which may
  then name a closed pane; `focus_pane` (`tab.rs:298`) accepts a floating pane while
  the floating panes are hidden.
* `toggle_previous_tab` (`session.rs:193`) uses an index that `new_tab`, `next_tab` and
  `prev_tab` do not record and that closing and moving tabs do not update.
* `apply_template` (`layout.rs:378`) with more leaves than panes: a leaf to be trimmed
  that is a child of the root stays, against the comment at `layout.rs:376`.
* `apply_template` renames leaf by leaf (`layout.rs:384`): a leaf of a swap layout, whose
  ids count from 100, that has the id of a pane of the tab lets the panes change order.
* `adjust_ratio` (`layout.rs:157`) changes the outermost split of the direction
  above the pane, not the nearest.  After nested splits and a resize of the terminal a
  pane may get no cell.  A chain of eleven or more panes (`swap_config.rs:186`) has
  ratios above 90%, which the limits cut down when such a split is resized: a pane
  asked to grow may then shrink.  The neighbour in a direction is the one with the nearest
  centre (`tab.rs:377`), so a small adjacent pane can be passed over.
* An agent's failed spawn (`ipc_handler.rs:181`) leaves the pane in the layout
  without a process; the pane can only be closed by command.
* `handle_dead_panes` (`event_loop.rs:364`) closes a dead id in the active tab,
  whichever tab it belongs to, and quits when the active tab has one pane: the exit
  of a shell in a background tab can end the program while another shell runs.
* `CloseActivePane` is described as quitting on the last pane (`command.rs:643`);
  the code only redraws.
* Output read less than a frame after a draw (`event_loop.rs:155`) stays undrawn until
  the next byte or event.  Closing a dead pane marks no row (`event_loop.rs:375`), so the
  panes that took its place are drawn as their own output marks them.
* Agents' changes and dead panes do not set `session_dirty` (`event_loop.rs:188`); only
  quitting saves them.  An auto-save that fails, or has no path to save to
  (`event_loop.rs:176`), takes the mark away: nothing is saved before the next command.

Of the screen:

* A padding cell of a wide character is not marked (`screen.rs:431`); the viewport's
  snap back marks no row; `render_all` clears the marks of background tabs too.
* Growing by two or more rows takes the lines out of the history in reverse order
  (`grid.rs:383`).  At another width it shows the last rows of all, empty ones too.
* A pane without a row or column panics on output (`grid.rs:211`).
* A resize does not fit the saved cursor of the other screen: leaving it with mode 47
  puts the cursor off the grid.  DECSTR and XTRESTORE change the mark of the alternate
  screen without swapping the grids.
* In origin mode CHA and HPA move the row by the top of the region.  Overprinting a
  padding cell, ICH, DCH, insert mode, margins and rectangles can split wide characters.
  ED 3, a resize and the switch of screens leave the viewport beyond the history.
* The alternate screen is reflowed when shown, although a comment says it is not.

Of the parser: `ESC \` abandons an OSC string instead of ending it (`parser.rs:105`);
0x9C inside UTF-8 text ends a string; a final byte right after DCS enters the data
state without a hook; ESC and CAN leave the data state without an unhook; a UTF-8
character in progress swallows ESC and CAN.

Of keys and mouse:

* A key without a meaning leaves the search although the comment at `keybindings.rs:261`
  says it is ignored. The search looks at live rows only (`command.rs:608`) and is not
  run again after output, a focus change or a resize. `README.md:203` and `search.rs:1`
  promise a search of the scrollback: the history is not searched, and while it is in
  view the matches are those of rows that are not.
* Copy mode keeps the history length of the moment it was entered and ignores the
  viewport, so the selection can name lines other than those shown; when the focus
  moves, the cursor stays where it was and yank takes text from the pane now active
  (`command.rs:440`).  A selection drifts when a full history drops lines.
* The selection is painted by runs of cells of one style: `render_row` joins them and
  `render.rs:152` inverts a whole run when one of its cells is selected, so that a word
  selected may light its row.  `mouse.rs:127` gives columns and `selection.rs:151` takes
  them for indices of characters; after a wide character, whose padding cell
  `row_text_full` leaves out (`grid.rs:677`), other characters are copied than pointed at.
* `handle_dead_panes` and `ToggleFullscreen` (`command.rs:188`) do not resize the screens
  that got another area, which only a command that asks for it does
  (`event_loop.rs:393`); `Resize` fits those of the active tab only (`command.rs:331`), so
  panes of other tabs have their old sizes when their tab is switched to.
* The release of any button ends a drag; a program that tracks the mouse may get a
  release without a press.

Of the daemon and the server:

* `pty_write_all` (`app.rs:129`) retries without end.  A shell that is blocked on its
  own output, which nobody reads meanwhile, stops the program for good: with
  `ShellEchoes = TRUE` and `PtyCap = 1`, `EveryoneServed` of `Daemon` fails.
* A frame cut by the 50 ms limit (`daemon.rs:336`) is lost and the rest misread; a
  client waiting for its reply may then wait for ever.  Capturing a pane
  (`daemon.rs:384`) takes its output away from attached clients, which the comment at
  `daemon.rs:197` does not allow for.  Large replies are written without a time limit;
  attaching resizes the session but not the PTYs (`daemon.rs:296`); dead children are
  never looked at, the daemon outlives its last shell.
* Starting tests, connects, removes and binds in steps (`server.rs:85`,
  `bins/emux/src/daemon.rs:85`): of two that start at once one loses its socket, and a
  shutdown removes whatever is under its name.  `rename_session` may rename over the
  socket of a live daemon.  Servers of one name share the snapshot and its temporary
  file.  These are the cases `raced` excepts.
* `maybe_auto_save` (`server.rs:506`) answers that it saved although the save failed; the
  mark stays, since `save_now` returns before it clears it.  `Attach` changes the size of
  the session and does not mark it (`server.rs:444`), so that a crash loses a size that a
  save would have kept; focus changes do not mark it either.  `spawn_terminal_for_pane`
  does not ask whether there is such a pane (`server.rs:627`): a pane made later finds
  the terminal under its id.
* The standalone program saves every session as "main" (`event_loop.rs:83`): a daemon
  that restores such a snapshot is called "main" whatever its socket is called.
  `KillPane` leaves the pane's terminal in `pane_terminals` (`server.rs:248`), which no
  later pane takes over because ids are not reused. A rename leaves the old snapshot
  behind. A restore gives one pane per tab. With several viewers the last size counts,
  not the smallest.

## 6. Not modelled

* `DaemonServer`'s own client handling: the program runs the loop of `Daemon`, whose
  clients are modelled.  Listing and killing daemons from the command line, which probe
  and remove socket files in the same way as `start`.
* Colours, character sets, clipboard and title strings, mouse and keyboard protocols,
  hyperlinks: data no guard of the screen depends on.
* Which rows a render draws and what it writes for them, the status bar, key tables,
  hints, regular expressions: formatting and string processing.
* Recording, windows and domains: not used by the program.  SSH transport, command
  line, upgrade: input and output only.
* Screens of the tabs in the background, which no resize reaches: `AppSharedIds` has what
  two tabs share, `InputModes` has one tab.  Wide characters under the mouse.  Swap layouts
  of more leaves than panes: the code keeps leaves it should trim (section 5).
* The comparison of file times in the config watcher; that a reload may come in any
  pass is in `EventLoop`.

## 7. Plan

1. `TabTree`: `Tab` over the real tree, shown to implement `Tab` (order as the leaves
   of the tree), with PTY sizes.
2. `InputModes` with two tabs, wide characters and reflow of long lines.
3. The starts of the command line (`list_live_sessions`, `cmd_kill`) beside `Server`.
