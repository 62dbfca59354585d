----------------------------- MODULE InputModes -----------------------------
(***************************************************************************)
(* What keys and the mouse do to the standalone program                    *)
(* (bins/emux/src/keybindings.rs, mouse.rs, command.rs): the input modes,  *)
(* copy mode's cursor, the search, the drag of a border and the selection  *)
(* of text, while the programs in the panes print and exit beneath them.   *)
(*                                                                         *)
(* app is the struct App: dispatch is a function of it and a command, as   *)
(* in the code.  The program has one tab, whose tree is that of module     *)
(* Layout: NewTab is left to module App, and the commands that switch or   *)
(* close tabs find no other.  No command opens a floating pane.  The lines *)
(* programs print are numbered, 0 is a blank one; none is wider than the   *)
(* narrowest pane, so that a new width moves no text between rows.         *)
(***************************************************************************)
EXTENDS Integers, Sequences, FiniteSets, SequencesExt, Selection, Search

CONSTANTS
  None,             \* Option::None
  Sizes,            \* the <<cols, rows>> of the pane area
  Text,             \* bound: the lines that are ever printed
  ScrollbackLimit,  \* DEFAULT_SCROLLBACK_LIMIT
  MaxPaneId,        \* bound: pane ids 0 .. MaxPaneId - 1 are ever given out
  MaxQuery,         \* bound: the length of a query
  Trackers,         \* bound: the panes whose programs ask for the mouse
  Users             \* bound: one user's keys, mouse buttons, <<col, row>>, Sizes and lines printed

PaneId == 0 .. MaxPaneId - 1

(* BorderDrag and CopyModeState. *)
Points == [row : Nat, col : Nat]
Selections == [start : Points, end : Points, mode : SelectionMode]
BorderDrag == [pane_id : PaneId, vertical : BOOLEAN, last : Nat \X Nat]
CopyModeState == [row : Nat, col : Nat, scrollback_len : Nat, selection : Selections \cup {None}]

ASSUME InputModesAssumption ==
  /\ Sizes # {} /\ Sizes \subseteq (Nat \ {0}) \X (Nat \ {0})
  /\ ScrollbackLimit \in Nat
  /\ MaxPaneId \in Nat \ {0}
  /\ Text \in Seq(Seq(STRING))
  /\ \A i, j \in DOMAIN Text : Len(Text[i]) = Len(Text[j])
  /\ \A u \in Users : u.sizes \subseteq Sizes /\ u.lines \in 0 .. Len(Text)
  /\ \A u \in Users : u.buttons \subseteq {"Left", "Right"} /\ u.points \subseteq Nat \X Nat
  /\ None \notin PaneId \cup BorderDrag \cup CopyModeState
L == INSTANCE Layout WITH
       Ids <- PaneId, Sentinel <- None, Amounts <- {}, Templates <- {}, root <- None, size <- None

VARIABLES
  app,       \* App
  user,      \* the one at the terminal, a member of Users
  printed,   \* how many lines programs have printed
  held,      \* the mouse buttons held down
  anchor,    \* history: the line pressed on where the mouse selection began
  strayed,   \* history: copy mode lost its pane, or the pane its size
  unfitted   \* history: the places changed without the screens being fitted

vars == <<app, user, printed, held, anchor, strayed, unfitted>>

-----------------------------------------------------------------------------
(* A pane's screen *)

NewScreen(cols, rows) ==
  [cols |-> cols, sb |-> <<>>, lines |-> [i \in 1..rows |-> 0], row |-> 0, off |-> 0,
   tracking |-> FALSE]

Rows(s) == Len(s.lines)
Trim(sb) == SubSeq(sb, Len(sb) - Least(Len(sb), ScrollbackLimit) + 1, Len(sb))

TextOf(n) == IF n = 0 THEN <<>> ELSE Text[n]
Padded(n, cols) == [c \in 1..cols |-> IF c <= Len(TextOf(n)) THEN TextOf(n)[c] ELSE " "]

(* All rows of the screen, the oldest first: row r + 1 is absolute row r. *)
AllLines(s) == s.sb \o s.lines
AllTexts(s) == [i \in DOMAIN AllLines(s) |-> Padded(AllLines(s)[i], s.cols)]

(* A line and the newline behind it. *)
PrintLine(s, n) ==
  LET written == [s EXCEPT !.lines = [@ EXCEPT ![s.row + 1] = n], !.off = 0]
  IN  IF s.row < Rows(s) - 1 THEN [written EXCEPT !.row = @ + 1]
      ELSE [written EXCEPT !.sb = Trim(Append(@, written.lines[1])),
                           !.lines = Append(Tail(@), 0)]

Shrink(s) ==
  IF Last(s.lines) = 0
    THEN [s EXCEPT !.lines = Front(@), !.row = Least(@, Most(Rows(s) - 2, 0))]
    ELSE [s EXCEPT !.sb = Trim(Append(@, s.lines[1])), !.lines = Tail(@), !.row = Most(@ - 1, 0)]

(* The lines come back from the history newest first. *)
GrowBy(s, n) ==
  LET k == Least(n, Len(s.sb))
      kept == Len(s.sb) - k
  IN  [s EXCEPT !.sb = SubSeq(@, 1, kept), !.row = @ + k,
                !.lines = Reverse(SubSeq(s.sb, kept + 1, Len(s.sb))) \o @ \o [i \in 1..(n - k) |-> 0]]

(* At another width the last rows of all are shown, empty ones too. *)
Reflowed(s, rows) ==
  LET above == Most(Len(AllLines(s)) - rows, 0)
  IN  [s EXCEPT !.sb = Trim(SubSeq(AllLines(s), 1, above)),
                !.lines = SubSeq(AllLines(s), above + 1, Len(AllLines(s))),
                !.row = Most(Len(s.sb) + @ - above, 0)]

(* One row after the other is given up until there are that many. *)
ShrinkTo(s, rows) ==
  LET excess == Rows(s) - rows
      shrunk[i \in 0 .. excess] == IF i = 0 THEN s ELSE Shrink(shrunk[i - 1])
  IN  shrunk[excess]

FitRows(s, rows) == IF rows > Rows(s) THEN GrowBy(s, rows - Rows(s)) ELSE ShrinkTo(s, rows)

(* Screen::resize.  The viewport offset stays what it is. *)
ResizeScreen(s, cols, rows) ==
  LET t == FitRows(IF cols = s.cols THEN s ELSE Reflowed(s, rows), rows)
  IN  [t EXCEPT !.cols = cols, !.row = Least(@, Most(rows - 1, 0))]

ScrollViewportUp(s, n) == [s EXCEPT !.off = Least(@ + n, Len(s.sb))]
ScrollViewportDown(s, n) == [s EXCEPT !.off = Most(@ - n, 0)]

(* Screen::viewport_row: the line shown in a row of the pane. *)
ShownLine(s, row) ==
  IF s.off = 0 THEN s.lines[row + 1]
  ELSE AllLines(s)[Most(Len(s.sb) + row - s.off, 0) + 1]

-----------------------------------------------------------------------------
(* The tab *)

Panes(a) == DOMAIN a.screens
Screen(a) == a.screens[a.active]

(* Tab::compute_positions: a full screen pane has the whole area, and the   *)
(* others have no place.                                                    *)
WholeArea(a) == [id |-> a.fullscreen, col |-> 0, row |-> 0, cols |-> a.size[1], rows |-> a.size[2]]
Positions(a) ==
  IF a.fullscreen = None THEN L!compute_positions(a.root, a.size) ELSE <<WholeArea(a)>>
Shown(a) == IF a.fullscreen = None THEN Panes(a) ELSE {a.fullscreen}
PositionOf(a, id) ==
  IF a.fullscreen = None THEN L!PositionOf(a.root, a.size, id) ELSE WholeArea(a)

(* sync_pty_sizes: the screens of the panes shown get the size of their     *)
(* place.                                                                   *)
Synced(a, id) == LET p == PositionOf(a, id) IN ResizeScreen(a.screens[id], p.cols, p.rows)
sync_pty_sizes(a) ==
  [a EXCEPT !.screens = [id \in Panes(a) |->
     IF id \in Shown(a) THEN Synced(a, id) ELSE a.screens[id]]]

ToggleFullscreen(a) == [a EXCEPT !.fullscreen = IF @ = None THEN a.active ELSE None]

(* Tab::split_pane and the PaneState of the new pane.  Full screen is left  *)
(* before anything is asked, so also when the pane cannot be split.         *)
dispatch_split_pane(a, direction) ==
  LET root == L!SplitLeaf(a.root, a.active, a.next, direction)
      p == L!PositionOf(root, a.size, a.next)
  IN  IF a.next = MaxPaneId \/ ~L!can_split(a.root, a.size, a.active, direction)
      THEN [a EXCEPT !.fullscreen = None]
      ELSE [a EXCEPT !.root = root, !.active = a.next, !.next = @ + 1, !.fit = TRUE,
                     !.fullscreen = None,
                     !.screens = [id \in Panes(a) \cup {a.next} |->
                                    IF id = a.next THEN NewScreen(p.cols, p.rows) ELSE a.screens[id]]]

(* Tab::close_pane and the removal from App::panes. *)
ClosePane(a, id) ==
  LET root == L!RemovePane(a.root, id)
  IN  [a EXCEPT !.root = root,
                !.active = IF @ = id THEN Head(L!pane_ids(root)) ELSE @,
                !.fullscreen = IF @ = id THEN None ELSE @,
                !.screens = [i \in Panes(a) \ {id} |-> a.screens[i]]]

dispatch_close_active_pane(a) ==
  IF Cardinality(Panes(a)) > 1 THEN [ClosePane(a, a.active) EXCEPT !.fit = TRUE] ELSE a

(* focus_direction and focus_pane.  Another pane's focus ends full screen.  *)
Focus(a, id) == [a EXCEPT !.active = id, !.fullscreen = None]
FocusOneOf(a, N) == IF N = {} THEN a ELSE Focus(a, CHOOSE id \in N : TRUE)
FocusPane(a, id) == IF id = a.active THEN a ELSE Focus(a, id)
FocusDirection(a, direction) ==
  FocusOneOf(a, L!find_neighbor_in_direction(a.root, a.size, a.active, direction))

resize_pane(a, id, axis, amount) ==
  LET total == IF axis = "Vertical" THEN a.size[1] ELSE a.size[2]
  IN  IF id \notin Panes(a) \/ amount = 0 THEN a
      ELSE [a EXCEPT !.root = L!adjust_ratio(@, id, axis, L!RatioDelta(amount, total))]

-----------------------------------------------------------------------------
(* Search *)

NoSearch == [query |-> <<>>, matches |-> <<>>, current |-> NoMatch]

LiveTexts(s) == [r \in 1..Rows(s) |-> TextOf(s.lines[r])]

(* run_search: in the rows of the screen itself, whatever part of the      *)
(* history the viewport shows.                                             *)
FreshSearch(query, matches) ==
  [query |-> query, matches |-> matches, current |-> IF matches = <<>> THEN NoMatch ELSE 0]

run_search(a) ==
  [a EXCEPT !.search_state =
     IF a.search_query = <<>> THEN NoSearch
     ELSE FreshSearch(a.search_query, find_all_matches(LiveTexts(Screen(a)), a.search_query))]

EnterSearchMode(a) ==
  [a EXCEPT !.input_mode = "Search", !.search_query = <<>>, !.search_state = NoSearch,
            !.search_direction_active = FALSE]

SearchAppendChar(a, c) ==
  [run_search([a EXCEPT !.search_query = Append(@, c)]) EXCEPT !.search_direction_active = TRUE]

(* Mutant: the matches of the longer query stay. *)
SearchDeleteChar_keeps_matches(a) ==
  [a EXCEPT !.search_query = IF @ = <<>> THEN @ ELSE Front(@)]

SearchDeleteChar(a) == run_search([a EXCEPT !.search_query = IF @ = <<>> THEN @ ELSE Front(@)])

SearchNextMatch(a) ==
  [a EXCEPT !.search_state.current = next_match_index(@, Len(a.search_state.matches))]

SearchPrevMatch(a) ==
  [a EXCEPT !.search_state.current = prev_match_index(@, Len(a.search_state.matches))]

-----------------------------------------------------------------------------
(* Copy mode *)

EnterCopyMode(a) ==
  [a EXCEPT !.input_mode = "Copy",
            !.copy_mode = [row |-> Screen(a).row, col |-> 0, scrollback_len |-> Len(Screen(a).sb),
                           selection |-> None]]

ExitCopyMode(a) == [a EXCEPT !.input_mode = "Normal", !.copy_mode = None]

(* Mutant: the last row is not the end. *)
MoveCursor_past_bottom(command, row, col, s) ==
  IF command = "CopyMoveDown" THEN <<row + 1, col>> ELSE <<row, col>>

(* Moves that go right or down stop at the edge of the active pane, those   *)
(* that go left or up at 0.                                                 *)
MoveCursor(command, row, col, s) ==
  LET half == Rows(s) \div 2
      bottom == Most(Rows(s) - 1, 0)
      end == Most(s.cols - 1, 0)
  IN  CASE command = "CopyMoveLeft" -> <<row, Most(col - 1, 0)>>
        [] command = "CopyMoveDown" -> <<Least(row + 1, bottom), col>>
        [] command = "CopyMoveUp" -> <<Most(row - 1, 0), col>>
        [] command = "CopyMoveRight" -> <<row, Least(col + 1, end)>>
        [] command = "CopyStartOfLine" -> <<row, 0>>
        [] command = "CopyEndOfLine" -> <<row, end>>
        [] command = "CopyGotoTop" -> <<0, col>>
        [] command = "CopyGotoBottom" -> <<bottom, col>>
        [] command = "CopyHalfPageUp" -> <<Most(row - half, 0), col>>
        [] command = "CopyHalfPageDown" -> <<Least(row + half, bottom), col>>

CopyMoves ==
  {"CopyMoveLeft", "CopyMoveDown", "CopyMoveUp", "CopyMoveRight", "CopyStartOfLine",
   "CopyEndOfLine", "CopyGotoTop", "CopyGotoBottom", "CopyHalfPageUp", "CopyHalfPageDown"}

CopyPoint(cm) == Point(cm.scrollback_len + cm.row, cm.col)

copy_move(a, command) ==
  LET to == MoveCursor(command, a.copy_mode.row, a.copy_mode.col, Screen(a))
      cm == [a.copy_mode EXCEPT !.row = to[1], !.col = to[2]]
      moved == [cm EXCEPT !.selection = IF @ = None THEN @ ELSE Extend(@, CopyPoint(cm))]
  IN  [a EXCEPT !.copy_mode = moved]

CopyToggleSelection(a) ==
  [a EXCEPT !.copy_mode.selection =
     IF @ = None THEN SelectFrom(CopyPoint(a.copy_mode), "Normal") ELSE None]

(* The text comes out of the pane that is active now. *)
CopyYank(a) ==
  LET sel == a.copy_mode.selection
  IN  [ExitCopyMode(a) EXCEPT !.sent =
         IF sel = None THEN @
         ELSE IF get_text(sel, AllTexts(Screen(a))) = <<<<>>>> THEN @
         ELSE @ \cup {<<"clipboard", a.active>>}]

-----------------------------------------------------------------------------
(* The mouse *)

ColOf(at) == at[1]
RowOf(at) == at[2]

Covers(p, at) ==
  /\ ColOf(at) \in p.col .. p.col + p.cols - 1
  /\ RowOf(at) \in p.row .. p.row + p.rows - 1

(* The first pane of the list that has the cell, or None. *)
PaneAt(ps, at) ==
  LET under == {i \in DOMAIN ps : Covers(ps[i], at)}
  IN  IF under = {} THEN None ELSE ps[Min(under)].id

pane_at_position(a, at) == PaneAt(Positions(a), at)

(* A pane's last column is a border when a pane begins in the next one,     *)
(* wherever its rows are; the same with its last row.                       *)
OnRightBorder(ps, p, at) ==
  /\ Covers(p, at)
  /\ ColOf(at) = p.col + p.cols - 1
  /\ \E q \in ToSet(ps) : q.id # p.id /\ q.col = p.col + p.cols

OnBottomBorder(ps, p, at) ==
  /\ Covers(p, at)
  /\ RowOf(at) = p.row + p.rows - 1
  /\ \E q \in ToSet(ps) : q.id # p.id /\ q.row = p.row + p.rows

(* The drag that a press there begins, or None. *)
BorderAt(ps, at) ==
  LET hits == {i \in DOMAIN ps : OnRightBorder(ps, ps[i], at) \/ OnBottomBorder(ps, ps[i], at)}
      p == ps[Min(hits)]
  IN  IF hits = {} THEN None
      ELSE [pane_id |-> p.id, vertical |-> OnRightBorder(ps, p, at), last |-> at]

detect_border_click(a, at) == BorderAt(Positions(a), at)

(* Mutant: the pointer's row counts from the bottom of the history. *)
PointAt_unscrolled(a, id, at) ==
  LET p == PositionOf(a, id)
  IN  Point(Len(a.screens[id].sb) + Most(RowOf(at) - p.row, 0), Most(ColOf(at) - p.col, 0))

(* The absolute row and the column under the pointer. *)
PointAt(a, id, at) ==
  LET p == PositionOf(a, id)
      s == a.screens[id]
  IN  Point(Most(Len(s.sb) + Most(RowOf(at) - p.row, 0) - s.off, 0), Most(ColOf(at) - p.col, 0))

(* A program gets the mouse when it asked for it. *)
ForwardTo(a, id) ==
  IF id = None THEN <<>>
  ELSE IF a.screens[id].tracking THEN <<<<"ForwardMouseToPty", id>>>> ELSE <<>>

push_forward_mouse(a, at) == ForwardTo(a, pane_at_position(a, at))

(* A press in the pane: it gets the focus, and the press or a selection. *)
PressIn(a, id, at) ==
  LET focus == IF id # a.active THEN <<<<"FocusPane", id>>>> ELSE <<>>
  IN  IF id = None THEN <<>>
      ELSE focus \o (IF a.screens[id].tracking THEN ForwardTo(a, id)
                     ELSE <<<<"StartMouseSelection", id, PointAt(a, id, at)>>>>)

PressOn(a, drag, at) ==
  IF drag # None THEN <<<<"StartBorderDrag", drag>>>> ELSE PressIn(a, pane_at_position(a, at), at)

ResolveLeftDown(a, at) == PressOn(a, detect_border_click(a, at), at)

(* Mutant: the release counts only on a pane. *)
ResolveUp_on_pane(a, at) ==
  CASE pane_at_position(a, at) = None -> <<>>
    [] a.border_drag # None -> <<<<"EndBorderDrag">>>>
    [] a.mouse_selection # None -> <<<<"FinalizeMouseSelection">>>>
    [] OTHER -> push_forward_mouse(a, at)

(* Any button's release ends what the left one began. *)
ResolveUp(a, at) ==
  CASE a.border_drag # None -> <<<<"EndBorderDrag">>>>
    [] a.border_drag = None /\ a.mouse_selection # None -> <<<<"FinalizeMouseSelection">>>>
    [] OTHER -> push_forward_mouse(a, at)

ResolveLeftDrag(a, at) ==
  CASE a.border_drag # None -> <<<<"ContinueBorderDrag", at>>>>
    [] a.border_drag = None /\ a.mouse_selection # None ->
         IF a.mouse_selection.pane_id \in Shown(a)
           THEN <<<<"ExtendMouseSelection", PointAt(a, a.mouse_selection.pane_id, at)>>>>
           ELSE <<>>
    [] OTHER -> push_forward_mouse(a, at)

ScrollIn(a, id, command) ==
  IF id = None THEN <<>>
  ELSE IF a.screens[id].tracking THEN ForwardTo(a, id) ELSE <<<<command, id>>>>

ResolveScroll(a, at, command) == ScrollIn(a, pane_at_position(a, at), command)

resolve_mouse(a, kind, button, at) ==
  CASE kind = "Down" /\ button = "Left" -> ResolveLeftDown(a, at)
    [] kind = "Up" -> ResolveUp(a, at)
    [] kind = "Drag" /\ button = "Left" -> ResolveLeftDrag(a, at)
    [] kind = "ScrollUp" -> ResolveScroll(a, at, "ScrollPaneUp")
    [] kind = "ScrollDown" -> ResolveScroll(a, at, "ScrollPaneDown")
    [] OTHER -> push_forward_mouse(a, at)

ContinueBorderDrag(a, at) ==
  LET drag == a.border_drag
      moved == IF drag.vertical
                 THEN resize_pane(a, drag.pane_id, "Vertical", ColOf(at) - ColOf(drag.last))
                 ELSE resize_pane(a, drag.pane_id, "Horizontal", RowOf(at) - RowOf(drag.last))
  IN  [moved EXCEPT !.border_drag.last = at]

(* Mutant: the screens keep the sizes they had before the drag. *)
EndBorderDrag_unfitted(a) == [a EXCEPT !.border_drag = None]

EndBorderDrag(a) == [a EXCEPT !.border_drag = None, !.fit = TRUE]

FinalizeMouseSelection(a) ==
  LET ms == a.mouse_selection
      some == ms.pane_id \in Panes(a) /\ get_text(ms.selection, AllTexts(a.screens[ms.pane_id])) # <<<<>>>>
  IN  [a EXCEPT !.mouse_selection = None,
                !.sent = IF some THEN @ \cup {<<"clipboard", ms.pane_id>>} ELSE @]

-----------------------------------------------------------------------------
(* Keys *)

Binding ==
  [split_right |-> <<"SplitPane", "Vertical">>, split_down |-> <<"SplitPane", "Horizontal">>,
   close_pane |-> <<"CloseActivePane">>, focus_left |-> <<"FocusDirection", "Left">>,
   focus_right |-> <<"FocusDirection", "Right">>, next_tab |-> <<"NextTab">>,
   prev_tab |-> <<"PrevTab">>, close_tab |-> <<"CloseTab">>,
   toggle_fullscreen |-> <<"ToggleFullscreen">>, toggle_float |-> <<"ToggleFloat">>,
   search |-> <<"EnterSearchMode">>,
   scroll_up |-> <<"ScrollUp">>, scroll_down |-> <<"ScrollDown">>, copy_mode |-> <<"EnterCopyMode">>]

resolve_normal_key(key) ==
  IF key \in DOMAIN Binding THEN Binding[key] ELSE <<"ForwardKeyToPty">>

(* n and N move between matches once something was typed, also after it was *)
(* deleted again and more typed.                                            *)
resolve_search_key(a, key) ==
  LET moving == a.search_query # <<>> /\ a.search_direction_active
  IN  CASE key \in {"Esc", "Tab"} -> <<"ExitSearchMode">>
        [] key = "Backspace" -> <<"SearchDeleteChar">>
        [] key = "n" /\ moving -> <<"SearchNextMatch">>
        [] key = "N" /\ moving -> <<"SearchPrevMatch">>
        [] OTHER -> <<"SearchAppendChar", key>>

CopyKey ==
  [h |-> "CopyMoveLeft", j |-> "CopyMoveDown", k |-> "CopyMoveUp", l |-> "CopyMoveRight",
   Zero |-> "CopyStartOfLine", Dollar |-> "CopyEndOfLine", g |-> "CopyGotoTop",
   G |-> "CopyGotoBottom", CtrlU |-> "CopyHalfPageUp", CtrlD |-> "CopyHalfPageDown",
   v |-> "CopyToggleSelection", y |-> "CopyYank"]

resolve_copy_key(key) ==
  IF key \in DOMAIN CopyKey THEN <<CopyKey[key]>> ELSE <<"ExitCopyMode">>

(* The keys that are told apart in each mode. *)
SearchKeys == {"Esc", "Tab", "Backspace", "n", "N", "a"}
KeysIn(mode) ==
  user.keys \cap CASE mode = "Normal" -> DOMAIN Binding \cup {"a"}
                   [] mode = "Search" -> SearchKeys
                   [] mode = "Copy" -> DOMAIN CopyKey \cup {"Esc"}

resolve_keybinding(a, key) ==
  CASE a.input_mode = "Normal" -> resolve_normal_key(key)
    [] a.input_mode = "Search" -> resolve_search_key(a, key)
    [] a.input_mode = "Copy" -> resolve_copy_key(key)

-----------------------------------------------------------------------------
(* Commands *)

ScrollPane(a, id, moved) == [a EXCEPT !.screens[id] = moved]

ForwardKeyToPty(a) ==
  [a EXCEPT !.screens[a.active].off = 0, !.sent = @ \cup {<<"key", a.active>>}]

(* Command::Resize: the screens of the tab follow, and copy mode's cursor   *)
(* is kept inside the active one.                                           *)
ClampCopyCursor(a) ==
  LET clamped == [a.copy_mode EXCEPT !.row = Least(@, Most(Rows(Screen(a)) - 1, 0)),
                                     !.col = Least(@, Most(Screen(a).cols - 1, 0))]
  IN  [a EXCEPT !.copy_mode = IF @ = None THEN None ELSE clamped]

Resize(a, size) == ClampCopyCursor(sync_pty_sizes([a EXCEPT !.size = size, !.fit = TRUE]))

half_page(s) == Most(Rows(s) \div 2, 1)
WHEEL_LINES == 3

(* With one tab and no floating pane these change nothing that is kept here. *)
NoOtherTabNorFloat == {"NextTab", "PrevTab", "CloseTab", "ToggleFloat"}

dispatch(a, c) ==
  CASE c[1] = "SplitPane" -> dispatch_split_pane(a, c[2])
    [] c[1] = "CloseActivePane" -> dispatch_close_active_pane(a)
    [] c[1] = "FocusDirection" -> FocusDirection(a, c[2])
    [] c[1] = "ToggleFullscreen" -> ToggleFullscreen(a)
    [] c[1] \in NoOtherTabNorFloat -> a
    [] c[1] = "ScrollUp" -> ScrollPane(a, a.active, ScrollViewportUp(Screen(a), half_page(Screen(a))))
    [] c[1] = "ScrollDown" -> ScrollPane(a, a.active, ScrollViewportDown(Screen(a), half_page(Screen(a))))
    [] c[1] = "EnterSearchMode" -> EnterSearchMode(a)
    [] c[1] = "ExitSearchMode" -> [a EXCEPT !.input_mode = "Normal"]
    [] c[1] = "SearchAppendChar" -> SearchAppendChar(a, c[2])
    [] c[1] = "SearchDeleteChar" -> SearchDeleteChar(a)
    [] c[1] = "SearchNextMatch" -> SearchNextMatch(a)
    [] c[1] = "SearchPrevMatch" -> SearchPrevMatch(a)
    [] c[1] = "EnterCopyMode" -> EnterCopyMode(a)
    [] c[1] = "ExitCopyMode" -> ExitCopyMode(a)
    [] c[1] \in CopyMoves -> copy_move(a, c[1])
    [] c[1] = "CopyToggleSelection" -> CopyToggleSelection(a)
    [] c[1] = "CopyYank" -> CopyYank(a)
    [] c[1] = "ForwardKeyToPty" -> ForwardKeyToPty(a)
    [] c[1] = "ForwardPaste" -> [a EXCEPT !.sent = @ \cup {<<"paste", a.active>>}]
    [] c[1] = "FocusPane" -> FocusPane(a, c[2])
    [] c[1] = "StartBorderDrag" -> [a EXCEPT !.border_drag = c[2]]
    [] c[1] = "ContinueBorderDrag" -> ContinueBorderDrag(a, c[2])
    [] c[1] = "EndBorderDrag" -> EndBorderDrag(a)
    [] c[1] = "StartMouseSelection" ->
         [a EXCEPT !.mouse_selection = [pane_id |-> c[2], selection |-> SelectFrom(c[3], "Normal")]]
    [] c[1] = "ExtendMouseSelection" -> [a EXCEPT !.mouse_selection.selection = Extend(@, c[2])]
    [] c[1] = "FinalizeMouseSelection" -> FinalizeMouseSelection(a)
    [] c[1] = "ForwardMouseToPty" -> [a EXCEPT !.sent = @ \cup {<<"mouse", c[2]>>}]
    [] c[1] = "ScrollPaneUp" -> ScrollPane(a, c[2], ScrollViewportUp(a.screens[c[2]], WHEEL_LINES))
    [] c[1] = "ScrollPaneDown" -> ScrollPane(a, c[2], ScrollViewportDown(a.screens[c[2]], WHEEL_LINES))
    [] c[1] = "Resize" -> Resize(a, c[2])

(* execute_side_effects: after a command that changed the layout the        *)
(* screens are fitted to it.                                                *)
execute_side_effects(a) == IF a.fit THEN sync_pty_sizes(a) ELSE a
Perform(a, c) == execute_side_effects(dispatch(a, c))

(* What one event sent and fitted is forgotten at the next. *)
Fresh(a) == [a EXCEPT !.sent = {}, !.fit = FALSE]

(* The commands of one event, in their order. *)
After(commands) ==
  LET done[i \in 0 .. Len(commands)] ==
        IF i = 0 THEN Fresh(app) ELSE Perform(done[i - 1], commands[i])
  IN  done[Len(commands)]

-----------------------------------------------------------------------------
Init ==
  /\ user \in Users
  /\ \E size \in user.sizes :
       app = [root |-> L!Leaf(0), size |-> size, next |-> 1, active |-> 0, fullscreen |-> None,
              screens |-> [id \in {0} |-> NewScreen(size[1], size[2])],
              input_mode |-> "Normal", search_query |-> <<>>, search_state |-> NoSearch,
              search_direction_active |-> FALSE, copy_mode |-> None, border_drag |-> None,
              mouse_selection |-> None, sent |-> {}, fit |-> FALSE]
  /\ printed = 0
  /\ held = {}
  /\ anchor = 0
  /\ strayed = FALSE
  /\ unfitted = FALSE

(* The oldest line of the pane selected in went: rows count from the next.  *)
(* Of blank ones it cannot be told which is the oldest now.                 *)
Shifted ==
  LET id == app.mouse_selection.pane_id
      old == AllLines(app.screens[id])
      new == AllLines(app'.screens[id])
  IN  /\ app.mouse_selection # None
      /\ id \in DOMAIN app.screens \cap DOMAIN app'.screens
      /\ \/ Head(old) # Head(new)
         \/ Head(old) = 0 /\ old # new /\ Len(app'.screens[id].sb) = ScrollbackLimit

(* The pane selected in takes back the line of its history pressed on, and *)
(* another: they come in reverse.                                          *)
Reversed ==
  LET id == app.mouse_selection.pane_id
      s == app.screens[id]
      t == app'.screens[id]
  IN  /\ app.mouse_selection # None
      /\ id \in DOMAIN app.screens \cap DOMAIN app'.screens
      /\ s.cols = t.cols /\ Rows(t) > Rows(s) + 1
      /\ Len(s.sb) > 1 /\ anchor \in ToSet(s.sb)

Refitted ==
  LET s == app.screens[app.active]
      t == app'.screens[app'.active]
  IN  Rows(s) # Rows(t) \/ s.cols # t.cols

(* The history: pressed is the line a selection begins on, or None.         *)
Remember(pressed, resized, died) ==
  /\ anchor' = CASE app'.mouse_selection = None -> 0
                 [] app'.mouse_selection # None /\ pressed # None -> pressed
                 [] OTHER -> IF Shifted \/ Reversed THEN 0 ELSE anchor
  /\ strayed' = /\ app.copy_mode # None
                /\ app'.copy_mode # None
                /\ strayed \/ app'.active # app.active \/ (~resized /\ Refitted)
  /\ unfitted' = (~app'.fit /\ (unfitted \/ died \/ app'.fullscreen # app.fullscreen))

-----------------------------------------------------------------------------
(* Terminal events *)

KeyPress(key) ==
  /\ Len(app.search_query) < MaxQuery \/ resolve_keybinding(app, key)[1] # "SearchAppendChar"
  /\ app' = After(<<resolve_keybinding(app, key)>>)
  /\ Remember(None, FALSE, FALSE)
  /\ UNCHANGED <<user, printed, held>>

Paste ==
  /\ app' = After(<<<<"ForwardPaste">>>>)
  /\ Remember(None, FALSE, FALSE)
  /\ UNCHANGED <<user, printed, held>>

(* The line under the pointer, when the press begins a selection. *)
LineUnder(commands, at) ==
  LET id == pane_at_position(app, at)
      row == RowOf(at) - PositionOf(app, id).row
  IN  CASE commands = <<>> -> None
        [] commands # <<>> /\ Last(commands)[1] # "StartMouseSelection" -> None
        [] OTHER -> IF row < Rows(app.screens[id]) THEN ShownLine(app.screens[id], row) ELSE 0

MousePress(button, at) ==
  LET commands == resolve_mouse(app, "Down", button, at) IN
  /\ button \notin held
  /\ held' = held \cup {button}
  /\ app' = After(commands)
  /\ Remember(LineUnder(commands, at), FALSE, FALSE)
  /\ UNCHANGED <<user, printed>>

MouseRelease(button, at) ==
  /\ button \in held
  /\ held' = held \ {button}
  /\ app' = After(resolve_mouse(app, "Up", button, at))
  /\ Remember(None, FALSE, FALSE)
  /\ UNCHANGED <<user, printed>>

MouseDrag(button, at) ==
  /\ button \in held
  /\ app' = After(resolve_mouse(app, "Drag", button, at))
  /\ Remember(None, FALSE, FALSE)
  /\ UNCHANGED <<user, printed, held>>

MouseWheel(kind, at) ==
  /\ app' = After(resolve_mouse(app, kind, "None", at))
  /\ Remember(None, FALSE, FALSE)
  /\ UNCHANGED <<user, printed, held>>

TerminalResize(size) ==
  /\ size # app.size
  /\ app' = After(<<<<"Resize", size>>>>)
  /\ Remember(None, TRUE, FALSE)
  /\ UNCHANGED <<user, printed, held>>

-----------------------------------------------------------------------------
(* The programs in the panes *)

(* Grid::cell_mut panics in a pane without a cell. *)
HasCell(s) == Rows(s) > 0 /\ s.cols > 0

Output(id) ==
  /\ printed < user.lines
  /\ printed' = printed + 1
  /\ id \in Panes(app)
  /\ HasCell(app.screens[id])
  /\ app' = [Fresh(app) EXCEPT !.screens[id] = PrintLine(@, printed + 1)]
  /\ Remember(None, FALSE, FALSE)
  /\ UNCHANGED <<user, held>>

TrackMouse(id) ==
  /\ id \in Panes(app) \cap Trackers
  /\ app' = [Fresh(app) EXCEPT !.screens[id] = [@ EXCEPT !.tracking = TRUE, !.off = 0]]
  /\ Remember(None, FALSE, FALSE)
  /\ UNCHANGED <<user, printed, held>>

(* handle_dead_panes: the pane goes, the screens of the others are not      *)
(* fitted.  The end of the last one ends the program.                       *)
PaneDies(id) ==
  /\ id \in Panes(app)
  /\ Cardinality(Panes(app)) > 1
  /\ app' = ClosePane(Fresh(app), id)
  /\ Remember(None, FALSE, TRUE)
  /\ UNCHANGED <<user, printed, held>>

Next ==
  \/ \E key \in KeysIn(app.input_mode) : KeyPress(key)
  \/ Paste
  \/ \E button \in user.buttons, at \in user.points :
        \/ MousePress(button, at)
        \/ MouseRelease(button, at)
        \/ MouseDrag(button, at)
  \/ \E kind \in {"ScrollUp", "ScrollDown"}, at \in user.points : MouseWheel(kind, at)
  \/ \E size \in user.sizes : TerminalResize(size)
  \/ \E id \in PaneId : Output(id) \/ TrackMouse(id) \/ PaneDies(id)

Spec == Init /\ [][Next]_vars

-----------------------------------------------------------------------------
(* command.rs:496-530.  Once the left button is up neither a border is      *)
(* dragged nor text selected, wherever it was released and whatever went on *)
(* in between, and at no time are both.                                     *)
ReleaseEndsDrag ==
  /\ "Left" \notin held => app.border_drag = None /\ app.mouse_selection = None
  /\ app.border_drag = None \/ app.mouse_selection = None

(* operations.rs:7.  The screen of every pane that is shown has the size of *)
(* its place, except while a border is dragged, and, until the screens are  *)
(* fitted the next time, after a pane died and after full screen was        *)
(* entered or left.                                                         *)
ScreensFitLayout ==
  app.border_drag = None /\ ~unfitted =>
    \A id \in Shown(app) :
      /\ app.screens[id].cols = PositionOf(app, id).cols
      /\ Rows(app.screens[id]) = PositionOf(app, id).rows

Selecting == app.mouse_selection # None /\ app.mouse_selection.pane_id \in Panes(app)

(* mouse.rs:129.  The selection goes on naming the line that was pressed    *)
(* on, in a pane scrolled back too, while the program prints, the view is   *)
(* scrolled and the pane resized, until the history loses its oldest line,  *)
(* the line is overwritten, or the pane grows by several rows and takes     *)
(* lines of its history back in reverse (grid.rs:383-388).                  *)
AnchorStays ==
  Selecting /\ anchor # 0 =>
    LET lines == AllLines(app.screens[app.mouse_selection.pane_id])
    IN  anchor \in ToSet(lines) => lines[app.mouse_selection.selection.start.row + 1] = anchor

(* The text of the selected cells, from left to right. *)
SelectedText(sel, texts) ==
  LET o == ordered(sel)
      Taken(row) ==
        LET text == row_full_text(texts, row)
            cells == {c \in DOMAIN text : contains(sel, row, c - 1)}
        IN  [k \in 1 .. Cardinality(cells) |->
               text[CHOOSE c \in cells : Cardinality({d \in cells : d <= c}) = k]]
  IN  [i \in 1 .. o.end.row - o.begin.row + 1 |-> TrimEnd(Taken(o.begin.row + i - 1))]

(* selection.rs:103-183.  get_text copies the cells that contains says are  *)
(* selected and no others, for either kind of selection, forwards and       *)
(* backwards, off the edges too, in rows of characters one column wide.     *)
CopiesTheSelection ==
  Selecting =>
    \A mode \in SelectionMode :
      LET sel == [app.mouse_selection.selection EXCEPT !.mode = mode]
          texts == AllTexts(app.screens[app.mouse_selection.pane_id])
      IN  get_text(sel, texts) = SelectedText(sel, texts)

(* command.rs:346-353, 399-422.  Copy mode's cursor is in the pane, unless  *)
(* another pane became active or a border drag changed the pane's size (in  *)
(* a pane without a cell it is at its origin); it is there exactly as long  *)
(* as the mode.                                                             *)
CopyCursorInPane ==
  /\ app.input_mode = "Copy" <=> app.copy_mode # None
  /\ app.copy_mode # None /\ ~strayed =>
    /\ app.copy_mode.row <= Most(Rows(Screen(app)) - 1, 0)
    /\ app.copy_mode.col <= Most(Screen(app).cols - 1, 0)

(* command.rs:370-395, search.rs:59.  After every edit of the query the     *)
(* matches are occurrences of that query in the live rows of the active     *)
(* pane, whatever part of its history is in view, in order and apart from   *)
(* each other, every occurrence is at least partly inside one, and the      *)
(* current match is one of them.                                            *)
FindsAll(a) ==
  LET texts == LiveTexts(Screen(a))
      q == a.search_query
      M == a.search_state.matches
  IN  /\ a.search_state.query = q
      /\ a.search_state.current = NoMatch <=> M = <<>>
      /\ a.search_state.current < Len(M)
      /\ \A i \in DOMAIN M : M[i].len = Len(q) /\ OccursAt(texts[M[i].row + 1], q, M[i].col)
      /\ \A i, j \in DOMAIN M : i < j =>
           M[i].row < M[j].row \/ (M[i].row = M[j].row /\ M[i].col + M[i].len <= M[j].col)
      /\ q # <<>> =>
           \A r \in DOMAIN texts : \A col \in Occurrences(texts[r], q) :
             \E i \in DOMAIN M : M[i].row = r - 1 /\ M[i].col \in col - Len(q) + 1 .. col

SearchFindsAll == [][app'.input_mode = "Search" /\ app'.search_query # app.search_query => FindsAll(app')]_vars

=============================================================================
