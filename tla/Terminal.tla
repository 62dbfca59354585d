------------------------------ MODULE Terminal ------------------------------
(***************************************************************************)
(* A pane's terminal as its program drives it: the control functions of    *)
(* crates/emux-term/src/performer.rs over the screen, the chunks in which  *)
(* drain_pty_reads (bins/emux/src/event_loop.rs) feeds them and takes the  *)
(* damage, the user's scrolling and resizes.                               *)
(*                                                                         *)
(* A run starts from a painted screen (Painted) and takes at most MaxSteps *)
(* steps; every control function is tried at every step.                   *)
(***************************************************************************)
EXTENDS Screen

CONSTANTS Chars,       \* characters programs print
          Sizes,       \* <<cols, rows>> the pane may get
          Counts,      \* repeat counts
          ColumnsOf,   \* columns of DECCOLM, set and reset (132 and 80 in the source)
          MaxSteps,
          Painted      \* initial screens

Positive == Nat \ {0}

\* Cells, rows of n of them, grids of n columns and m rows and the screens
\* over two such grids.  The cursors of a screen may lie off its grid.
Cells == [c : STRING, w : 0..2, p : BOOLEAN]
RowsOf(n) == [cells : [1..n -> Cells], cont : BOOLEAN]
Grids(n, m) ==
  {g \in [cols : {n}, lines : [1..m -> RowsOf(n)], sb : Seq(RowsOf(n))] :
     Len(g.sb) <= ScrollbackLimit}
Cursors(n, m) == [row : 0..m-1, col : 0..n-1]
SavedCursors(n, m) ==
  [row : 0..m-1, col : 0..n-1, origin : BOOLEAN, pending : BOOLEAN, prot : BOOLEAN]
ModeSets ==
  [autowrap : BOOLEAN, origin : BOOLEAN, insert : BOOLEAN, newline : BOOLEAN,
   alt : BOOLEAN, margins : BOOLEAN, reverse : BOOLEAN, allow : BOOLEAN]
Screens(n, m) ==
  {s \in [grid : Grids(n, m), hidden : Grids(n, m),
          cur : [row : Nat, col : Nat], hidden_cur : [row : Nat, col : Nat],
          saved : Seq(SavedCursors(n, m)), modes : ModeSets, saved_modes : Seq(ModeSets),
          top : 0..m, bottom : 0..m, left : 0..n, right : 0..n,
          pending : BOOLEAN, prot : BOOLEAN, last : Chars \cup {NoChar},
          stops : SUBSET (0..n-1), vp : Nat, damage : SUBSET Nat] :
     s.top < s.bottom /\ s.left < s.right}

ASSUME TerminalAssumption ==
  /\ Chars \cup {" ", "E"} \subseteq STRING /\ Counts \subseteq Positive /\ Sizes \subseteq Positive \X Positive
  /\ MaxSteps \in Nat /\ TabInterval \in Positive /\ ColumnsOf \in [BOOLEAN -> Positive]
  /\ \A s \in Painted :
       /\ cols(s) \in Positive /\ rows(s) \in Positive /\ s \in Screens(cols(s), rows(s))
       /\ {s.cur, s.hidden_cur} \subseteq Cursors(cols(s), rows(s))

VARIABLES screen,      \* PaneState::screen
          damage,      \* rows reported for the last chunk
          primary,     \* history: the grid the alternate screen hides, or <<>>
          mixed,       \* history: the flag of the alternate screen was lost
          resized,     \* history: "hidden" once resized, until the screens change
                       \* places; "shown" if that leaves the cursor off the grid
          left

vars == <<screen, damage, primary, mixed, resized, left>>

Init ==
  /\ screen \in Painted
  /\ damage = {} /\ primary = <<>> /\ mixed = FALSE /\ resized = "no"
  /\ left = MaxSteps

OnScreen(s) == s.cur.row < rows(s) /\ s.cur.col < cols(s)

\* A chunk of output that holds one control function: the view goes back to
\* the bottom and the damage is taken.  With the cursor off the grid most
\* functions panic; the model stops there.
Feed(s) ==
  /\ left > 0 /\ OnScreen(screen)
  /\ left' = left - 1
  /\ screen' = [scroll_viewport_reset(s) EXCEPT !.damage = {}]
  /\ damage' = s.damage

Plain == UNCHANGED <<primary, mixed, resized>>
----------------------------------------------------------------------------
(* Printing and C0 controls *)

PrintChar == \E c \in Chars : Feed(write_char(screen, c)) /\ Plain

execute_c0 ==
  /\ \/ Feed(backspace(screen))
     \/ Feed(tab_forward(screen, 1))
     \/ Feed(linefeed(screen))
     \/ Feed(carriage_return(screen))
  /\ Plain

\* The last character printed again, n times.
Repeated(s, n) ==
  LET times[k \in 0..n] == IF k = 0 THEN s ELSE write_char(times[k - 1], s.last)
  IN  times[n]

\* REP
Repeat ==
  \E n \in Counts :
    /\ screen.last # NoChar
    /\ Feed(Repeated(screen, n))
    /\ Plain
----------------------------------------------------------------------------
(* CSI *)

\* CUU, CUD (VPR), CUF (HPR), CUB, CNL, CPL, CHT, CBT
MoveCursor ==
  /\ \E n \in Counts :
       \/ Feed(cursor_up(screen, n))
       \/ Feed(cursor_down(screen, n))
       \/ Feed(cursor_right(screen, n))
       \/ Feed(cursor_left(screen, n))
       \/ Feed(carriage_return(cursor_down(screen, n)))
       \/ Feed(carriage_return(cursor_up(screen, n)))
       \/ Feed(tab_forward(screen, n))
       \/ Feed(tab_backward(screen, n))
  /\ Plain

\* CUP and HVP; parameters count from 1, a missing one is 1.
PositionCursor ==
  \E r \in 1..rows(screen)+1, c \in 1..cols(screen)+1 :
    Feed(cursor_position(screen, r, c)) /\ Plain

\* CHA and HPA: the current row is passed as if it were not relative.
CHA == \E c \in 1..cols(screen)+1 : Feed(cursor_position(screen, screen.cur.row + 1, c)) /\ Plain

\* VPA
VPA == \E r \in 1..rows(screen)+1 : Feed(cursor_position(screen, r, screen.cur.col + 1)) /\ Plain

\* ED, EL; DECSED, DECSEL
EraseIn(selective) ==
  /\ \/ \E mode \in {"below", "above", "all"} : Feed(erase_display(screen, mode, selective))
     \/ \E mode \in {"right", "left", "all"} : Feed(erase_line(screen, mode, selective))
  /\ Plain

Erase == EraseIn(FALSE)
SelectiveErase == EraseIn(TRUE)
EraseScrollback == Feed(erase_display(screen, "scrollback", FALSE)) /\ Plain

IL == \E n \in Counts : Feed(insert_lines_screen(screen, n)) /\ Plain
DL == \E n \in Counts : Feed(delete_lines_screen(screen, n)) /\ Plain
SU == \E n \in Counts : Feed(scroll_up_screen(screen, n)) /\ Plain
SD == \E n \in Counts : Feed(scroll_down_screen(screen, n)) /\ Plain

\* ICH, DCH
EditChars ==
  /\ \E n \in Counts : Feed(insert_chars(screen, n)) \/ Feed(delete_chars(screen, n))
  /\ Plain

ECH == \E n \in Counts : Feed(erase_chars_screen(screen, n)) /\ Plain

\* DECFRA, DECSERA, DECCRA
Rectangles ==
  /\ \E t \in 1..2 :
       \/ \E c \in Chars \ Zero : Feed(fill_rect(screen, c, t, 1, rows(screen), 2))
       \/ Feed(selective_erase_rect(screen, t, 1, rows(screen), 2))
       \/ Feed(copy_rect(screen, t, 1, 2, 2, t, 3 - t))
  /\ Plain

\* DECSTBM, DECSLRM (with margins off the same sequence saves the cursor)
SetMargins ==
  /\ \E low \in {0, 2}, high \in {0, 3} :
       \/ Feed(set_scroll_region(screen, low, high))
       \/ screen.modes.margins /\ Feed(set_left_right_margin(screen, low, high))
  /\ Plain

\* TBC, HTS
TabStops ==
  /\ \/ \E all \in BOOLEAN : Feed(clear_tab_stop(screen, all))
     \/ Feed(set_tab_stop(screen))
  /\ Plain

\* DECSC, SCOSC, mode 1048; DECRC, SCORC
SavedCursor ==
  /\ Feed(save_cursor(screen)) \/ Feed(restore_cursor(screen))
  /\ Plain

\* DECSCA
Protect == \E b \in BOOLEAN : Feed([screen EXCEPT !.prot = b]) /\ Plain
----------------------------------------------------------------------------
(* Modes *)

\* IRM, LNM, DECAWM, reverse wrap, mode 40
SetMode ==
  \E m \in {"insert", "newline", "autowrap", "reverse", "allow"}, b \in BOOLEAN :
    Feed([screen EXCEPT !.modes[m] = b]) /\ Plain

\* DECOM
SetOrigin ==
  \E b \in BOOLEAN : Feed(cursor_position([screen EXCEPT !.modes.origin = b], 1, 1)) /\ Plain

\* DECLRMM
SetMarginMode ==
  \E b \in BOOLEAN :
    /\ Feed(IF b THEN [screen EXCEPT !.modes.margins = TRUE]
            ELSE [screen EXCEPT !.modes.margins = FALSE, !.left = 0, !.right = cols(screen)])
    /\ Plain

\* The screen with other columns: resized, cleared, the cursor at home and the
\* region the whole of it.
WithColumns(s, n) ==
  LET t == erase_display(resize(s, n, rows(s)), "all", FALSE)
  IN  [At(t, 0, 0) EXCEPT !.top = 0, !.bottom = rows(s)]

\* Heard only after mode 40 has been set.
DECCOLM ==
  \E b \in BOOLEAN :
    IF screen.modes.allow
    THEN Feed(WithColumns(screen, ColumnsOf[b])) /\ resized' = "hidden" /\ UNCHANGED <<primary, mixed>>
    ELSE Feed(screen) /\ Plain

\* XTSAVE, XTRESTORE
SaveModes == Feed(save_dec_modes(screen)) /\ Plain

RestoreModes ==
  /\ Feed(restore_dec_modes(screen))
  /\ mixed' = (mixed \/ restore_dec_modes(screen).modes.alt # screen.modes.alt)
  /\ UNCHANGED <<primary, resized>>

\* Modes 47, 1047 (without the cursor) and 1049
EnterAlt ==
  \E save \in BOOLEAN :
    /\ Feed(enter_alt_screen(screen, save))
    /\ primary' = IF screen.modes.alt THEN primary ELSE <<screen.grid>>
    /\ resized' = IF screen.modes.alt THEN resized ELSE "no"
    /\ UNCHANGED mixed

LeaveAlt ==
  \E restore \in BOOLEAN :
    /\ Feed(leave_alt_screen(screen, restore))
    /\ primary' = IF screen.modes.alt THEN <<>> ELSE primary
    /\ resized' = IF ~screen.modes.alt THEN resized
                  ELSE IF resized = "hidden" /\ ~OnScreen(screen') THEN "shown" ELSE "no"
    /\ UNCHANGED mixed

\* DECSTR, RIS, DECALN
DECSTR ==
  /\ Feed(soft_reset(screen))
  /\ mixed' = (mixed \/ screen.modes.alt)
  /\ UNCHANGED <<primary, resized>>

RIS ==
  /\ Feed(reset(screen))
  /\ primary' = <<>> /\ mixed' = FALSE /\ resized' = "no"

DECALN == Feed(decaln(screen)) /\ Plain

\* ESC D, ESC E, ESC M
Index == Feed(linefeed(screen)) /\ Plain
NextLine == Feed(linefeed(carriage_return(screen))) /\ Plain
RI == Feed(reverse_index(screen)) /\ Plain
----------------------------------------------------------------------------
(* The user *)

ScrollView ==
  /\ left > 0 /\ left' = left - 1
  /\ \E n \in Counts : \/ screen' = scroll_viewport_up(screen, n)
                       \/ screen' = scroll_viewport_down(screen, n)
  /\ damage' = AllRows(screen)        \* mark_all
  /\ Plain

Resize ==
  /\ left > 0 /\ left' = left - 1 /\ OnScreen(screen)
  /\ \E z \in Sizes : screen' = resize(screen, z[1], z[2])
  /\ damage' = AllRows(screen')       \* DamageTracker::resize
  /\ resized' = "hidden"
  /\ UNCHANGED <<primary, mixed>>

Next ==
  \/ PrintChar \/ execute_c0 \/ Repeat \/ MoveCursor \/ PositionCursor \/ CHA \/ VPA
  \/ Erase \/ SelectiveErase \/ EraseScrollback \/ ECH \/ IL \/ DL \/ SU \/ SD \/ EditChars \/ Rectangles
  \/ SetMargins \/ TabStops \/ SavedCursor \/ Protect
  \/ SetMode \/ SetOrigin \/ SetMarginMode \/ DECCOLM \/ SaveModes \/ RestoreModes
  \/ EnterAlt \/ LeaveAlt \/ DECSTR \/ RIS \/ DECALN
  \/ Index \/ NextLine \/ RI \/ ScrollView \/ Resize

Spec == Init /\ [][Next]_vars
----------------------------------------------------------------------------
(* Properties *)

\* Both grids are rectangles of the same number of rows and the history keeps
\* its limit, whatever is scrolled, rewrapped or swapped (grid.rs indexes its
\* lines and cells without checks).
RowsFit ==
  \A g \in {screen.grid, screen.hidden} :
    /\ Rows(g) = rows(screen) /\ g.cols = cols(screen)
    /\ Len(g.sb) <= ScrollbackLimit
    /\ \A i \in DOMAIN g.lines : Len(g.lines[i].cells) = g.cols
    /\ g = screen.grid => \A i \in DOMAIN g.sb : g.sb[i].cells # <<>>

\* Cursor and saved cursor lie on the grid, and region and margins are proper
\* parts of it: operations index lines with them.  Excepted is the return from
\* the alternate screen after a resize: resize does not fit the cursor kept for
\* the other screen, and leaving with mode 47 takes it as it is.
CursorOnScreen ==
  /\ OnScreen(screen) \/ resized = "shown"
  /\ \A i \in DOMAIN screen.saved : screen.saved[i].row < rows(screen) /\ screen.saved[i].col < cols(screen)
  /\ screen.top < screen.bottom /\ screen.bottom <= rows(screen)
  /\ screen.left < screen.right /\ screen.right <= cols(screen)
  /\ screen.stops \subseteq 0..cols(screen)-1

\* Nothing indexes outside of a grid.
ScreenFits == RowsFit /\ CursorOnScreen

Changed ==
  {r \in AllRows(screen) \cap AllRows(screen') :
     viewport_row(screen, r).cells # viewport_row(screen', r).cells}

\* Functions that change rows and record no damage.
Silent == IL \/ DL \/ RI \/ Rectangles \/ DECALN \/ RIS

\* A row that looks different after a chunk is reported as damaged, so that it
\* is drawn again: except after the functions in Silent, when the view was
\* scrolled back (it snaps to the bottom without damage), and for the blank a
\* wide character leaves behind at the end of the line (screen.rs:431).
DamageCoversChange ==
  [][ \/ Changed \subseteq damage'
      \/ screen.vp # 0 \/ Silent \/ Repeat
      \/ Cardinality(Changed \ damage') = 1 /\ screen'.last \in Wide /\ PrintChar ]_vars

\* Every row that looks different after a chunk is reported as damaged.
EveryChangeDamaged == [][screen.vp = 0 => Changed \subseteq damage']_vars

\* Leaving the alternate screen shows the grid that entering it hid, unless it
\* was resized meanwhile, by the user or by the program itself (DECCOLM), or a
\* reset or XTRESTORE lost track of which is shown.
PrimaryComesBack ==
  [][primary # <<>> /\ primary' = <<>> /\ ~mixed /\ resized = "no" /\ ~RIS
       => screen'.grid = Head(primary)]_vars

Text(rr) == [i \in DOMAIN rr |-> rr[i].cells]

\* The history is only ever extended by rows from the top of the screen, in
\* their order; only the oldest fall out.  (Clearing it, resizing, by DECCOLM too,
\* and changing screens excepted; a repeated character may print and scroll by turns; and a
\* wide character that goes round a region of one line pushes the row it has
\* just padded.)
HistoryAppendOnly ==
  [][ \/ \E k \in 0..rows(screen) :
           Text(screen'.grid.sb) = Text(Trim(screen.grid.sb \o SubSeq(screen.grid.lines, 1, k)))
      \/ EraseScrollback \/ Resize \/ DECCOLM \/ RIS \/ EnterAlt \/ LeaveAlt \/ Repeat
      \/ screen.bottom = 1 /\ screen'.last \in Wide /\ PrintChar ]_vars

WholeRow(row) ==
  \A i \in DOMAIN row.cells :
    /\ row.cells[i].w = 2 => i < Len(row.cells) /\ row.cells[i + 1].w = 0
    /\ row.cells[i].w = 0 => i > 1 /\ row.cells[i - 1].w = 2
Whole(s) == \A i \in DOMAIN s.grid.lines : WholeRow(s.grid.lines[i])

Overprints == cell(screen.grid, screen.cur.row, screen.cur.col).w = 0

\* Printing and erasing leave no half of a wide character behind, as grid.rs
\* promises its callers.  Excepted are insert mode and margins (cells move),
\* selective erases, a grid of one column, which has no room for the other
\* half, and a wide character that wraps from the last column where it pads
\* over a right half.
GlyphsStayWhole ==
  [][ \/ Whole(screen) => Whole(screen')
      \/ screen.modes.insert \/ has_lr_margins(screen) \/ cols(screen) = 1
      \/ /\ PrintChar /\ screen'.last \in Wide /\ Overprints /\ screen.cur.col = cols(screen) - 1
         /\ screen.modes.autowrap /\ ~screen.pending
      \/ ~(PrintChar \/ Erase \/ ECH) ]_vars

CursorLine(s) == s.grid.lines[s.cur.row + 1].cells
RowsOnly == rows(screen') # rows(screen) /\ cols(screen') = cols(screen)

\* The cursor stays on its line, unless that line went to the history, or fell
\* out of it at once because more rows left than it holds, or was an empty one
\* at the bottom.
KeepsCursorLine ==
  \/ CursorLine(screen') = CursorLine(screen)
  \/ LooksEmpty(screen.grid.lines[screen.cur.row + 1])
  \/ \E i \in DOMAIN screen'.grid.sb : screen'.grid.sb[i].cells = CursorLine(screen)
  \/ screen.cur.row + ScrollbackLimit < rows(screen) - rows(screen')

Inked(s) ==
  {r \in {s.grid.lines[i] : i \in DOMAIN s.grid.lines} \cup {s.grid.sb[i] : i \in DOMAIN s.grid.sb} :
     ~LooksEmpty(r)}

\* A change of height tears nothing apart (grid.rs:368): the cursor stays with
\* its text, and no written line is lost while the history has room.
ResizeKeepsText ==
  [][ RowsOnly =>
        /\ KeepsCursorLine
        /\ Len(screen.grid.sb) + rows(screen) - rows(screen') <= ScrollbackLimit
             => Inked(screen') = Inked(screen) ]_vars
=============================================================================
