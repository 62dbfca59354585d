-------------------------------- MODULE Grid --------------------------------
(***************************************************************************)
(* The grid of a terminal: lines of cells and the lines scrolled off its   *)
(* top (crates/emux-term/src/grid.rs).  Rows and columns count from 0, as  *)
(* in the source; sequences are indexed from 1.  Colours, styles and links *)
(* of a cell are left out, its protection (DECSCA) is kept.                *)
(***************************************************************************)
EXTENDS Integers, Sequences, FiniteSets, SequencesExt

CONSTANT ScrollbackLimit     \* DEFAULT_SCROLLBACK_LIMIT, 10 000 in the source

ASSUME LimitAssumption == ScrollbackLimit \in Nat

Lesser(a, b) == IF a < b THEN a ELSE b
Greater(a, b) == IF a > b THEN a ELSE b

Cell(c, w, p) == [c |-> c, w |-> w, p |-> p]
Blank == Cell(" ", 1, FALSE)
BlankCells(n) == [i \in 1..n |-> Blank]
NewRow(n) == [cells |-> BlankCells(n), cont |-> FALSE]
BlankRows(g, n) == [i \in 1..n |-> NewRow(g.cols)]

NewGrid(cols, rows) ==
  [cols |-> cols, lines |-> [i \in 1..rows |-> NewRow(cols)], sb |-> <<>>]

Rows(g) == Len(g.lines)

\* Pushing a row pops the oldest beyond the limit.
Trim(rows) == SubSeq(rows, Len(rows) - Lesser(Len(rows), ScrollbackLimit) + 1, Len(rows))

\* Row and column clamped to the grid.
RowIndex(g, r) == Lesser(r, Rows(g) - 1) + 1
ColIndex(g, c) == Lesser(c, g.cols - 1) + 1

cell(g, r, c) == g.lines[RowIndex(g, r)].cells[ColIndex(g, c)]
cell_mut(g, r, c, x) == [g EXCEPT !.lines[RowIndex(g, r)].cells[ColIndex(g, c)] = x]
set_continuation(g, r, b) == [g EXCEPT !.lines[RowIndex(g, r)].cont = b]

\* The lines of [from, to) replaced by mid.
Splice(g, from, to, mid) ==
  [g EXCEPT !.lines = SubSeq(g.lines, 1, from) \o mid \o SubSeq(g.lines, to + 1, Rows(g))]

Region(g, from, to) == SubSeq(g.lines, from + 1, to)

----------------------------------------------------------------------------
(* Scrolling *)

ShiftUp(g, top, bottom, count) ==
  LET n == Lesser(count, bottom - top)
  IN  Splice(g, top, bottom, Region(g, top + n, bottom) \o BlankRows(g, n))

(* Mutant: lines scrolled off a region that starts below the top are kept. *)
scroll_up_keeps_all(g, top, bottom, count) ==
  [ShiftUp(g, top, bottom, count) EXCEPT
     !.sb = Trim(@ \o Region(g, top, Lesser(top + count, bottom)))]

scroll_up(g, top, bottom, count) ==
  LET off == IF top = 0 THEN Region(g, 0, Lesser(count, bottom)) ELSE <<>>
  IN  IF bottom <= top THEN g
      ELSE [ShiftUp(g, top, bottom, count) EXCEPT !.sb = IF off = <<>> THEN @ ELSE Trim(@ \o off)]

scroll_down(g, top, bottom, count) ==
  LET n == Lesser(count, bottom - top)
  IN  IF bottom <= top THEN g
      ELSE Splice(g, top, bottom, BlankRows(g, n) \o Region(g, top, bottom - n))

\* Between left and right margins only the cells of [left, right) move, up by
\* n rows or down by -n.
MovedCells(g, i, top, bottom, left, right, n) ==
  [c \in 1..g.cols |->
     IF left < c /\ c <= right
     THEN IF top < i + n /\ i + n <= bottom THEN g.lines[i + n].cells[c] ELSE Blank
     ELSE g.lines[i].cells[c]]

MoveCells(g, top, bottom, left, right, n) ==
  [g EXCEPT !.lines = [i \in DOMAIN @ |->
     IF top < i /\ i <= bottom
     THEN [@[i] EXCEPT !.cells = MovedCells(g, i, top, bottom, left, right, n)]
     ELSE @[i]]]

scroll_up_region(g, top, bottom, left, right, count) ==
  IF bottom <= top \/ right <= left THEN g
  ELSE MoveCells(g, top, bottom, left, right, Lesser(count, bottom - top))

scroll_down_region(g, top, bottom, left, right, count) ==
  IF bottom <= top \/ right <= left THEN g
  ELSE MoveCells(g, top, bottom, left, right, -Lesser(count, bottom - top))

insert_lines(g, row, count, top, bottom) ==
  IF row < top \/ row >= bottom THEN g ELSE scroll_down(g, row, bottom, count)

delete_lines(g, row, count, top, bottom) ==
  IF row < top \/ row >= bottom THEN g ELSE ShiftUp(g, row, bottom, count)

----------------------------------------------------------------------------
(* Cells of one line *)

insert_cells_bounded(g, row, col, count, bound) ==
  LET right == Lesser(bound, g.cols)
      n == Lesser(count, right - col)
  IN  IF col >= right THEN g
      ELSE [g EXCEPT !.lines[row + 1].cells = [i \in DOMAIN @ |->
              IF i <= col \/ i > right THEN @[i] ELSE IF i <= col + n THEN Blank ELSE @[i - n]]]

delete_cells_bounded(g, row, col, count, bound) ==
  LET right == Lesser(bound, g.cols)
      n == Lesser(count, right - col)
  IN  IF col >= right THEN g
      ELSE [g EXCEPT !.lines[row + 1].cells = [i \in DOMAIN @ |->
              IF i <= col \/ i > right THEN @[i] ELSE IF i > right - n THEN Blank ELSE @[i + n]]]

\* Columns from .. to of one line become blank, and with them the other half
\* of a wide character either end cuts in two.
clear_region(g, row, from, to) ==
  LET cells == g.lines[row + 1].cells
      right == Lesser(to, g.cols - 1)
      head == IF from > 0 /\ from <= right /\ cells[from + 1].w = 0 THEN {from} ELSE {}
      tail == IF right + 1 < g.cols /\ cells[right + 1].w = 2 THEN {right + 2} ELSE {}
  IN  [g EXCEPT !.lines[row + 1].cells =
         [i \in DOMAIN @ |-> IF i \in (from + 1)..(right + 1) \cup head \cup tail
                             THEN Blank ELSE @[i]]]

erase_chars(g, row, col, count) ==
  IF row >= Rows(g) \/ col >= g.cols THEN g
  ELSE LET cells == g.lines[row + 1].cells
           end == Lesser(col + count, g.cols)
           head == IF col > 0 /\ cells[col + 1].w = 0 THEN {col} ELSE {}
           tail == IF end < g.cols /\ end > col /\ cells[end].w = 2 THEN {end + 1} ELSE {}
       IN  [g EXCEPT !.lines[row + 1].cells =
              [i \in DOMAIN @ |-> IF i \in (col + 1)..end \cup head \cup tail
                                  THEN Blank ELSE @[i]]]

----------------------------------------------------------------------------
(* Resizing *)

ResizeCells(cells, n) == [i \in 1..n |-> IF i <= Len(cells) THEN cells[i] ELSE Blank]

\* A logical line is a row and the continuation rows after it: the first row
\* of the line that holds row i, and its last one.
LineStart(rows, i) == Max({k \in 1..i : k = 1 \/ ~rows[k].cont})
LineEnd(rows, i) == Min({k \in i..Len(rows) : k = Len(rows) \/ ~rows[k + 1].cont})

\* The number of cells up to the last that is not blank.
Content(cells) == Max({0} \cup {k \in DOMAIN cells : cells[k] # Blank})

\* A joined line of len cells cut into rows of n.
CutLine(all, len, n) ==
  [k \in 1..((len + n - 1) \div n) |->
     [cells |-> ResizeCells(SubSeq(all, (k-1)*n + 1, Lesser(k*n, Len(all))), n), cont |-> k > 1]]

\* The rows of one logical line at the new width; a line that never wrapped is
\* cut or filled up, not wrapped.
Rewrap(line, n) ==
  LET all == FlattenSeq([k \in DOMAIN line |-> line[k].cells])
  IN  IF Len(line) = 1 THEN <<[line[1] EXCEPT !.cells = ResizeCells(@, n)]>>
      ELSE IF Content(all) = 0 THEN <<NewRow(n)>>
      ELSE CutLine(all, Content(all), n)

\* For every row the new rows of the logical line that starts there, if one does.
Rewrapped(rows, n) ==
  [i \in DOMAIN rows |->
     IF LineStart(rows, i) = i THEN Rewrap(SubSeq(rows, i, LineEnd(rows, i)), n) ELSE <<>>]

\* Where in the new rows of the line start..end the cell at offset comes to stand.
Landing(start, end, made, offset, n) ==
  IF start = end THEN 0 ELSE Lesser(offset \div n, Len(made) - 1)

\* The new rows, and the row of them (from 0) the cursor lands on.
Gathered(rows, new, at, old, n, abs_row, col) ==
  [rows |-> FlattenSeq(new),
   row |-> Len(FlattenSeq(SubSeq(new, 1, at - 1)))
           + Landing(at, LineEnd(rows, at), new[at], (abs_row + 1 - at) * old + col, n)]

reflow_lines(rows, old, n, abs_row, col) ==
  Gathered(rows, Rewrapped(rows, n), LineStart(rows, abs_row + 1), old, n, abs_row, col)

\* The last rows of r are shown, the others go to the history.
Shown(r, cols, rows, cursor_row) ==
  LET up == Greater(Len(r.rows) - rows, 0)
  IN  [grid |-> [cols |-> cols, sb |-> Trim(SubSeq(r.rows, 1, up)),
                 lines |-> SubSeq(r.rows, up + 1, Len(r.rows))],
       delta |-> Greater(r.row - up, 0) - cursor_row]

ReflowTo(g, cols, rows, cursor_row, cursor_col) ==
  Shown(reflow_lines(g.sb \o g.lines, g.cols, cols, Len(g.sb) + cursor_row, cursor_col),
        cols, rows, cursor_row)

\* The newest n rows of the history, the newest first, at the grid's width.
Newest(g, n) ==
  [k \in 1..n |-> [g.sb[Len(g.sb) + 1 - k] EXCEPT !.cells = ResizeCells(@, g.cols)]]

\* n rows of the history on top of the grid, and blank ones up to rows below.
TakeBack(g, n, rows) ==
  [g EXCEPT !.sb = SubSeq(@, 1, Len(@) - n),
            !.lines = Newest(g, n) \o @ \o BlankRows(g, rows - Len(@) - n)]

Back(g, rows) == Lesser(rows - Rows(g), Len(g.sb))

(* Mutant: the cursor is not told of the rows that came back. *)
GrowRows_still(a, rows) == [a EXCEPT !.grid = TakeBack(@, Back(@, rows), rows)]

\* Growing takes rows back from the history, the newest first, and puts them
\* one after the other on top: the newest comes to stand highest.
GrowRows(a, rows) ==
  [a EXCEPT !.grid = TakeBack(@, Back(@, rows), rows), !.delta = @ + Back(a.grid, rows)]

LooksEmpty(row) == \A i \in DOMAIN row.cells : row.cells[i].c = " " /\ ~row.cells[i].p

\* How many rows at the bottom look empty.
EmptyBelow(lines) == Len(lines) - Max({0} \cup {i \in DOMAIN lines : ~LooksEmpty(lines[i])})

\* Shrinking drops the empty rows at the bottom, one by one; once the last row
\* has text, the rows on top go to the history.
ShrinkRows(a, rows) ==
  LET excess == Rows(a.grid) - rows
      up == excess - Lesser(excess, EmptyBelow(a.grid.lines))
  IN  [grid |-> [a.grid EXCEPT !.lines = SubSeq(@, up + 1, up + rows),
                               !.sb = Trim(@ \o SubSeq(a.grid.lines, 1, up))],
       delta |-> a.delta - up]

FitRows(a, rows) == IF rows > Rows(a.grid) THEN GrowRows(a, rows) ELSE ShrinkRows(a, rows)

\* The new grid, and by how many rows the cursor moves with its text.
resize_with_cursor(g, cols, rows, cursor_row, cursor_col) ==
  FitRows(IF cols = g.cols THEN [grid |-> g, delta |-> 0]
          ELSE ReflowTo(g, cols, rows, cursor_row, cursor_col), rows)
=============================================================================
