------------------------------- MODULE Screen -------------------------------
(***************************************************************************)
(* The operations of a terminal screen (crates/emux-term/src/screen.rs) as *)
(* functions from screens to screens.  A screen has the shown grid and the *)
(* hidden one, a cursor for each, the scroll region [top, bottom) and the  *)
(* margins [left, right), modes, tab stops, the history offset vp of the   *)
(* view and the rows damaged since they were last taken.                   *)
(***************************************************************************)
EXTENDS Grid

CONSTANTS Wide,          \* characters two cells wide
          Zero,          \* characters without width
          TabInterval,   \* DEFAULT_TAB_INTERVAL, 8 in the source
          NoChar           \* nothing printed yet

\* An Option is a sequence of at most one element.
Home == [row |-> 0, col |-> 0]

DefaultModes ==
  [autowrap |-> TRUE, origin |-> FALSE, insert |-> FALSE, newline |-> FALSE,
   alt |-> FALSE, margins |-> FALSE, reverse |-> FALSE, allow |-> FALSE]

DefaultStops(from, to) == {c \in from..to-1 : c > 0 /\ c % TabInterval = 0}

new(cols, rows) ==
  [grid |-> NewGrid(cols, rows), hidden |-> NewGrid(cols, rows),
   cur |-> Home, hidden_cur |-> Home, saved |-> <<>>,
   modes |-> DefaultModes, saved_modes |-> <<>>,
   top |-> 0, bottom |-> rows, left |-> 0, right |-> cols,
   pending |-> FALSE, prot |-> FALSE, last |-> NoChar,
   stops |-> DefaultStops(0, cols), vp |-> 0, damage |-> {}]

rows(s) == Rows(s.grid)
cols(s) == s.grid.cols
AllRows(s) == 0..rows(s)-1

char_width(c) == IF c \in Zero THEN 0 ELSE IF c \in Wide THEN 2 ELSE 1

record_damage(s, rr) == [s EXCEPT !.damage = @ \cup (rr \cap AllRows(s))]

has_lr_margins(s) == s.modes.margins /\ (s.left # 0 \/ s.right # cols(s))
effective_right(s) == IF has_lr_margins(s) THEN s.right ELSE cols(s)
cursor_in_lr_margins(s) ==
  has_lr_margins(s) => s.left <= s.cur.col /\ s.cur.col < s.right

At(s, r, c) == [s EXCEPT !.cur = [row |-> r, col |-> c], !.pending = FALSE]
Unpend(s) == [s EXCEPT !.pending = FALSE]
InRegion(s) == s.top <= s.cur.row /\ s.cur.row < s.bottom

----------------------------------------------------------------------------
(* Lines and scrolling *)

scroll_up_screen(s, n) ==
  record_damage([s EXCEPT !.grid = IF has_lr_margins(s)
                            THEN scroll_up_region(@, s.top, s.bottom, s.left, s.right, n)
                            ELSE scroll_up(@, s.top, s.bottom, n)],
                s.top..s.bottom-1)

scroll_down_screen(s, n) ==
  record_damage([s EXCEPT !.grid = IF has_lr_margins(s)
                            THEN scroll_down_region(@, s.top, s.bottom, s.left, s.right, n)
                            ELSE scroll_down(@, s.top, s.bottom, n)],
                s.top..s.bottom-1)

linefeed(s) ==
  LET t == IF s.cur.row + 1 = s.bottom
           THEN record_damage(
                  [s EXCEPT !.grid = IF has_lr_margins(s) /\ cursor_in_lr_margins(s)
                              THEN scroll_up_region(@, s.top, s.bottom, s.left, s.right, 1)
                              ELSE scroll_up(@, s.top, s.bottom, 1)],
                  s.top..s.bottom-1)
           ELSE IF s.cur.row + 1 < rows(s) THEN [s EXCEPT !.cur.row = @ + 1] ELSE s
  IN  [t EXCEPT !.pending = FALSE, !.cur.col = IF s.modes.newline THEN 0 ELSE @]

\* Index upwards; it records no damage.
reverse_index(s) ==
  Unpend(IF s.cur.row = s.top
         THEN [s EXCEPT !.grid = IF has_lr_margins(s) /\ cursor_in_lr_margins(s)
                          THEN scroll_down_region(@, s.top, s.bottom, s.left, s.right, 1)
                          ELSE scroll_down(@, s.top, s.bottom, 1)]
         ELSE [s EXCEPT !.cur.row = Greater(@ - 1, 0)])

carriage_return(s) ==
  At(s, s.cur.row, IF has_lr_margins(s) /\ s.cur.col >= s.left THEN s.left ELSE 0)

insert_lines_screen(s, n) ==
  At([s EXCEPT !.grid = IF InRegion(s) THEN insert_lines(@, s.cur.row, n, s.top, s.bottom) ELSE @],
     s.cur.row, 0)

delete_lines_screen(s, n) ==
  At([s EXCEPT !.grid = IF InRegion(s) THEN delete_lines(@, s.cur.row, n, s.top, s.bottom) ELSE @],
     s.cur.row, 0)

----------------------------------------------------------------------------
(* Printing *)

\* The wrap that the last column left pending happens before the next
\* character; the row it leaves loses its own continuation mark.
WrapPending(s) ==
  IF ~s.pending THEN s
  ELSE IF s.modes.autowrap
  THEN LET t == linefeed(carriage_return([s EXCEPT !.grid = set_continuation(@, s.cur.row, FALSE)]))
       IN  [t EXCEPT !.grid = set_continuation(@, t.cur.row, TRUE)]
  ELSE At(s, s.cur.row, effective_right(s) - 1)

\* A wide character goes to the next line if one column is left.
FitWide(s) ==
  LET x == cell(s.grid, s.cur.row, s.cur.col)
      padded == [s EXCEPT !.grid = cell_mut(@, s.cur.row, s.cur.col, Cell(" ", 1, x.p))]
      t == linefeed(carriage_return(padded))
      back == Greater(effective_right(s) - 2, 0)
  IN  IF s.modes.autowrap
      THEN [t EXCEPT !.grid = set_continuation(@, t.cur.row, TRUE)]
      ELSE [s EXCEPT !.cur.col = IF back >= cols(s) THEN 0 ELSE back]

(* Mutant: only overwriting a left half is looked after. *)
ClearHalves_left_only(g, r, c, w) ==
  IF cell(g, r, c).w = 2 /\ c + 1 < g.cols
  THEN cell_mut(g, r, c + 1, Cell(" ", 1, cell(g, r, c + 1).p)) ELSE g

\* Writing over one half of a wide character blanks the other.
ClearHalves(g, r, c, w) ==
  LET Unhalve(h, k) == cell_mut(h, r, k, Cell(" ", 1, cell(h, r, k).p))
      old == cell(g, r, c).w
      g1 == IF old = 2 /\ c + 1 < g.cols THEN Unhalve(g, c + 1) ELSE g
      g2 == IF old = 0 /\ c > 0 /\ cell(g1, r, c - 1).w = 2 THEN Unhalve(g1, c - 1) ELSE g1
  IN  IF w = 2 /\ c + 2 < g.cols /\ cell(g2, r, c + 1).w = 2 THEN Unhalve(g2, c + 2) ELSE g2

Put(s, c) ==
  LET w == char_width(c)
      r == s.cur.row
      k == s.cur.col
      g1 == cell_mut(ClearHalves(s.grid, r, k, w), r, k, Cell(c, w, s.prot))
      g2 == IF w = 2 /\ k + 1 < g1.cols THEN cell_mut(g1, r, k + 1, Cell(" ", 0, s.prot)) ELSE g1
      full == k + w >= effective_right(s)
  IN  [record_damage(s, {r}) EXCEPT
         !.grid = g2,
         !.cur.col = IF full THEN effective_right(s) - 1 ELSE k + w,
         !.pending = full /\ s.modes.autowrap]

write_char(s, c) ==
  LET w == char_width(c)
      s1 == WrapPending([s EXCEPT !.vp = 0, !.last = c])
      s2 == IF w = 2 /\ s1.cur.col >= effective_right(s1) - 1 THEN FitWide(s1) ELSE s1
      s3 == IF s2.modes.insert
            THEN [s2 EXCEPT !.grid = insert_cells_bounded(@, s2.cur.row, s2.cur.col, w, effective_right(s2))]
            ELSE s2
  IN  IF w = 0 THEN [s EXCEPT !.vp = 0, !.last = c] ELSE Put(s3, c)

----------------------------------------------------------------------------
(* The cursor *)

backspace(s) ==
  IF s.cur.col > 0 THEN At(s, s.cur.row, s.cur.col - 1)
  ELSE IF s.modes.reverse /\ s.modes.autowrap /\ s.cur.row > 0
       THEN At(s, s.cur.row - 1, cols(s) - 1) ELSE s

\* n tab stops on from the cursor: the n-th of the stops ahead, the last column
\* when there are fewer; and back, column 0 when there are fewer.
tab_forward(s, n) ==
  LET ahead == {t \in s.stops : s.cur.col < t /\ t < cols(s)}
      nth == {t \in ahead : Cardinality({u \in ahead : u <= t}) = n}
  IN  At(s, s.cur.row, Min({cols(s) - 1} \cup nth))

tab_backward(s, n) ==
  LET behind == {t \in s.stops : t < s.cur.col}
      nth == {t \in behind : Cardinality({u \in behind : u >= t}) = n}
  IN  At(s, s.cur.row, Max({0} \cup nth))

cursor_up(s, n) ==
  At(s, Greater(Greater(s.cur.row - n, 0), IF InRegion(s) THEN s.top ELSE 0), s.cur.col)
cursor_down(s, n) ==
  At(s, Lesser(s.cur.row + n, IF InRegion(s) THEN s.bottom - 1 ELSE rows(s) - 1), s.cur.col)
cursor_left(s, n) == At(s, s.cur.row, Greater(s.cur.col - n, 0))
cursor_right(s, n) == At(s, s.cur.row, Lesser(s.cur.col + n, cols(s) - 1))

\* Row and column count from 1.  In origin mode they count from the region.
cursor_position(s, row, col) ==
  LET r == Greater(row - 1, 0)
      c == Greater(col - 1, 0)
  IN  IF s.modes.origin
      THEN At(s, Lesser(s.top + r, s.bottom - 1), Lesser(s.left + c, s.right - 1))
      ELSE At(s, Lesser(r, rows(s) - 1), Lesser(c, cols(s) - 1))

save_cursor(s) ==
  [s EXCEPT !.saved = <<[row |-> s.cur.row, col |-> s.cur.col, origin |-> s.modes.origin,
                         pending |-> s.pending, prot |-> s.prot]>>]

restore_cursor(s) ==
  IF s.saved = <<>> THEN [At(s, 0, 0) EXCEPT !.prot = FALSE]
  ELSE LET k == Head(s.saved)
       IN  [At(s, Lesser(k.row, rows(s) - 1), Lesser(k.col, cols(s) - 1)) EXCEPT
              !.modes.origin = k.origin, !.pending = k.pending, !.prot = k.prot]

----------------------------------------------------------------------------
(* Region, margins, tab stops *)

GoHome(s) == IF s.modes.origin THEN At(s, s.top, s.left) ELSE At(s, 0, 0)

set_scroll_region(s, top, bottom) ==
  LET t == Lesser((IF top = 0 THEN 1 ELSE top) - 1, rows(s) - 1)
      b == Lesser(IF bottom = 0 THEN rows(s) ELSE bottom, rows(s))
  IN  GoHome(IF b > t + 1 THEN [s EXCEPT !.top = t, !.bottom = b] ELSE s)

set_left_right_margin(s, left, right) ==
  LET l == Lesser((IF left = 0 THEN 1 ELSE left) - 1, cols(s) - 1)
      r == Lesser(IF right = 0 THEN cols(s) ELSE right, cols(s))
  IN  IF ~s.modes.margins THEN s
      ELSE GoHome(IF r > l + 1 THEN [s EXCEPT !.left = l, !.right = r] ELSE s)

set_tab_stop(s) == [s EXCEPT !.stops = @ \cup {s.cur.col}]
clear_tab_stop(s, all) == [s EXCEPT !.stops = IF all THEN {} ELSE @ \ {s.cur.col}]

----------------------------------------------------------------------------
(* Erasing.  A selective erase spares protected cells. *)

EraseUnprotected(g, r, from, to) ==
  [g EXCEPT !.lines[r + 1].cells = [i \in DOMAIN @ |->
     IF from < i /\ i <= to + 1 /\ ~@[i].p THEN Blank ELSE @[i]]]

EraseCells(s, r, from, to, selective) ==
  [record_damage(s, {r}) EXCEPT !.grid =
     IF selective THEN EraseUnprotected(@, r, from, to) ELSE clear_region(@, r, from, to)]

\* Whole rows: their continuation marks go too, unless the erase is selective.
Spared(row) == [row EXCEPT !.cells = [i \in DOMAIN @ |-> IF @[i].p THEN @[i] ELSE Blank]]
EraseRows(s, rr, selective) ==
  [record_damage(s, rr) EXCEPT !.grid.lines = [i \in DOMAIN @ |->
     IF i - 1 \notin rr THEN @[i] ELSE IF selective THEN Spared(@[i]) ELSE NewRow(cols(s))]]

erase_display(s, mode, selective) ==
  LET r == s.cur.row
  IN  CASE mode = "below" -> EraseRows(EraseCells(s, r, s.cur.col, cols(s) - 1, selective),
                                       r+1..rows(s)-1, selective)
        [] mode = "above" -> EraseCells(EraseRows(s, 0..r-1, selective), r, 0, s.cur.col, selective)
        [] mode = "all" -> EraseRows(s, AllRows(s), selective)
        [] mode = "scrollback" -> [s EXCEPT !.grid.sb = <<>>]

erase_line(s, mode, selective) ==
  CASE mode = "right" -> EraseCells(s, s.cur.row, s.cur.col, cols(s) - 1, selective)
    [] mode = "left" -> EraseCells(s, s.cur.row, 0, s.cur.col, selective)
    [] mode = "all" -> EraseRows(s, {s.cur.row}, selective)

(* Mutant: the cells are moved, the damage is forgotten. *)
insert_chars_silent(s, n) ==
  Unpend([s EXCEPT
            !.grid = insert_cells_bounded(@, s.cur.row, s.cur.col, n, effective_right(s))])

insert_chars(s, n) ==
  Unpend([record_damage(s, {s.cur.row}) EXCEPT
            !.grid = insert_cells_bounded(@, s.cur.row, s.cur.col, n, effective_right(s))])
delete_chars(s, n) ==
  Unpend([record_damage(s, {s.cur.row}) EXCEPT
            !.grid = delete_cells_bounded(@, s.cur.row, s.cur.col, n, effective_right(s))])
erase_chars_screen(s, n) ==
  Unpend([record_damage(s, {s.cur.row}) EXCEPT !.grid = erase_chars(@, s.cur.row, s.cur.col, n)])

----------------------------------------------------------------------------
(* Rectangles, [top, bottom) x [left, right) of 1-based arguments; none of *)
(* these records damage.                                                   *)

InRect(s, i, c, top, left, bottom, right) ==
  /\ Lesser(Greater(top - 1, 0), rows(s) - 1) < i /\ i <= Lesser(bottom, rows(s))
  /\ Lesser(Greater(left - 1, 0), cols(s) - 1) < c /\ c <= Lesser(right, cols(s))

\* The cell at row i and column c becomes cells[i][c].
WithCells(s, cells) ==
  [s EXCEPT !.grid.lines = [i \in DOMAIN @ |-> [@[i] EXCEPT !.cells = cells[i]]]]

fill_rect(s, x, top, left, bottom, right) ==
  WithCells(s, [i \in 1..rows(s) |-> [c \in 1..cols(s) |->
    IF InRect(s, i, c, top, left, bottom, right)
    THEN Cell(x, 1, s.prot) ELSE s.grid.lines[i].cells[c]]])

selective_erase_rect(s, top, left, bottom, right) ==
  WithCells(s, [i \in 1..rows(s) |-> [c \in 1..cols(s) |->
    IF InRect(s, i, c, top, left, bottom, right) /\ ~s.grid.lines[i].cells[c].p
    THEN Blank ELSE s.grid.lines[i].cells[c]]])

copy_rect(s, top, left, bottom, right, to_row, to_col) ==
  LET dr == Lesser(Greater(to_row - 1, 0), rows(s) - 1) - Lesser(Greater(top - 1, 0), rows(s) - 1)
      dc == Lesser(Greater(to_col - 1, 0), cols(s) - 1) - Lesser(Greater(left - 1, 0), cols(s) - 1)
  IN  WithCells(s, [i \in 1..rows(s) |-> [c \in 1..cols(s) |->
        IF InRect(s, i - dr, c - dc, top, left, bottom, right)
        THEN s.grid.lines[i - dr].cells[c - dc] ELSE s.grid.lines[i].cells[c]]])

decaln(s) ==
  At([WithCells(s, [i \in 1..rows(s) |-> [c \in 1..cols(s) |-> Cell("E", 1, FALSE)]])
        EXCEPT !.top = 0, !.bottom = rows(s)], 0, 0)

----------------------------------------------------------------------------
(* The alternate screen, resets, resizing *)

Swap(s) == [s EXCEPT !.grid = s.hidden, !.hidden = s.grid,
                     !.cur = s.hidden_cur, !.hidden_cur = s.cur, !.pending = FALSE]
FullDamage(s) == record_damage(s, AllRows(s))

(* Mutant: the screen is cleared before the swap, not after it. *)
enter_alt_screen_clears_first(s, save) ==
  LET t == Swap([s EXCEPT !.grid.lines = BlankRows(s.grid, Rows(s.grid))])
  IN  IF s.modes.alt THEN s ELSE FullDamage([t EXCEPT !.modes.alt = TRUE, !.cur = Home])

enter_alt_screen(s, save) ==
  LET t == Swap(IF save THEN save_cursor(s) ELSE s)
  IN  IF s.modes.alt THEN s
      ELSE FullDamage([t EXCEPT !.modes.alt = TRUE, !.cur = Home,
                                !.grid.lines = BlankRows(t.grid, Rows(t.grid))])

leave_alt_screen(s, restore) ==
  LET t == [Swap(s) EXCEPT !.modes.alt = FALSE]
  IN  IF ~s.modes.alt THEN s
      ELSE FullDamage(IF restore THEN restore_cursor(t) ELSE t)

reset(s) == new(cols(s), rows(s))

soft_reset(s) ==
  [s EXCEPT !.modes = DefaultModes, !.prot = FALSE, !.saved = <<>>, !.pending = FALSE,
            !.top = 0, !.bottom = rows(s), !.left = 0, !.right = cols(s)]

\* A bound [low, high) of the old size cut down to the new one.
FitBounds(low, high, old, size) ==
  LET h == Lesser(high, size)
  IN  IF low = 0 /\ high = old THEN [low |-> 0, high |-> size]
      ELSE [low |-> Lesser(low, Greater(h - 1, 0)), high |-> IF h = 0 THEN size ELSE h]

(* Mutant: only the column is fitted. *)
ClampTo_column(p, c, r) == [p EXCEPT !.col = Lesser(@, c - 1)]

ClampTo(p, c, r) == [p EXCEPT !.row = Lesser(@, r - 1), !.col = Lesser(@, c - 1)]

\* The cursor kept for the other screen is not fitted.
resize(s, c, r) ==
  LET g == resize_with_cursor(s.grid, c, r, s.cur.row, s.cur.col)
      tb == FitBounds(s.top, s.bottom, rows(s), r)
      lr == FitBounds(s.left, s.right, cols(s), c)
  IN  [s EXCEPT !.grid = g.grid,
                !.hidden = resize_with_cursor(@, c, r, 0, 0).grid,
                !.cur = ClampTo([row |-> Greater(@.row + g.delta, 0), col |-> @.col], c, r),
                !.top = tb.low, !.bottom = tb.high, !.left = lr.low, !.right = lr.high,
                !.saved = [i \in DOMAIN @ |-> ClampTo(@[i], c, r)],
                !.stops = (@ \cap 0..c-1) \cup DefaultStops(cols(s), c),
                !.pending = FALSE]

scroll_viewport_up(s, n) == [s EXCEPT !.vp = Lesser(@ + n, Len(s.grid.sb))]
scroll_viewport_down(s, n) == [s EXCEPT !.vp = Greater(@ - n, 0)]
scroll_viewport_reset(s) == [s EXCEPT !.vp = 0]

\* What row r of the display shows.
viewport_row(s, r) ==
  LET v == Greater(Len(s.grid.sb) + r - s.vp, 0)
  IN  IF v < Len(s.grid.sb) THEN s.grid.sb[v + 1]
      ELSE s.grid.lines[RowIndex(s.grid, v - Len(s.grid.sb))]

save_dec_modes(s) == [s EXCEPT !.saved_modes = <<s.modes>>]
restore_dec_modes(s) ==
  [s EXCEPT !.modes = IF s.saved_modes = <<>> THEN @ ELSE Head(s.saved_modes), !.saved_modes = <<>>]
=============================================================================
