--------------------------- MODULE TerminalProofs ---------------------------
(***************************************************************************)
(* What a terminal keeps, for screens of any size, any history limit, any  *)
(* characters and counts and any number of steps.                          *)
(*                                                                         *)
(* The properties read bounds off the screen; what makes them inductive is *)
(* that the whole screen stays a member of Screens(cols, rows): both grids *)
(* rectangles of cells, the history within its limit, region and margins   *)
(* proper, saved cursors and stops on the grid.  Most functions leave the  *)
(* screen that is hidden alone, and Live says so; the lemmas come in the   *)
(* order of the operators: cells and rows, grids, rewrapping, screens,     *)
(* then the steps.  A second pass over the operators says what they draw   *)
(* (Drawn) and what the history gains (Extended), a third which of them    *)
(* keep the two cells of a wide character together (Paired).               *)
(*                                                                         *)
(* The cursor of the hidden screen is the weak spot: a resize does not fit *)
(* it.  The invariant says when it can be trusted (resized), and when the  *)
(* hidden grid is the one that entering the alternate screen hid (mixed).  *)
(***************************************************************************)
EXTENDS Terminal, SequenceTheorems, FiniteSetTheorems, WellFoundedInduction, TLAPS

----------------------------------------------------------------------------
(* Sequences and rows *)

(* A function on 1..k is a sequence of length k, and the other way round. *)
LEMMA TupleIsSeq ==
  ASSUME NEW S, NEW k \in Nat, NEW f \in [1..k -> S]
  PROVE  f \in Seq(S) /\ Len(f) = k /\ DOMAIN f = 1..k
<1>1. f \in Seq(S)
  BY SeqDef
<1> QED BY <1>1, LenProperties

(* A sequence of known length is a function on its indices. *)
LEMMA SeqIsTuple ==
  ASSUME NEW S, NEW k \in Nat, NEW q \in Seq(S), Len(q) = k
  PROVE  q \in [1..k -> S]
BY LenProperties

(* The length of two sequences joined. *)
LEMMA ConcatLen ==
  ASSUME NEW S, NEW a \in Seq(S), NEW b \in Seq(S), NEW j, NEW k, Len(a) = j, Len(b) = k
  PROVE  a \o b \in Seq(S) /\ Len(a \o b) = j + k
BY ConcatProperties

(* Blank cells and cells of printed characters are cells. *)
LEMMA CellIs ==
  ASSUME NEW x, x \in STRING, NEW w \in 0..2, NEW b \in BOOLEAN
  PROVE  Cell(x, w, b) \in Cells
<1>1. \A y \in STRING : Cell(y, w, b) \in Cells
  BY DEF Cell, Cells
<1> QED BY <1>1

(* A blank is a cell. *)
LEMMA BlankIsCell == Blank \in Cells
<1>1. " " \in STRING
  BY TerminalAssumption
<1>2. 1 \in 0..2
  OBVIOUS
<1>3. \A b \in BOOLEAN, w \in 0..2 : Cell(" ", w, b) \in Cells
  BY <1>1, CellIs, Zenon
<1> QED BY <1>2, <1>3 DEF Blank

(* A new row is a row of its width. *)
LEMMA NewRowIsRow ==
  ASSUME NEW n \in Positive
  PROVE  NewRow(n) \in RowsOf(n)
<1>1. BlankCells(n) \in [1..n -> Cells]
  BY BlankIsCell DEF BlankCells
<1> QED BY <1>1 DEF NewRow, RowsOf

(* The newest rows of a history, at most ScrollbackLimit of them. *)
LEMMA TrimKeeps ==
  ASSUME NEW S, NEW q \in Seq(S)
  PROVE  Trim(q) \in Seq(S) /\ Len(Trim(q)) <= ScrollbackLimit
<1>1. Len(q) \in Nat /\ \A i \in 1..Len(q) : q[i] \in S
  BY LenProperties
<1> DEFINE from == Len(q) - Lesser(Len(q), ScrollbackLimit) + 1
<1>2. from \in 1..Len(q)+1 /\ Len(q) - from + 1 <= ScrollbackLimit
  <2>1. CASE Len(q) < ScrollbackLimit
    BY <1>1, <2>1, LimitAssumption DEF Lesser
  <2>2. CASE ~(Len(q) < ScrollbackLimit)
    BY <1>1, <2>2, LimitAssumption DEF Lesser
  <2> QED BY <2>1, <2>2
<1>3. from \in Int /\ Len(q) \in Int /\ \A i \in from..Len(q) : q[i] \in S
  BY <1>1, <1>2
<1>4. Trim(q) = SubSeq(q, from, Len(q))
  BY DEF Trim
<1> HIDE DEF from
<1> QED BY <1>2, <1>3, <1>4, SubSeqProperties, LimitAssumption

(* What a grid of n columns and m rows is made of. *)
LEMMA GridFacts ==
  ASSUME NEW n \in Positive, NEW m \in Positive, NEW g \in Grids(n, m)
  PROVE  /\ g.cols = n /\ Rows(g) = m /\ g.lines \in [1..m -> RowsOf(n)]
         /\ g.lines \in Seq(RowsOf(n)) /\ Len(g.lines) = m /\ DOMAIN g.lines = 1..m
         /\ g.sb \in Seq(RowsOf(n)) /\ Len(g.sb) \in Nat /\ Len(g.sb) <= ScrollbackLimit
         /\ n \in Nat /\ m \in Nat /\ n >= 1 /\ m >= 1
<1>1. /\ g.cols = n /\ g.lines \in [1..m -> RowsOf(n)]
      /\ g.sb \in Seq(RowsOf(n)) /\ Len(g.sb) <= ScrollbackLimit
      /\ n \in Nat /\ m \in Nat /\ n >= 1 /\ m >= 1
  BY DEF Grids, Positive
<1>2. g.lines \in Seq(RowsOf(n)) /\ Len(g.lines) = m /\ DOMAIN g.lines = 1..m
  BY <1>1, TupleIsSeq
<1> QED BY <1>1, <1>2, LenProperties DEF Rows

(* What membership in RowsOf says. *)
LEMMA RowFacts ==
  ASSUME NEW n \in Positive, NEW row \in RowsOf(n)
  PROVE  /\ row.cells \in [1..n -> Cells] /\ row.cont \in BOOLEAN
         /\ row.cells \in Seq(Cells) /\ Len(row.cells) = n /\ DOMAIN row.cells = 1..n
<1>1. row.cells \in [1..n -> Cells] /\ row.cont \in BOOLEAN /\ n \in Nat
  BY DEF RowsOf, Positive
<1> QED BY <1>1, TupleIsSeq

(* Other lines, another history, other cells in one line. *)
LEMMA OtherLines ==
  ASSUME NEW n \in Positive, NEW m \in Positive, NEW g \in Grids(n, m),
         NEW f \in [1..m -> RowsOf(n)]
  PROVE  [g EXCEPT !.lines = f] \in Grids(n, m)
BY DEF Grids

(* Another history within the limit. *)
LEMMA OtherHistory ==
  ASSUME NEW n \in Positive, NEW m \in Positive, NEW g \in Grids(n, m),
         NEW q \in Seq(RowsOf(n)), Len(q) <= ScrollbackLimit
  PROVE  [g EXCEPT !.sb = q] \in Grids(n, m)
BY DEF Grids

(* Other cells in one line. *)
LEMMA OtherCells ==
  ASSUME NEW n \in Positive, NEW m \in Positive, NEW g \in Grids(n, m),
         NEW r \in 1..m, NEW f \in [1..n -> Cells]
  PROVE  [g EXCEPT !.lines[r].cells = f] \in Grids(n, m)
<1>1. g.lines \in [1..m -> RowsOf(n)]
  BY GridFacts
<1>2. [g.lines[r] EXCEPT !.cells = f] \in RowsOf(n)
  BY <1>1 DEF RowsOf
<1>3. [g.lines EXCEPT ![r] = [g.lines[r] EXCEPT !.cells = f]] \in [1..m -> RowsOf(n)]
  BY <1>1, <1>2
<1>4. [g EXCEPT !.lines[r].cells = f]
        = [g EXCEPT !.lines = [g.lines EXCEPT ![r] = [g.lines[r] EXCEPT !.cells = f]]]
  OBVIOUS
<1> QED BY <1>3, <1>4, OtherLines

(* Another cell in one line. *)
LEMMA OtherCell ==
  ASSUME NEW n \in Positive, NEW m \in Positive, NEW g \in Grids(n, m),
         NEW r \in 1..m, NEW c \in 1..n, NEW x \in Cells
  PROVE  [g EXCEPT !.lines[r].cells[c] = x] \in Grids(n, m)
<1>1. g.lines[r] \in RowsOf(n)
  BY GridFacts
<1>2. g.lines[r].cells \in [1..n -> Cells]
  BY <1>1, RowFacts
<1>3. [g.lines[r].cells EXCEPT ![c] = x] \in [1..n -> Cells]
  BY <1>2
<1>4. [g EXCEPT !.lines[r].cells[c] = x] = [g EXCEPT !.lines[r].cells = [g.lines[r].cells EXCEPT ![c] = x]]
  OBVIOUS
<1> QED BY <1>3, <1>4, OtherCells

(* Marking a row as continued. *)
LEMMA ContinuationKeeps ==
  ASSUME NEW n \in Positive, NEW m \in Positive, NEW g \in Grids(n, m),
         NEW r \in Nat, NEW b \in BOOLEAN
  PROVE  set_continuation(g, r, b) \in Grids(n, m)
<1> DEFINE k == RowIndex(g, r)
<1>1. k \in 1..m /\ g.lines \in [1..m -> RowsOf(n)]
  BY GridFacts DEF RowIndex, Lesser
<1> HIDE DEF k
<1>2. [g.lines[k] EXCEPT !.cont = b] \in RowsOf(n)
  BY <1>1 DEF RowsOf
<1>3. [g.lines EXCEPT ![k] = [g.lines[k] EXCEPT !.cont = b]] \in [1..m -> RowsOf(n)]
  BY <1>1, <1>2
<1>4. set_continuation(g, r, b) = [g EXCEPT !.lines = [g.lines EXCEPT ![k] = [g.lines[k] EXCEPT !.cont = b]]]
  BY DEF set_continuation, k
<1> DEFINE f == [g.lines EXCEPT ![k] = [g.lines[k] EXCEPT !.cont = b]]
<1>5. f \in [1..m -> RowsOf(n)] /\ set_continuation(g, r, b) = [g EXCEPT !.lines = f]
  BY <1>3, <1>4
<1> HIDE DEF f
<1> QED BY <1>5, OtherLines

(* Reading and writing a cell stays within the grid at any row and column. *)
LEMMA CellIsCell ==
  ASSUME NEW n \in Positive, NEW m \in Positive, NEW g \in Grids(n, m), NEW r \in Nat, NEW c \in Nat
  PROVE  cell(g, r, c) \in Cells
<1>1. RowIndex(g, r) \in 1..m /\ ColIndex(g, c) \in 1..n
  BY GridFacts DEF RowIndex, ColIndex, Lesser
<1>2. g.lines[RowIndex(g, r)] \in RowsOf(n)
  BY <1>1, GridFacts
<1> QED BY <1>1, <1>2, RowFacts DEF cell

(* Writing a cell, wherever row and column are clamped to. *)
LEMMA CellMutKeeps ==
  ASSUME NEW n \in Positive, NEW m \in Positive, NEW g \in Grids(n, m),
         NEW r \in Nat, NEW c \in Nat, NEW x \in Cells
  PROVE  cell_mut(g, r, c, x) \in Grids(n, m)
<1>1. RowIndex(g, r) \in 1..m /\ ColIndex(g, c) \in 1..n
  BY GridFacts DEF RowIndex, ColIndex, Lesser
<1> QED BY <1>1, OtherCell DEF cell_mut

----------------------------------------------------------------------------
(* Scrolling *)

(* Rows of blanks. *)
LEMMA BlankRowsAre ==
  ASSUME NEW n \in Positive, NEW m \in Positive, NEW g \in Grids(n, m), NEW k \in Nat
  PROVE  BlankRows(g, k) \in Seq(RowsOf(n)) /\ Len(BlankRows(g, k)) = k
<1>1. NewRow(g.cols) \in RowsOf(n)
  BY GridFacts, NewRowIsRow
<1>2. BlankRows(g, k) \in [1..k -> RowsOf(n)]
  BY <1>1 DEF BlankRows
<1> QED BY <1>2, TupleIsSeq

(* The lines of a region. *)
LEMMA RegionIs ==
  ASSUME NEW n \in Positive, NEW m \in Positive, NEW g \in Grids(n, m),
         NEW from \in 0..m, NEW to \in 0..m
  PROVE  /\ Region(g, from, to) \in Seq(RowsOf(n))
         /\ Len(Region(g, from, to)) = IF from <= to THEN to - from ELSE 0
<1>1. \A i \in from+1..to : g.lines[i] \in RowsOf(n)
  BY GridFacts
<1>2. from + 1 \in Int /\ to \in Int /\ to - (from + 1) + 1 = to - from
  BY GridFacts
<1>3. /\ SubSeq(g.lines, from + 1, to) \in Seq(RowsOf(n))
      /\ Len(SubSeq(g.lines, from + 1, to)) = IF from + 1 <= to THEN to - (from + 1) + 1 ELSE 0
  BY <1>1, <1>2, SubSeqProperties
<1> QED BY <1>2, <1>3 DEF Region

(* Replacing a part of the lines by as many rows. *)
LEMMA SpliceKeeps ==
  ASSUME NEW n \in Positive, NEW m \in Positive, NEW g \in Grids(n, m),
         NEW from \in 0..m, NEW to \in from..m,
         NEW mid \in Seq(RowsOf(n)), Len(mid) = to - from
  PROVE  Splice(g, from, to, mid) \in Grids(n, m)
<1>1. /\ SubSeq(g.lines, 1, from) \in Seq(RowsOf(n)) /\ Len(SubSeq(g.lines, 1, from)) = from
  <2>1. \A i \in 1..from : g.lines[i] \in RowsOf(n)
    BY GridFacts
  <2> QED BY <2>1, GridFacts, SubSeqProperties
<1>2. /\ SubSeq(g.lines, to + 1, m) \in Seq(RowsOf(n)) /\ Len(SubSeq(g.lines, to + 1, m)) = m - to
  <2>1. to + 1 \in Int /\ m \in Int /\ \A i \in to+1..m : g.lines[i] \in RowsOf(n)
    BY GridFacts
  <2> QED BY <2>1, GridFacts, SubSeqProperties
<1> DEFINE above == SubSeq(g.lines, 1, from)
           below == SubSeq(g.lines, to + 1, m)
           lines == (above \o mid) \o below
<1>3. above \o mid \in Seq(RowsOf(n)) /\ Len(above \o mid) = to
  BY <1>1, ConcatProperties, GridFacts
<1>4. lines \in Seq(RowsOf(n)) /\ Len(lines) = m
  <2>1. below \in Seq(RowsOf(n)) /\ Len(below) = m - to /\ m \in Nat /\ to \in Nat
    BY <1>2, GridFacts
  <2> DEFINE upper == above \o mid
  <2>2. upper \in Seq(RowsOf(n)) /\ Len(upper) = to
    BY <1>3
  <2> HIDE DEF upper, below
  <2>3. upper \o below \in Seq(RowsOf(n)) /\ Len(upper \o below) = Len(upper) + Len(below)
    BY <2>1, <2>2, ConcatProperties
  <2>4. Len(upper \o below) = m
    BY <2>1, <2>2, <2>3
  <2> QED BY <2>3, <2>4 DEF upper
<1>5. lines \in [1..m -> RowsOf(n)]
  BY <1>4, SeqIsTuple, GridFacts
<1>6. Splice(g, from, to, mid) = [g EXCEPT !.lines = lines]
  BY GridFacts DEF Splice
<1> HIDE DEF lines
<1> QED BY <1>5, <1>6, OtherLines

(* A region moved up keeps the number of lines. *)
LEMMA ShiftUpKeeps ==
  ASSUME NEW n \in Positive, NEW m \in Positive, NEW g \in Grids(n, m),
         NEW top \in 0..m, NEW bottom \in 0..m, top < bottom, NEW count \in Nat
  PROVE  ShiftUp(g, top, bottom, count) \in Grids(n, m)
<1> DEFINE k == Lesser(count, bottom - top)
<1>1. k \in Nat /\ top + k \in 0..m /\ top + k <= bottom /\ bottom \in top..m
  BY GridFacts DEF Lesser
<1>2. ShiftUp(g, top, bottom, count) = Splice(g, top, bottom, Region(g, top + k, bottom) \o BlankRows(g, k))
  BY DEF ShiftUp
<1> HIDE DEF k
<1>3. /\ Region(g, top + k, bottom) \in Seq(RowsOf(n))
      /\ Len(Region(g, top + k, bottom)) = bottom - (top + k)
  BY <1>1, RegionIs, GridFacts
<1>4. BlankRows(g, k) \in Seq(RowsOf(n)) /\ Len(BlankRows(g, k)) = k
  BY <1>1, BlankRowsAre
<1>5. /\ Region(g, top + k, bottom) \o BlankRows(g, k) \in Seq(RowsOf(n))
      /\ Len(Region(g, top + k, bottom) \o BlankRows(g, k)) = bottom - top
  BY <1>1, <1>3, <1>4, ConcatProperties, GridFacts
<1> QED BY <1>1, <1>2, <1>5, SpliceKeeps

(* Scrolling up, with or without a history. *)
LEMMA scroll_upKeeps ==
  ASSUME NEW n \in Positive, NEW m \in Positive, NEW g \in Grids(n, m),
         NEW top \in 0..m, NEW bottom \in 0..m, top < bottom, NEW count \in Nat
  PROVE  scroll_up(g, top, bottom, count) \in Grids(n, m)
<1> DEFINE h == ShiftUp(g, top, bottom, count)
           off == IF top = 0 THEN Region(g, 0, Lesser(count, bottom)) ELSE <<>>
           q == IF off = <<>> THEN h.sb ELSE Trim(h.sb \o off)
<1>1. h \in Grids(n, m)
  BY ShiftUpKeeps
<1>2. off \in Seq(RowsOf(n))
  <2>1. 0 \in 0..m /\ Lesser(count, bottom) \in 0..m
    BY GridFacts DEF Lesser
  <2>2. Region(g, 0, Lesser(count, bottom)) \in Seq(RowsOf(n))
    BY <2>1, RegionIs
  <2> QED BY <2>2, EmptySeq
<1>3. scroll_up(g, top, bottom, count) = [h EXCEPT !.sb = q]
  BY GridFacts DEF scroll_up
<1> HIDE DEF h, off
<1>4. q \in Seq(RowsOf(n)) /\ Len(q) <= ScrollbackLimit
  <2>1. h.sb \in Seq(RowsOf(n)) /\ Len(h.sb) <= ScrollbackLimit
    BY <1>1, GridFacts
  <2>2. h.sb \o off \in Seq(RowsOf(n))
    BY <1>2, <2>1, ConcatProperties
  <2> QED BY <2>1, <2>2, TrimKeeps
<1> HIDE DEF q
<1> QED BY <1>1, <1>3, <1>4, OtherHistory

(* Scrolling down. *)
LEMMA scroll_downKeeps ==
  ASSUME NEW n \in Positive, NEW m \in Positive, NEW g \in Grids(n, m),
         NEW top \in 0..m, NEW bottom \in 0..m, top < bottom, NEW count \in Nat
  PROVE  scroll_down(g, top, bottom, count) \in Grids(n, m)
<1> DEFINE k == Lesser(count, bottom - top)
<1>1. k \in Nat /\ bottom - k \in 0..m /\ top <= bottom - k /\ bottom \in top..m
  BY GridFacts DEF Lesser
<1>2. scroll_down(g, top, bottom, count)
        = Splice(g, top, bottom, BlankRows(g, k) \o Region(g, top, bottom - k))
  BY GridFacts DEF scroll_down
<1> HIDE DEF k
<1>3. /\ Region(g, top, bottom - k) \in Seq(RowsOf(n))
      /\ Len(Region(g, top, bottom - k)) = (bottom - k) - top
  <2>1. PICK j \in 0..m : j = bottom - k
    BY <1>1
  <2>2. Region(g, top, j) \in Seq(RowsOf(n)) /\ Len(Region(g, top, j)) = IF top <= j THEN j - top ELSE 0
    BY RegionIs
  <2> QED BY <1>1, <2>1, <2>2
<1>4. BlankRows(g, k) \in Seq(RowsOf(n)) /\ Len(BlankRows(g, k)) = k
  BY <1>1, BlankRowsAre
<1>5. /\ BlankRows(g, k) \o Region(g, top, bottom - k) \in Seq(RowsOf(n))
      /\ Len(BlankRows(g, k) \o Region(g, top, bottom - k)) = bottom - top
  <2> DEFINE a == BlankRows(g, k)
             b == Region(g, top, bottom - k)
  <2>1. a \in Seq(RowsOf(n)) /\ b \in Seq(RowsOf(n)) /\ Len(a) = k /\ Len(b) = (bottom - k) - top
    BY <1>3, <1>4
  <2> HIDE DEF a, b
  <2>2. a \o b \in Seq(RowsOf(n)) /\ Len(a \o b) = k + ((bottom - k) - top)
    BY <2>1, ConcatLen
  <2>3. k + ((bottom - k) - top) = bottom - top
    BY <1>1
  <2> QED BY <2>2, <2>3 DEF a, b
<1> QED BY <1>1, <1>2, <1>5, SpliceKeeps

(* Moving cells between margins changes cells only. *)
LEMMA MoveCellsKeeps ==
  ASSUME NEW n \in Positive, NEW m \in Positive, NEW g \in Grids(n, m),
         NEW top \in 0..m, NEW bottom \in 0..m, NEW left_col \in Nat, NEW right_col \in Nat, NEW k \in Int
  PROVE  MoveCells(g, top, bottom, left_col, right_col, k) \in Grids(n, m)
<1> DEFINE New(i) == MovedCells(g, i, top, bottom, left_col, right_col, k)
           Row(i) == [g.lines[i] EXCEPT !.cells = New(i)]
           f == [i \in DOMAIN g.lines |-> IF top < i /\ i <= bottom THEN Row(i) ELSE g.lines[i]]
<1>1. ASSUME NEW i \in 1..m
      PROVE  Row(i) \in RowsOf(n)
  <2>1. g.lines[i] \in RowsOf(n)
    BY GridFacts
  <2>2. g.lines[i].cells \in [1..n -> Cells] /\ g.cols = n
    BY <2>1, RowFacts, GridFacts
  <2>3. ASSUME NEW c \in 1..n, top < i + k, i + k <= bottom
        PROVE  g.lines[i + k].cells[c] \in Cells
    <3>1. g.lines[i + k] \in RowsOf(n)
      BY <2>3, GridFacts
    <3> QED BY <3>1, RowFacts
  <2>4. New(i) \in [1..n -> Cells]
    BY <2>2, <2>3, BlankIsCell DEF MovedCells
  <2> HIDE DEF New
  <2> QED BY <2>1, <2>4 DEF RowsOf
<1>2. f \in [1..m -> RowsOf(n)]
  <2> HIDE DEF Row
  <2> QED BY <1>1, GridFacts
<1>3. MoveCells(g, top, bottom, left_col, right_col, k) = [g EXCEPT !.lines = f]
  BY DEF MoveCells
<1> HIDE DEF f
<1> QED BY <1>2, <1>3, OtherLines

(* Scrolling between margins. *)
LEMMA RegionScrollsKeep ==
  ASSUME NEW n \in Positive, NEW m \in Positive, NEW g \in Grids(n, m),
         NEW top \in 0..m, NEW bottom \in 0..m, NEW left_col \in Nat, NEW right_col \in Nat, NEW count \in Nat
  PROVE  /\ scroll_up_region(g, top, bottom, left_col, right_col, count) \in Grids(n, m)
         /\ scroll_down_region(g, top, bottom, left_col, right_col, count) \in Grids(n, m)
<1>1. Lesser(count, bottom - top) \in Int /\ -Lesser(count, bottom - top) \in Int
  BY GridFacts DEF Lesser
<1> QED BY <1>1, MoveCellsKeeps DEF scroll_up_region, scroll_down_region

(* Inserting and deleting lines inside a region. *)
LEMMA LinesKeep ==
  ASSUME NEW n \in Positive, NEW m \in Positive, NEW g \in Grids(n, m),
         NEW top \in 0..m, NEW bottom \in 0..m, NEW r \in 0..m-1, NEW count \in Nat
  PROVE  /\ insert_lines(g, r, count, top, bottom) \in Grids(n, m)
         /\ delete_lines(g, r, count, top, bottom) \in Grids(n, m)
<1>1. r \in 0..m /\ top \in Int /\ bottom \in Int
  BY GridFacts
<1>2. CASE r < top \/ r >= bottom
  BY <1>2 DEF insert_lines, delete_lines
<1>3. CASE ~(r < top \/ r >= bottom)
  <2>1. r < bottom
    BY <1>1, <1>3
  <2> QED BY <1>1, <1>3, <2>1, scroll_downKeeps, ShiftUpKeeps DEF insert_lines, delete_lines
<1> QED BY <1>2, <1>3

----------------------------------------------------------------------------
(* Cells of one line *)

(* Inserting cells: a cell comes from the line or is blank. *)
LEMMA insert_cellsKeeps ==
  ASSUME NEW n \in Positive, NEW m \in Positive, NEW g \in Grids(n, m),
         NEW r \in 0..m-1, NEW col \in Nat, NEW count \in Nat, NEW bound \in Nat
  PROVE  insert_cells_bounded(g, r, col, count, bound) \in Grids(n, m)
<1> DEFINE right_col == Lesser(bound, g.cols)
           k == Lesser(count, right_col - col)
           old == g.lines[r + 1].cells
           f == [i \in DOMAIN old |->
                   IF i <= col \/ i > right_col THEN old[i] ELSE IF i <= col + k THEN Blank ELSE old[i - k]]
<1>1. right_col \in 0..n /\ r + 1 \in 1..m
  BY GridFacts DEF Lesser
<1>2. old \in [1..n -> Cells] /\ DOMAIN old = 1..n
  <2>1. g.lines[r + 1] \in RowsOf(n)
    BY <1>1, GridFacts
  <2> QED BY <2>1, RowFacts
<1>3. CASE col >= right_col
  BY <1>3 DEF insert_cells_bounded
<1>4. CASE ~(col >= right_col)
  <2> DEFINE row == r + 1
  <2>1. insert_cells_bounded(g, r, col, count, bound) = [g EXCEPT !.lines[row].cells = f]
    BY <1>4 DEF insert_cells_bounded
  <2>5. row \in 1..m
    BY <1>1
  <2> HIDE DEF row
  <2>2. k \in Nat /\ col + k <= right_col
    BY <1>1, <1>4 DEF Lesser
  <2> HIDE DEF k, right_col, old
  <2>3. f \in [1..n -> Cells]
    <3>1. \A i \in 1..n : i > col + k => i - k \in 1..n
      BY <2>2, <1>1, GridFacts
    <3>2. \A i \in 1..n : i <= col + k \/ i > col + k
      BY <2>2
    <3> QED BY <3>1, <3>2, <1>2, BlankIsCell
  <2> HIDE DEF f
  <2> QED BY <2>1, <2>3, <2>5, OtherCells
<1> QED BY <1>3, <1>4

(* Deleting cells, likewise. *)
LEMMA delete_cellsKeeps ==
  ASSUME NEW n \in Positive, NEW m \in Positive, NEW g \in Grids(n, m),
         NEW r \in 0..m-1, NEW col \in Nat, NEW count \in Nat, NEW bound \in Nat
  PROVE  delete_cells_bounded(g, r, col, count, bound) \in Grids(n, m)
<1> DEFINE right_col == Lesser(bound, g.cols)
           k == Lesser(count, right_col - col)
           old == g.lines[r + 1].cells
           f == [i \in DOMAIN old |->
                   IF i <= col \/ i > right_col THEN old[i]
                   ELSE IF i > right_col - k THEN Blank ELSE old[i + k]]
<1>1. right_col \in 0..n /\ r + 1 \in 1..m
  BY GridFacts DEF Lesser
<1>2. old \in [1..n -> Cells] /\ DOMAIN old = 1..n
  <2>1. g.lines[r + 1] \in RowsOf(n)
    BY <1>1, GridFacts
  <2> QED BY <2>1, RowFacts
<1>3. CASE col >= right_col
  BY <1>3 DEF delete_cells_bounded
<1>4. CASE ~(col >= right_col)
  <2> DEFINE row == r + 1
  <2>1. delete_cells_bounded(g, r, col, count, bound) = [g EXCEPT !.lines[row].cells = f]
    BY <1>4 DEF delete_cells_bounded
  <2>5. row \in 1..m
    BY <1>1
  <2> HIDE DEF row
  <2>2. k \in Nat /\ col + k <= right_col
    BY <1>1, <1>4 DEF Lesser
  <2> HIDE DEF k, right_col, old
  <2>3. f \in [1..n -> Cells]
    <3>1. \A i \in 1..n : i <= right_col - k => i + k \in 1..n
      BY <2>2, <1>1, GridFacts
    <3>2. \A i \in 1..n : i > right_col - k \/ i <= right_col - k
      BY <2>2, <1>1, GridFacts
    <3> QED BY <3>1, <3>2, <1>2, BlankIsCell
  <2> HIDE DEF f
  <2> QED BY <2>1, <2>3, <2>5, OtherCells
<1> QED BY <1>3, <1>4

(* Cells of one line blanked. *)
LEMMA BlankedKeeps ==
  ASSUME NEW n \in Positive, NEW m \in Positive, NEW g \in Grids(n, m), NEW r \in 1..m, NEW S
  PROVE  [g EXCEPT !.lines[r].cells = [i \in DOMAIN @ |-> IF i \in S THEN Blank ELSE @[i]]] \in Grids(n, m)
<1> DEFINE old == g.lines[r].cells
           f == [i \in DOMAIN old |-> IF i \in S THEN Blank ELSE old[i]]
<1>1. old \in [1..n -> Cells]
  <2>1. g.lines[r] \in RowsOf(n)
    BY GridFacts
  <2> QED BY <2>1, RowFacts
<1>2. f \in [1..n -> Cells]
  <2> HIDE DEF old
  <2> QED BY <1>1, BlankIsCell
<1>3. [g EXCEPT !.lines[r].cells = [i \in DOMAIN @ |-> IF i \in S THEN Blank ELSE @[i]]]
        = [g EXCEPT !.lines[r].cells = f]
  OBVIOUS
<1> HIDE DEF f
<1> QED BY <1>2, <1>3, OtherCells

(* Clearing columns with the halves at their ends. *)
LEMMA clear_regionKeeps ==
  ASSUME NEW n \in Positive, NEW m \in Positive, NEW g \in Grids(n, m),
         NEW r \in 0..m-1, NEW from, NEW to
  PROVE  clear_region(g, r, from, to) \in Grids(n, m)
<1> DEFINE row == r + 1
           cells == g.lines[row].cells
           right_col == Lesser(to, g.cols - 1)
           head == IF from > 0 /\ from <= right_col /\ cells[from + 1].w = 0 THEN {from} ELSE {}
           tail == IF right_col + 1 < g.cols /\ cells[right_col + 1].w = 2 THEN {right_col + 2} ELSE {}
           S == (from + 1)..(right_col + 1) \cup head \cup tail
<1>1. row \in 1..m
  BY GridFacts
<1>2. clear_region(g, r, from, to)
        = [g EXCEPT !.lines[row].cells = [i \in DOMAIN @ |-> IF i \in S THEN Blank ELSE @[i]]]
  BY DEF clear_region
<1> HIDE DEF S, row
<1> QED BY <1>1, <1>2, BlankedKeeps

(* Erasing characters, likewise. *)
LEMMA erase_charsKeeps ==
  ASSUME NEW n \in Positive, NEW m \in Positive, NEW g \in Grids(n, m),
         NEW r \in 0..m-1, NEW col, NEW count
  PROVE  erase_chars(g, r, col, count) \in Grids(n, m)
<1> DEFINE row == r + 1
           cells == g.lines[row].cells
           end == Lesser(col + count, g.cols)
           head == IF col > 0 /\ cells[col + 1].w = 0 THEN {col} ELSE {}
           tail == IF end < g.cols /\ end > col /\ cells[end].w = 2 THEN {end + 1} ELSE {}
           S == (col + 1)..end \cup head \cup tail
<1>1. row \in 1..m
  BY GridFacts
<1>2. \/ erase_chars(g, r, col, count) = g
      \/ erase_chars(g, r, col, count)
           = [g EXCEPT !.lines[row].cells = [i \in DOMAIN @ |-> IF i \in S THEN Blank ELSE @[i]]]
  BY DEF erase_chars
<1> HIDE DEF S, row
<1> QED BY <1>1, <1>2, BlankedKeeps

----------------------------------------------------------------------------
(* Numbers *)

(* A set of natural numbers that is not empty has a least element: among the *)
(* intervals 0..k up to its elements one is contained in no other.           *)
LEMMA LeastNumber ==
  ASSUME NEW S \in SUBSET Nat, S # {}
  PROVE  \E k \in S : \A j \in S : k <= j
<1> DEFINE T == {0..j : j \in S}
<1>1. T \subseteq FiniteSubsetsOf(Nat) /\ T # {}
  <2>1. \A j \in S : 0..j \in FiniteSubsetsOf(Nat)
    BY FS_Interval DEF FiniteSubsetsOf
  <2> QED BY <2>1
<1>2. PICK x \in T : \A y \in T : ~(<<y, x>> \in StrictSubsetOrdering(Nat))
  <2> HIDE DEF T
  <2> QED BY <1>1, FS_StrictSubsetOrderingWellFounded, WFMin
<1>3. PICK k \in S : x = 0..k
  BY <1>2
<1>4. ASSUME NEW j \in S, j < k
      PROVE  FALSE
  <2>1. 0..j \in T /\ 0..j \subseteq x /\ k \in x /\ k \notin 0..j
    BY <1>3, <1>4
  <2>2. <<0..j, x>> \in StrictSubsetOrdering(Nat)
    <3>1. 0..j \in FiniteSubsetsOf(Nat) /\ x \in FiniteSubsetsOf(Nat) /\ 0..j # x
      BY <1>1, <2>1
    <3> QED BY <2>1, <3>1 DEF StrictSubsetOrdering
  <2> QED BY <1>2, <2>1, <2>2
<1> QED BY <1>3, <1>4

(* The least member of a set of numbers. *)
LEMMA MinIs ==
  ASSUME NEW S \in SUBSET Nat, S # {}
  PROVE  Min(S) \in S /\ \A j \in S : Min(S) <= j
BY LeastNumber DEF Min

(* The greatest member of a bounded one. *)
LEMMA MaxIs ==
  ASSUME NEW k \in Nat, NEW S \in SUBSET (0..k), S # {}
  PROVE  Max(S) \in S /\ \A j \in S : Max(S) >= j
<1> DEFINE T == {k - j : j \in S}
<1> \A j \in S : j \in Int /\ j <= k /\ k - j \in Nat
  OBVIOUS
<1>1. T \in SUBSET Nat /\ T # {}
  OBVIOUS
<1>2. PICK t \in T : \A u \in T : t <= u
  <2> HIDE DEF T
  <2> QED BY <1>1, LeastNumber
<1>3. PICK j \in S : t = k - j
  BY <1>2
<1>4. \A i \in S : j >= i
  <2> TAKE i \in S
  <2>1. k - i \in T /\ i \in Int /\ j \in Int
    OBVIOUS
  <2> QED BY <1>2, <1>3, <2>1
<1> QED BY <1>3, <1>4 DEF Max

(* Joining the members of a sequence of sequences. *)
LEMMA FlattenIsSeq ==
  ASSUME NEW S, NEW q \in Seq(Seq(S))
  PROVE  FlattenSeq(q) \in Seq(S)
<1> DEFINE k == Len(q)
           Step(f, i) == IF i = 1 THEN q[i] ELSE f[i - 1] \o q[i]
           IsFlat(f) == f = [i \in 1..k |-> Step(f, i)]
           Upto(j) == \E f \in [1..j -> Seq(S)] : \A i \in 1..j : f[i] = Step(f, i)
           Bad == {j \in 1..k : ~Upto(j)}
<1>1. k \in Nat /\ \A i \in 1..k : q[i] \in Seq(S)
  BY LenProperties
<1>2. CASE k = 0
  BY <1>2, EmptySeq DEF FlattenSeq
<1>3. CASE k # 0
  <2>1. Bad = {}
    <3> SUFFICES ASSUME Bad # {}
                 PROVE  FALSE
      OBVIOUS
    <3>1. PICK j \in Bad : \A i \in Bad : j <= i
      <4>1. Bad \in SUBSET Nat
        OBVIOUS
      <4> HIDE DEF Bad
      <4> QED BY <4>1, LeastNumber
    <3>2. j \in 1..k /\ ~Upto(j)
      BY <3>1
    <3>3. CASE j = 1
      <4>1. [i \in 1..1 |-> q[1]] \in [1..1 -> Seq(S)]
        BY <1>1, <1>3
      <4>2. \A i \in 1..1 : [h \in 1..1 |-> q[1]][i] = Step([h \in 1..1 |-> q[1]], i)
        OBVIOUS
      <4> QED BY <3>2, <3>3, <4>1, <4>2
    <3>4. CASE j # 1
      <4>1. j - 1 \in 1..k /\ j - 1 \notin Bad
        <5>1. j \in Int /\ j - 1 \in 1..k /\ ~(j <= j - 1)
          BY <3>2, <3>4, <1>1
        <5> HIDE DEF Bad
        <5> QED BY <3>1, <5>1
      <4>2. Upto(j - 1)
        BY <4>1
      <4>3. PICK f \in [1..j-1 -> Seq(S)] : \A i \in 1..j-1 : f[i] = Step(f, i)
        BY <4>2
      <4> DEFINE h == [i \in 1..j |-> IF i < j THEN f[i] ELSE f[j - 1] \o q[j]]
      <4>4. f[j - 1] \o q[j] \in Seq(S)
        <5>1. f[j - 1] \in Seq(S) /\ q[j] \in Seq(S)
          BY <1>1, <3>2, <3>4, <4>3
        <5> QED BY <5>1, ConcatProperties
      <4>5. h \in [1..j -> Seq(S)]
        BY <3>2, <4>4
      <4>6. ASSUME NEW i \in 1..j
            PROVE  h[i] = Step(h, i)
        <5>1. CASE i = j
          <6>1. j \in 1..j /\ j - 1 \in 1..j /\ j - 1 < j /\ ~(j < j)
            BY <3>2, <3>4
          <6>2. h[j] = f[j - 1] \o q[j] /\ h[j - 1] = f[j - 1]
            BY <6>1
          <6> HIDE DEF h
          <6> QED BY <5>1, <6>2, <3>4
        <5>2. CASE i # j
          <6>1. i \in 1..j-1 /\ i < j /\ i - 1 < j /\ (i # 1 => i - 1 \in 1..j)
            BY <5>2, <3>2
          <6>2. h[i] = f[i] /\ (i # 1 => h[i - 1] = f[i - 1])
            BY <6>1
          <6>3. f[i] = Step(f, i)
            BY <4>3, <6>1
          <6> HIDE DEF h
          <6> QED BY <6>2, <6>3
        <5> QED BY <5>1, <5>2
      <4> HIDE DEF h
      <4> QED BY <3>2, <4>5, <4>6
    <3> QED BY <3>3, <3>4
  <2>2. k \in 1..k
    BY <1>1, <1>3
  <2>3. PICK g \in [1..k -> Seq(S)] : \A i \in 1..k : g[i] = Step(g, i)
    BY <2>1, <2>2
  <2>4. IsFlat(g)
    BY <2>3
  <2> DEFINE flat == CHOOSE f : IsFlat(f)
  <2>5. IsFlat(flat)
    BY <2>4
  <2>6. FlattenSeq(q) = flat[k]
    BY <1>3 DEF FlattenSeq
  <2> HIDE DEF flat
  <2> DEFINE Wrong == {i \in 1..k : flat[i] \notin Seq(S)}
  <2>7. Wrong = {}
    <3> SUFFICES ASSUME Wrong # {}
                 PROVE  FALSE
      OBVIOUS
    <3>1. PICK j \in Wrong : \A i \in Wrong : j <= i
      <4>1. Wrong \in SUBSET Nat
        OBVIOUS
      <4> HIDE DEF Wrong
      <4> QED BY <4>1, LeastNumber
    <3>2. j \in 1..k /\ flat[j] = Step(flat, j)
      BY <2>5
    <3>3. CASE j = 1
      BY <3>1, <3>2, <3>3, <1>1
    <3>4. CASE j # 1
      <4>1. j - 1 \in 1..k /\ j - 1 < j
        BY <3>2, <3>4, <1>1
      <4>2. flat[j - 1] \in Seq(S) /\ q[j] \in Seq(S)
        BY <1>1, <3>1, <3>2, <4>1
      <4>3. flat[j] \in Seq(S)
        BY <3>2, <3>4, <4>2, ConcatProperties
      <4> QED BY <3>1, <4>3
    <3> QED BY <3>3, <3>4
  <2> QED BY <2>2, <2>6, <2>7
<1> QED BY <1>2, <1>3

----------------------------------------------------------------------------
(* Resizing *)

(* Division by a width. *)
LEMMA DivIsNat ==
  ASSUME NEW a \in Int, NEW n \in Positive
  PROVE  a \div n \in Int /\ (a >= 0 => a \div n \in Nat)
BY DEF Positive

(* A logical line starts at or above each of its rows. *)
LEMMA LineStartIs ==
  ASSUME NEW S, NEW q \in Seq(S), NEW i \in 1..Len(q)
  PROVE  LineStart(q, i) \in 1..i
<1> DEFINE T == {k \in 1..i : k = 1 \/ ~q[k].cont}
<1>1. i \in Nat /\ i >= 1
  BY LenProperties
<1>2. 1 \in T /\ T \in SUBSET (0..i)
  BY <1>1
<1>3. LineStart(q, i) = Max(T)
  BY DEF LineStart
<1>4. Max(T) \in T
  <2> HIDE DEF T
  <2> QED BY <1>1, <1>2, MaxIs
<1> QED BY <1>3, <1>4

(* It ends at or below them. *)
LEMMA LineEndIs ==
  ASSUME NEW S, NEW q \in Seq(S), NEW i \in 1..Len(q)
  PROVE  LineEnd(q, i) \in i..Len(q)
<1> DEFINE T == {k \in i..Len(q) : k = Len(q) \/ ~q[k + 1].cont}
<1>1. i \in Nat /\ Len(q) \in Nat /\ i <= Len(q)
  BY LenProperties
<1>2. Len(q) \in T /\ T \in SUBSET Nat
  BY <1>1
<1>3. LineEnd(q, i) = Min(T)
  BY DEF LineEnd
<1>4. Min(T) \in T
  <2> HIDE DEF T
  <2> QED BY <1>2, MinIs
<1> QED BY <1>3, <1>4

(* Content counts no more than there is. *)
LEMMA ContentIs ==
  ASSUME NEW S, NEW cells \in Seq(S)
  PROVE  Content(cells) \in 0..Len(cells)
<1> DEFINE T == {0} \cup {k \in DOMAIN cells : cells[k] # Blank}
<1>1. Len(cells) \in Nat /\ T \in SUBSET (0..Len(cells)) /\ T # {}
  BY LenProperties
<1>2. Max(T) \in T
  <2> HIDE DEF T
  <2> QED BY <1>1, MaxIs
<1> QED BY <1>1, <1>2 DEF Content

(* Cells cut or filled up to a width. *)
LEMMA ResizeCellsIs ==
  ASSUME NEW n \in Positive, NEW cells \in Seq(Cells)
  PROVE  ResizeCells(cells, n) \in [1..n -> Cells]
<1>1. \A i \in 1..n : i <= Len(cells) => cells[i] \in Cells
  BY LenProperties DEF Positive
<1> QED BY <1>1, BlankIsCell DEF ResizeCells

(* A joined line is cut into whole rows. *)
LEMMA CutLineIs ==
  ASSUME NEW n \in Positive, NEW all \in Seq(Cells), NEW len \in Nat
  PROVE  CutLine(all, len, n) \in Seq(RowsOf(n))
<1> DEFINE k == (len + n - 1) \div n
           part(i) == SubSeq(all, (i-1)*n + 1, Lesser(i*n, Len(all)))
           row(i) == [cells |-> ResizeCells(part(i), n), cont |-> i > 1]
<1>1. k \in Nat
  <2>1. len + n - 1 \in Int /\ len + n - 1 >= 0
    BY DEF Positive
  <2> QED BY <2>1, DivIsNat
<1>2. ASSUME NEW i \in 1..k
      PROVE  row(i) \in RowsOf(n)
  <2>1. i \in Nat /\ i >= 1 /\ n \in Nat /\ Len(all) \in Nat
    BY <1>1, LenProperties DEF Positive
  <2>2. (i-1)*n \in Nat /\ i*n \in Nat
    BY <2>1
  <2> DEFINE low == (i-1)*n + 1
             high == Lesser(i*n, Len(all))
  <2>3. low \in Int /\ low >= 1 /\ high \in Int /\ high <= Len(all)
    BY <2>1, <2>2 DEF Lesser
  <2> HIDE DEF low, high
  <2>4. \A j \in low..high : all[j] \in Cells
    BY <2>1, <2>3, LenProperties
  <2>5. SubSeq(all, low, high) \in Seq(Cells)
    BY <2>3, <2>4, SubSeqProperties
  <2>6. part(i) \in Seq(Cells)
    BY <2>5 DEF low, high
  <2> HIDE DEF part
  <2>7. ResizeCells(part(i), n) \in [1..n -> Cells]
    BY <2>6, ResizeCellsIs
  <2> QED BY <2>7 DEF RowsOf
<1>3. CutLine(all, len, n) = [i \in 1..k |-> row(i)]
  BY DEF CutLine
<1> HIDE DEF k, row
<1>4. [i \in 1..k |-> row(i)] \in [1..k -> RowsOf(n)]
  BY <1>2
<1> QED BY <1>1, <1>3, <1>4, TupleIsSeq

(* A row cut or filled up to n cells. *)
LEMMA ResizedRow ==
  ASSUME NEW n \in Positive, NEW k \in Positive, NEW row \in RowsOf(k)
  PROVE  [row EXCEPT !.cells = ResizeCells(@, n)] \in RowsOf(n)
<1>1. row.cells \in Seq(Cells) /\ row.cont \in BOOLEAN
  BY RowFacts
<1> DEFINE cells == ResizeCells(row.cells, n)
<1>2. cells \in [1..n -> Cells]
  BY <1>1, ResizeCellsIs
<1>3. [row EXCEPT !.cells = ResizeCells(@, n)] = [row EXCEPT !.cells = cells]
  OBVIOUS
<1> HIDE DEF cells
<1> QED BY <1>1, <1>2, <1>3 DEF RowsOf

(* One logical line at a new width is at least one row. *)
LEMMA RewrapIs ==
  ASSUME NEW n \in Positive, NEW k \in Positive, NEW line \in Seq(RowsOf(k)), line # <<>>
  PROVE  Rewrap(line, n) \in Seq(RowsOf(n))
<1> DEFINE q == [i \in DOMAIN line |-> line[i].cells]
           all == FlattenSeq(q)
<1>1. Len(line) \in Nat /\ Len(line) >= 1 /\ DOMAIN line = 1..Len(line)
      /\ \A i \in 1..Len(line) : line[i] \in RowsOf(k)
  BY LenProperties, EmptySeq
<1>2. all \in Seq(Cells)
  <2>1. \A i \in 1..Len(line) : line[i].cells \in Seq(Cells)
    BY <1>1, RowFacts
  <2>2. q \in [1..Len(line) -> Seq(Cells)]
    BY <1>1, <2>1
  <2>3. q \in Seq(Seq(Cells))
    <3> HIDE DEF q
    <3> QED BY <1>1, <2>2, TupleIsSeq
  <2> HIDE DEF q
  <2> QED BY <2>3, FlattenIsSeq
<1>3. Content(all) \in Nat
  <2> HIDE DEF all
  <2>1. Len(all) \in Nat
    BY <1>2, LenProperties
  <2> QED BY <1>2, <2>1, ContentIs
<1> DEFINE one == [line[1] EXCEPT !.cells = ResizeCells(@, n)]
<1>4. one \in RowsOf(n)
  BY <1>1, ResizedRow
<1>5. CutLine(all, Content(all), n) \in Seq(RowsOf(n))
  <2> HIDE DEF all
  <2> QED BY <1>2, <1>3, CutLineIs
<1>6. NewRow(n) \in RowsOf(n)
  BY NewRowIsRow
<1>7. Rewrap(line, n) \in {<<one>>, <<NewRow(n)>>, CutLine(all, Content(all), n)}
  BY DEF Rewrap
<1> HIDE DEF one, all
<1>8. <<one>> \in Seq(RowsOf(n)) /\ <<NewRow(n)>> \in Seq(RowsOf(n))
  BY <1>4, <1>6
<1> QED BY <1>5, <1>7, <1>8

(* All of them: at least one row for the first row of each. *)
LEMMA RewrappedIs ==
  ASSUME NEW n \in Positive, NEW k \in Positive, NEW q \in Seq(RowsOf(k))
  PROVE  /\ Rewrapped(q, n) \in Seq(Seq(RowsOf(n)))
         /\ Len(Rewrapped(q, n)) = Len(q)
<1>1. Len(q) \in Nat /\ DOMAIN q = 1..Len(q) /\ \A i \in 1..Len(q) : q[i] \in RowsOf(k)
  BY LenProperties
<1>2. ASSUME NEW i \in 1..Len(q)
      PROVE  Rewrap(SubSeq(q, i, LineEnd(q, i)), n) \in Seq(RowsOf(n))
  <2>1. LineEnd(q, i) \in i..Len(q)
    BY LineEndIs
  <2> DEFINE end == LineEnd(q, i)
             line == SubSeq(q, i, end)
  <2>2. i \in Int /\ end \in Int /\ i <= end /\ \A j \in i..end : q[j] \in RowsOf(k)
    BY <1>1, <2>1
  <2> HIDE DEF end
  <2>3. line \in Seq(RowsOf(k)) /\ Len(line) = end - i + 1
    BY <2>2, SubSeqProperties
  <2> HIDE DEF line
  <2>4. line # <<>>
    BY <2>2, <2>3, EmptySeq
  <2>5. Rewrap(line, n) \in Seq(RowsOf(n))
    BY <2>3, <2>4, RewrapIs
  <2> QED BY <2>5 DEF line, end
<1> DEFINE made(i) == Rewrap(SubSeq(q, i, LineEnd(q, i)), n)
           f == [i \in 1..Len(q) |-> IF LineStart(q, i) = i THEN made(i) ELSE <<>>]
<1>3. Rewrapped(q, n) = f
  BY <1>1 DEF Rewrapped
<1>4. f \in [1..Len(q) -> Seq(RowsOf(n))]
  <2> HIDE DEF made
  <2>1. \A i \in 1..Len(q) : made(i) \in Seq(RowsOf(n))
    BY <1>2 DEF made
  <2> QED BY <2>1, EmptySeq
<1> HIDE DEF f
<1> QED BY <1>1, <1>3, <1>4, TupleIsSeq

(* The rewrapped rows and where the cursor's row lands. *)
LEMMA ReflowIs ==
  ASSUME NEW n \in Positive, NEW k \in Positive, NEW q \in Seq(RowsOf(k)),
         NEW at \in 0..Len(q)-1, NEW col \in Nat
  PROVE  /\ reflow_lines(q, k, n, at, col).rows \in Seq(RowsOf(n))
         /\ reflow_lines(q, k, n, at, col).row \in Int
<1> DEFINE made == Rewrapped(q, n)
           start == LineStart(q, at + 1)
           end == LineEnd(q, start)
           offset == (at + 1 - start) * k + col
           landing == Landing(start, end, made[start], offset, n)
           before == SubSeq(made, 1, start - 1)
<1>1. Len(q) \in Nat /\ at + 1 \in 1..Len(q)
  BY LenProperties
<1>2. start \in 1..(at + 1)
  BY <1>1, LineStartIs
<1>3. made \in Seq(Seq(RowsOf(n))) /\ Len(made) = Len(q)
  BY RewrappedIs
<1>4. start \in Int /\ start \in 1..Len(q) /\ offset \in Int
  <2> HIDE DEF start
  <2>1. start \in Int /\ start \in 1..Len(q) /\ at + 1 - start \in Int /\ k \in Int
    BY <1>1, <1>2 DEF Positive
  <2>2. (at + 1 - start) * k \in Int
    BY <2>1
  <2> QED BY <2>1, <2>2
<1> HIDE DEF made, start
<1>5. landing \in Int
  <2> HIDE DEF offset
  <2>1. offset \div n \in Int
    BY <1>4, DivIsNat
  <2>2. made[start] \in Seq(RowsOf(n))
    BY <1>3, <1>4, LenProperties
  <2>3. Len(made[start]) - 1 \in Int
    BY <2>2, LenProperties
  <2> QED BY <2>1, <2>3 DEF Landing, Lesser
<1>6. FlattenSeq(before) \in Seq(RowsOf(n))
  <2>1. start - 1 \in Int /\ \A i \in 1..start-1 : made[i] \in Seq(RowsOf(n))
    BY <1>1, <1>3, <1>4, LenProperties
  <2>2. before \in Seq(Seq(RowsOf(n)))
    BY <2>1, SubSeqProperties
  <2> HIDE DEF before
  <2> QED BY <2>2, FlattenIsSeq
<1>7. Len(FlattenSeq(before)) \in Nat
  BY <1>6, LenProperties
<1>8. reflow_lines(q, k, n, at, col)
        = [rows |-> FlattenSeq(made), row |-> Len(FlattenSeq(before)) + landing]
  BY DEF reflow_lines, Gathered, made, start
<1>9. FlattenSeq(made) \in Seq(RowsOf(n))
  BY <1>3, FlattenIsSeq
<1> HIDE DEF landing, before
<1> QED BY <1>5, <1>7, <1>8, <1>9

(* Between the change of the width and that of the height a grid has any *)
(* number of lines.                                                      *)
Uneven(n) ==
  {g \in [cols : {n}, lines : Seq(RowsOf(n)), sb : Seq(RowsOf(n))] : Len(g.sb) <= ScrollbackLimit}

(* The rewrapped grid has the made width, with any number of lines. *)
LEMMA ReflowToIs ==
  ASSUME NEW n \in Positive, NEW k \in Positive, NEW m \in Positive, NEW j \in Positive,
         NEW g \in Grids(k, j), NEW r \in 0..j-1, NEW c \in Nat
  PROVE  ReflowTo(g, n, m, r, c).grid \in Uneven(n) /\ ReflowTo(g, n, m, r, c).delta \in Int
<1> DEFINE q == g.sb \o g.lines
           at == Len(g.sb) + r
           made == reflow_lines(q, k, n, at, c)
           up == Greater(Len(made.rows) - m, 0)
           sb == SubSeq(made.rows, 1, up)
           lines == SubSeq(made.rows, up + 1, Len(made.rows))
<1>1. q \in Seq(RowsOf(k)) /\ Len(q) = Len(g.sb) + j
  <2>1. g.sb \in Seq(RowsOf(k)) /\ g.lines \in Seq(RowsOf(k)) /\ Len(g.lines) = j
    BY GridFacts
  <2> QED BY <2>1, ConcatProperties
<1>2. at \in 0..Len(q)-1
  BY <1>1, GridFacts
<1>3. made.rows \in Seq(RowsOf(n)) /\ made.row \in Int
  <2> HIDE DEF q, at
  <2> QED BY <1>1, <1>2, ReflowIs
<1>4. ReflowTo(g, n, m, r, c)
        = [grid |-> [cols |-> n, sb |-> Trim(sb), lines |-> lines],
           delta |-> Greater(made.row - up, 0) - r]
  BY GridFacts DEF ReflowTo, Shown
<1> HIDE DEF made
<1>5. Len(made.rows) \in Nat /\ \A i \in 1..Len(made.rows) : made.rows[i] \in RowsOf(n)
  BY <1>3, LenProperties
<1>6. up \in Nat /\ (up = 0 \/ up <= Len(made.rows))
  <2> HIDE DEF made
  <2> QED BY <1>5, GridFacts DEF Greater, Positive
<1>7. Greater(made.row - up, 0) - r \in Int
  <2> HIDE DEF up
  <2> QED BY <1>3, <1>6, GridFacts DEF Greater
<1> HIDE DEF up
<1>8. sb \in Seq(RowsOf(n))
  <2>1. up \in Int /\ \A i \in 1..up : made.rows[i] \in RowsOf(n)
    BY <1>5, <1>6
  <2> QED BY <2>1, SubSeqProperties
<1>9. lines \in Seq(RowsOf(n))
  <2>1. up + 1 \in Int /\ Len(made.rows) \in Int /\ \A i \in up+1..Len(made.rows) : made.rows[i] \in RowsOf(n)
    BY <1>5, <1>6
  <2> QED BY <2>1, SubSeqProperties
<1>10. Trim(sb) \in Seq(RowsOf(n)) /\ Len(Trim(sb)) <= ScrollbackLimit
  <2> HIDE DEF sb
  <2> QED BY <1>8, TrimKeeps
<1> HIDE DEF sb, lines
<1> QED BY <1>4, <1>7, <1>9, <1>10 DEF Uneven

(* What membership in Uneven says. *)
LEMMA UnevenFacts ==
  ASSUME NEW n \in Positive, NEW g \in Uneven(n)
  PROVE  /\ g.cols = n /\ g.lines \in Seq(RowsOf(n)) /\ Len(g.lines) \in Nat /\ Rows(g) = Len(g.lines)
         /\ DOMAIN g.lines = 1..Len(g.lines) /\ \A i \in 1..Len(g.lines) : g.lines[i] \in RowsOf(n)
         /\ g.sb \in Seq(RowsOf(n)) /\ Len(g.sb) \in Nat /\ Len(g.sb) <= ScrollbackLimit
         /\ \A i \in 1..Len(g.sb) : g.sb[i] \in RowsOf(n)
<1>1. g.cols = n /\ g.lines \in Seq(RowsOf(n)) /\ g.sb \in Seq(RowsOf(n)) /\ Len(g.sb) <= ScrollbackLimit
  BY DEF Uneven
<1> QED BY <1>1, LenProperties DEF Rows

(* A grid of that width with the right number of lines is a grid. *)
LEMMA EvenIs ==
  ASSUME NEW n \in Positive, NEW m \in Positive, NEW g \in Uneven(n),
         NEW lines \in Seq(RowsOf(n)), Len(lines) = m,
         NEW sb \in Seq(RowsOf(n)), Len(sb) <= ScrollbackLimit
  PROVE  [g EXCEPT !.lines = lines, !.sb = sb] \in Grids(n, m)
<1>1. lines \in [1..m -> RowsOf(n)]
  BY SeqIsTuple DEF Positive
<1> QED BY <1>1 DEF Uneven, Grids

(* Growing takes rows back from the history. *)
LEMMA TakeBackIs ==
  ASSUME NEW n \in Positive, NEW m \in Positive, NEW g \in Uneven(n),
         NEW k \in Nat, k <= Len(g.sb), Len(g.lines) + k <= m
  PROVE  TakeBack(g, k, m) \in Grids(n, m)
<1> DEFINE back == Newest(g, k)
           blank == BlankRows(g, m - Len(g.lines) - k)
           sb == SubSeq(g.sb, 1, Len(g.sb) - k)
           lines == (back \o g.lines) \o blank
<1>1. back \in Seq(RowsOf(n)) /\ Len(back) = k
  <2> DEFINE row(i) == [g.sb[Len(g.sb) + 1 - i] EXCEPT !.cells = ResizeCells(@, g.cols)]
  <2>1. ASSUME NEW i \in 1..k
        PROVE  row(i) \in RowsOf(n)
    <3>1. Len(g.sb) + 1 - i \in 1..Len(g.sb)
      BY UnevenFacts
    <3> DEFINE old == g.sb[Len(g.sb) + 1 - i]
    <3>2. old \in RowsOf(n) /\ g.cols = n
      BY <3>1, UnevenFacts
    <3>3. row(i) = [old EXCEPT !.cells = ResizeCells(@, n)]
      BY <3>2
    <3> HIDE DEF old, row
    <3> QED BY <3>2, <3>3, ResizedRow
  <2>2. back = [i \in 1..k |-> row(i)]
    BY DEF Newest
  <2> HIDE DEF row
  <2>3. [i \in 1..k |-> row(i)] \in [1..k -> RowsOf(n)]
    BY <2>1
  <2> QED BY <2>2, <2>3, TupleIsSeq
<1>2. blank \in Seq(RowsOf(n)) /\ Len(blank) = m - Len(g.lines) - k
  <2> DEFINE j == m - Len(g.lines) - k
  <2>1. j \in Nat
    BY UnevenFacts DEF Positive
  <2> HIDE DEF j
  <2>2. NewRow(g.cols) \in RowsOf(n)
    BY UnevenFacts, NewRowIsRow
  <2>3. BlankRows(g, j) \in [1..j -> RowsOf(n)]
    BY <2>2 DEF BlankRows
  <2>4. BlankRows(g, j) \in Seq(RowsOf(n)) /\ Len(BlankRows(g, j)) = j
    BY <2>1, <2>3, TupleIsSeq
  <2> QED BY <2>4 DEF j
<1>3. sb \in Seq(RowsOf(n)) /\ Len(sb) <= ScrollbackLimit
  <2>1. Len(g.sb) - k \in Nat /\ \A i \in 1..(Len(g.sb) - k) : g.sb[i] \in RowsOf(n)
    BY UnevenFacts
  <2>2. sb \in Seq(RowsOf(n)) /\ (Len(sb) = Len(g.sb) - k \/ Len(sb) = 0)
    BY <2>1, SubSeqProperties
  <2> HIDE DEF sb
  <2> QED BY <2>1, <2>2, UnevenFacts, LimitAssumption
<1>4. TakeBack(g, k, m) = [g EXCEPT !.lines = lines, !.sb = sb]
  BY UnevenFacts DEF TakeBack, Uneven
<1> HIDE DEF back, blank, sb
<1>5. lines \in Seq(RowsOf(n)) /\ Len(lines) = m
  <2> DEFINE upper == back \o g.lines
  <2>1. g.lines \in Seq(RowsOf(n)) /\ Len(g.lines) \in Nat /\ m \in Nat
    BY UnevenFacts DEF Positive
  <2>2. upper \in Seq(RowsOf(n)) /\ Len(upper) = k + Len(g.lines)
    BY <1>1, <2>1, ConcatLen
  <2> HIDE DEF upper
  <2>3. /\ upper \o blank \in Seq(RowsOf(n))
        /\ Len(upper \o blank) = (k + Len(g.lines)) + (m - Len(g.lines) - k)
    BY <1>2, <2>2, ConcatLen
  <2>4. (k + Len(g.lines)) + (m - Len(g.lines) - k) = m
    <3>1. \A x, y, z \in Int : (x + y) + (z - y - x) = z
      OBVIOUS
    <3>2. k \in Int /\ Len(g.lines) \in Int /\ m \in Int
      BY <2>1
    <3> QED BY <3>1, <3>2, Zenon
  <2> QED BY <2>3, <2>4 DEF upper
<1> HIDE DEF lines
<1>6. [g EXCEPT !.lines = lines, !.sb = sb] \in Grids(n, m)
  BY <1>3, <1>5, EvenIs
<1> QED BY <1>4, <1>6

(* No more rows look empty than there are. *)
LEMMA EmptyBelowIs ==
  ASSUME NEW S, NEW lines \in Seq(S)
  PROVE  EmptyBelow(lines) \in 0..Len(lines)
<1> DEFINE T == {0} \cup {i \in DOMAIN lines : ~LooksEmpty(lines[i])}
<1>1. Len(lines) \in Nat /\ T \in SUBSET (0..Len(lines)) /\ T # {}
  BY LenProperties
<1>2. Max(T) \in T
  <2> HIDE DEF T
  <2> QED BY <1>1, MaxIs
<1>3. EmptyBelow(lines) = Len(lines) - Max(T)
  BY DEF EmptyBelow
<1>4. Max(T) \in 0..Len(lines)
  BY <1>1, <1>2
<1> HIDE DEF T
<1> QED BY <1>1, <1>3, <1>4

(* Growing and shrinking end at the number of rows asked for. *)
LEMMA FitRowsIs ==
  ASSUME NEW n \in Positive, NEW m \in Positive, NEW a,
         a = [grid |-> a.grid, delta |-> a.delta], a.grid \in Uneven(n), a.delta \in Int
  PROVE  FitRows(a, m).grid \in Grids(n, m) /\ FitRows(a, m).delta \in Int
<1> DEFINE g == a.grid
<1>1. g \in Uneven(n)
  OBVIOUS
<1>2. m \in Nat /\ m >= 1
  BY DEF Positive
<1>3. CASE m > Rows(g)
  <2> DEFINE k == Back(g, m)
  <2>1. k \in Nat /\ k <= Len(g.sb) /\ Len(g.lines) + k <= m
    BY <1>1, <1>2, <1>3, UnevenFacts DEF Back, Lesser
  <2>2. /\ FitRows(a, m).grid = TakeBack(g, k, m)
        /\ FitRows(a, m).delta = a.delta + k
    BY <1>3 DEF FitRows, GrowRows
  <2> HIDE DEF k, g
  <2> QED BY <1>1, <2>1, <2>2, TakeBackIs DEF g
<1>4. CASE ~(m > Rows(g))
  <2> DEFINE excess == Rows(g) - m
             up == excess - Lesser(excess, EmptyBelow(g.lines))
             lines == SubSeq(g.lines, up + 1, up + m)
             gone == SubSeq(g.lines, 1, up)
             sb == Trim(g.sb \o gone)
  <2>1. FitRows(a, m) = [grid |-> [g EXCEPT !.lines = lines, !.sb = sb], delta |-> a.delta - up]
    BY <1>4 DEF FitRows, ShrinkRows
  <2> HIDE DEF g
  <2>2. up \in Nat /\ up + m <= Len(g.lines)
    <3>1. EmptyBelow(g.lines) \in 0..Len(g.lines) /\ Len(g.lines) \in Nat /\ Rows(g) = Len(g.lines)
      BY <1>1, UnevenFacts, EmptyBelowIs
    <3>2. excess \in Nat
      BY <3>1, <1>2, <1>4
    <3> HIDE DEF excess
    <3>3. up \in Nat /\ up <= excess
      BY <3>1, <3>2 DEF Lesser
    <3> HIDE DEF up
    <3> QED BY <3>1, <3>2, <3>3, <1>2 DEF excess
  <2> HIDE DEF up
  <2>3. lines \in Seq(RowsOf(n)) /\ Len(lines) = m
    <3>1. /\ up + 1 \in Int /\ up + m \in Int /\ up + 1 <= up + m /\ (up + m) - (up + 1) + 1 = m
          /\ \A i \in up+1..up+m : g.lines[i] \in RowsOf(n)
      <4>1. Len(g.lines) \in Nat /\ \A i \in 1..Len(g.lines) : g.lines[i] \in RowsOf(n)
        BY <1>1, UnevenFacts
      <4>2. up + 1 \in Int /\ up + m \in Int /\ up + 1 <= up + m /\ (up + m) - (up + 1) + 1 = m
        BY <1>2, <2>2
      <4>3. \A i \in up+1..up+m : i \in 1..Len(g.lines)
        BY <4>1, <1>2, <2>2
      <4> QED BY <4>1, <4>2, <4>3
    <3> DEFINE low == up + 1
               high == up + m
    <3> HIDE DEF low, high
    <3>2. /\ low \in Int /\ high \in Int /\ low <= high /\ high - low + 1 = m
          /\ \A i \in low..high : g.lines[i] \in RowsOf(n)
      BY <3>1 DEF low, high
    <3>3. SubSeq(g.lines, low, high) \in Seq(RowsOf(n)) /\ Len(SubSeq(g.lines, low, high)) = m
      BY <3>2, SubSeqProperties
    <3> QED BY <3>3 DEF low, high
  <2>4. sb \in Seq(RowsOf(n)) /\ Len(sb) <= ScrollbackLimit
    <3>1. \A i \in 1..up : g.lines[i] \in RowsOf(n)
      BY <1>1, <1>2, <2>2, UnevenFacts
    <3>2. gone \in Seq(RowsOf(n))
      BY <2>2, <3>1, SubSeqProperties
    <3> HIDE DEF gone
    <3>3. g.sb \o gone \in Seq(RowsOf(n))
      BY <1>1, <3>2, UnevenFacts, ConcatProperties
    <3> QED BY <3>3, TrimKeeps
  <2> HIDE DEF lines, sb
  <2>5. [g EXCEPT !.lines = lines, !.sb = sb] \in Grids(n, m)
    BY <1>1, <2>3, <2>4, EvenIs
  <2> QED BY <2>1, <2>2, <2>5
<1> QED BY <1>3, <1>4

(* A resized grid has the new size, and the cursor moves by some whole number of rows. *)
LEMMA ResizedIs ==
  ASSUME NEW n \in Positive, NEW k \in Positive, NEW m \in Positive, NEW j \in Positive,
         NEW g \in Grids(k, j), NEW r \in 0..j-1, NEW c \in Nat
  PROVE  /\ resize_with_cursor(g, n, m, r, c).grid \in Grids(n, m)
         /\ resize_with_cursor(g, n, m, r, c).delta \in Int
<1> DEFINE a == IF n = g.cols THEN [grid |-> g, delta |-> 0] ELSE ReflowTo(g, n, m, r, c)
<1>1. a = [grid |-> a.grid, delta |-> a.delta] /\ a.grid \in Uneven(n) /\ a.delta \in Int
  <2>1. CASE n = g.cols
    <3>1. g \in Uneven(n)
      <4>1. g \in [cols : {n}, lines : [1..j -> RowsOf(n)], sb : Seq(RowsOf(n))]
        BY <2>1, GridFacts DEF Grids
      <4> QED BY <2>1, <4>1, GridFacts DEF Uneven
    <3> QED BY <2>1, <3>1
  <2>2. CASE n # g.cols
    <3>1. ReflowTo(g, n, m, r, c) = [grid |-> ReflowTo(g, n, m, r, c).grid, delta |-> ReflowTo(g, n, m, r, c).delta]
      BY DEF ReflowTo, Shown
    <3> QED BY <2>2, <3>1, ReflowToIs
  <2> QED BY <2>1, <2>2
<1>2. resize_with_cursor(g, n, m, r, c) = FitRows(a, m)
  BY DEF resize_with_cursor
<1> HIDE DEF a
<1> QED BY <1>1, <1>2, FitRowsIs

----------------------------------------------------------------------------
(* Screens *)

(* The part of a screen that only an exchange of the two screens, a reset or *)
(* a resize may change, and the screens that agree with it on that part and  *)
(* have their cursor on the grid.                                            *)
Rest(s) == <<s.hidden, s.hidden_cur, s.modes.alt>>
Live(n, m, h) == {s \in Screens(n, m) : s.cur \in Cursors(n, m) /\ Rest(s) = h}

(* What membership in Screens says. *)
LEMMA ScreenFacts ==
  ASSUME NEW n \in Positive, NEW m \in Positive, NEW s \in Screens(n, m)
  PROVE  /\ s.grid \in Grids(n, m) /\ s.hidden \in Grids(n, m) /\ cols(s) = n /\ rows(s) = m
         /\ n \in Nat /\ m \in Nat /\ n >= 1 /\ m >= 1
         /\ s.top \in 0..m /\ s.bottom \in 0..m /\ s.top < s.bottom
         /\ s.left \in 0..n /\ s.right \in 0..n /\ s.left < s.right
         /\ s.cur.row \in Nat /\ s.cur.col \in Nat /\ s.cur = [row |-> s.cur.row, col |-> s.cur.col]
         /\ s.modes \in ModeSets /\ s.pending \in BOOLEAN /\ s.prot \in BOOLEAN
         /\ s.saved \in Seq(SavedCursors(n, m)) /\ s.saved_modes \in Seq(ModeSets)
         /\ s.last \in Chars \cup {NoChar} /\ s.stops \in SUBSET (0..n-1) /\ s.vp \in Nat
<1>1. s.grid \in Grids(n, m) /\ s.hidden \in Grids(n, m)
  BY DEF Screens
<1>2. cols(s) = n /\ rows(s) = m /\ n \in Nat /\ m \in Nat /\ n >= 1 /\ m >= 1
  BY <1>1, GridFacts DEF cols, rows
<1> QED BY <1>1, <1>2 DEF Screens

(* And in Live. *)
LEMMA LiveFacts ==
  ASSUME NEW n \in Positive, NEW m \in Positive, NEW h, NEW s \in Live(n, m, h)
  PROVE  /\ s \in Screens(n, m) /\ s.cur \in Cursors(n, m) /\ Rest(s) = h
         /\ s.cur.row \in 0..m-1 /\ s.cur.col \in 0..n-1
         /\ s.grid \in Grids(n, m) /\ s.cur.row \in Nat /\ s.cur.col \in Nat
         /\ s.prot \in BOOLEAN /\ s.pending \in BOOLEAN
<1>1. s \in Screens(n, m) /\ s.cur \in Cursors(n, m) /\ Rest(s) = h
  BY DEF Live
<1>2. s.cur.row \in 0..m-1 /\ s.cur.col \in 0..n-1
  BY <1>1 DEF Cursors
<1> QED BY <1>1, <1>2, ScreenFacts

(* A live screen with another grid of its size. *)
LEMMA OtherGrid ==
  ASSUME NEW n \in Positive, NEW m \in Positive, NEW h, NEW s \in Live(n, m, h), NEW g \in Grids(n, m)
  PROVE  [s EXCEPT !.grid = g] \in Live(n, m, h)
<1>1. [s EXCEPT !.grid = g] \in Screens(n, m)
  BY DEF Live, Screens
<1> QED BY <1>1 DEF Live, Screens, Rest

(* With another cursor on the grid. *)
LEMMA OtherCursor ==
  ASSUME NEW n \in Positive, NEW m \in Positive, NEW h, NEW s \in Live(n, m, h), NEW p \in Cursors(n, m)
  PROVE  [s EXCEPT !.cur = p] \in Live(n, m, h)
<1>1. p \in [row : Nat, col : Nat]
  BY DEF Cursors, Positive
<1>2. [s EXCEPT !.cur = p] \in Screens(n, m)
  BY <1>1 DEF Live, Screens
<1> QED BY <1>2 DEF Live, Screens, Rest

(* With its cursor in another row. *)
LEMMA OtherRow ==
  ASSUME NEW n \in Positive, NEW m \in Positive, NEW h, NEW s \in Live(n, m, h), NEW r \in 0..m-1
  PROVE  [s EXCEPT !.cur.row = r] \in Live(n, m, h)
<1> DEFINE p == [s.cur EXCEPT !.row = r]
<1>1. p \in Cursors(n, m)
  BY DEF Live, Cursors
<1>2. [s EXCEPT !.cur.row = r] = [s EXCEPT !.cur = p]
  OBVIOUS
<1> HIDE DEF p
<1> QED BY <1>1, <1>2, OtherCursor

(* With its cursor in another column. *)
LEMMA OtherCol ==
  ASSUME NEW n \in Positive, NEW m \in Positive, NEW h, NEW s \in Live(n, m, h), NEW c \in 0..n-1
  PROVE  [s EXCEPT !.cur.col = c] \in Live(n, m, h)
<1> DEFINE p == [s.cur EXCEPT !.col = c]
<1>1. p \in Cursors(n, m)
  BY DEF Live, Cursors
<1>2. [s EXCEPT !.cur.col = c] = [s EXCEPT !.cur = p]
  OBVIOUS
<1> HIDE DEF p
<1> QED BY <1>1, <1>2, OtherCursor

(* With a wrap pending or not. *)
LEMMA OtherPending ==
  ASSUME NEW n \in Positive, NEW m \in Positive, NEW h, NEW s \in Live(n, m, h), NEW b \in BOOLEAN
  PROVE  [s EXCEPT !.pending = b] \in Live(n, m, h)
<1>1. [s EXCEPT !.pending = b] \in Screens(n, m)
  BY DEF Live, Screens
<1> QED BY <1>1 DEF Live, Screens, Rest

(* Without one. *)
LEMMA UnpendKeeps ==
  ASSUME NEW n \in Positive, NEW m \in Positive, NEW h, NEW s \in Live(n, m, h)
  PROVE  Unpend(s) \in Live(n, m, h)
<1>1. FALSE \in BOOLEAN
  OBVIOUS
<1> QED BY <1>1, OtherPending DEF Unpend

(* With the cursor put somewhere on the grid. *)
LEMMA AtKeeps ==
  ASSUME NEW n \in Positive, NEW m \in Positive, NEW h, NEW s \in Live(n, m, h),
         NEW r \in 0..m-1, NEW c \in 0..n-1
  PROVE  At(s, r, c) \in Live(n, m, h)
<1> DEFINE p == [row |-> r, col |-> c]
           t == [s EXCEPT !.cur = p]
<1>1. p \in Cursors(n, m)
  BY DEF Cursors
<1>2. At(s, r, c) = Unpend(t)
  BY DEF At, Unpend
<1> HIDE DEF p
<1>3. t \in Live(n, m, h)
  BY <1>1, OtherCursor
<1> HIDE DEF t
<1> QED BY <1>2, <1>3, UnpendKeeps

(* With more damage; damage is cut down to the rows there are. *)
LEMMA DamageKeeps ==
  ASSUME NEW n \in Positive, NEW m \in Positive, NEW h, NEW s \in Live(n, m, h), NEW rr
  PROVE  record_damage(s, rr) \in Live(n, m, h)
<1> DEFINE d == s.damage \cup (rr \cap AllRows(s))
<1>1. d \in SUBSET Nat
  BY ScreenFacts DEF Live, Screens, AllRows
<1>2. record_damage(s, rr) = [s EXCEPT !.damage = d]
  BY DEF record_damage
<1> HIDE DEF d
<1>3. [s EXCEPT !.damage = d] \in Screens(n, m)
  BY <1>1 DEF Live, Screens
<1> QED BY <1>2, <1>3 DEF Live, Screens, Rest

----------------------------------------------------------------------------
(* Lines and scrolling *)

(* What the operations need of the bounds. *)
LEMMA Bounds ==
  ASSUME NEW n \in Positive, NEW m \in Positive, NEW h, NEW s \in Live(n, m, h)
  PROVE  /\ effective_right(s) \in 1..n /\ s.left \in 0..n-1
         /\ s.left \in Nat /\ s.right \in Nat
         /\ n \in Nat /\ m \in Nat /\ cols(s) = n /\ rows(s) = m
         /\ 0 \in 0..n-1 /\ 0 \in 0..m-1 /\ n-1 \in 0..n-1 /\ m-1 \in 0..m-1
<1>1. s \in Screens(n, m)
  BY LiveFacts
<1>2. /\ cols(s) = n /\ rows(s) = m /\ n \in Nat /\ m \in Nat /\ n >= 1 /\ m >= 1
      /\ s.left \in 0..n /\ s.right \in 0..n /\ s.left < s.right
  BY <1>1, ScreenFacts
<1>3. effective_right(s) = s.right \/ effective_right(s) = n
  BY <1>2 DEF effective_right
<1>4. s.left \in 0..n-1 /\ s.right \in 1..n /\ n \in 1..n
  BY <1>2
<1>5. 0 \in 0..n-1 /\ 0 \in 0..m-1 /\ n-1 \in 0..n-1 /\ m-1 \in 0..m-1
  BY <1>2
<1> QED BY <1>2, <1>3, <1>4, <1>5

(* Both ways to scroll the region, with margins and without. *)
LEMMA ScrollsKeep ==
  ASSUME NEW n \in Positive, NEW m \in Positive, NEW h, NEW s \in Live(n, m, h),
         NEW k \in Nat, NEW c \in BOOLEAN
  PROVE  /\ [s EXCEPT !.grid = IF c THEN scroll_up_region(@, s.top, s.bottom, s.left, s.right, k)
                               ELSE scroll_up(@, s.top, s.bottom, k)] \in Live(n, m, h)
         /\ [s EXCEPT !.grid = IF c THEN scroll_down_region(@, s.top, s.bottom, s.left, s.right, k)
                               ELSE scroll_down(@, s.top, s.bottom, k)] \in Live(n, m, h)
<1> DEFINE up == IF c THEN scroll_up_region(s.grid, s.top, s.bottom, s.left, s.right, k)
                 ELSE scroll_up(s.grid, s.top, s.bottom, k)
           down == IF c THEN scroll_down_region(s.grid, s.top, s.bottom, s.left, s.right, k)
                   ELSE scroll_down(s.grid, s.top, s.bottom, k)
<1>1. /\ s.grid \in Grids(n, m) /\ s.top \in 0..m /\ s.bottom \in 0..m /\ s.top < s.bottom
      /\ s.left \in Nat /\ s.right \in Nat
  <2>1. s \in Screens(n, m)
    BY LiveFacts
  <2> QED BY <2>1, ScreenFacts, Bounds
<1>2. up \in Grids(n, m)
  BY <1>1, scroll_upKeeps, RegionScrollsKeep
<1>3. down \in Grids(n, m)
  BY <1>1, scroll_downKeeps, RegionScrollsKeep
<1> HIDE DEF up, down
<1>4. [s EXCEPT !.grid = up] \in Live(n, m, h) /\ [s EXCEPT !.grid = down] \in Live(n, m, h)
  BY <1>2, <1>3, OtherGrid
<1> QED BY <1>4 DEF up, down

(* SU and SD. *)
LEMMA ScreenScrollsKeep ==
  ASSUME NEW n \in Positive, NEW m \in Positive, NEW h, NEW s \in Live(n, m, h), NEW k \in Nat
  PROVE  scroll_up_screen(s, k) \in Live(n, m, h) /\ scroll_down_screen(s, k) \in Live(n, m, h)
<1> DEFINE c == has_lr_margins(s)
<1>1. c \in BOOLEAN
  BY LiveFacts, ScreenFacts DEF has_lr_margins, ModeSets
<1> DEFINE t == [s EXCEPT !.grid = IF c THEN scroll_up_region(@, s.top, s.bottom, s.left, s.right, k)
                                   ELSE scroll_up(@, s.top, s.bottom, k)]
           u == [s EXCEPT !.grid = IF c THEN scroll_down_region(@, s.top, s.bottom, s.left, s.right, k)
                                   ELSE scroll_down(@, s.top, s.bottom, k)]
<1>2. t \in Live(n, m, h) /\ u \in Live(n, m, h)
  <2> HIDE DEF c
  <2> QED BY <1>1, ScrollsKeep
<1>3. /\ scroll_up_screen(s, k) = record_damage(t, s.top..s.bottom-1)
      /\ scroll_down_screen(s, k) = record_damage(u, s.top..s.bottom-1)
  BY DEF scroll_up_screen, scroll_down_screen
<1> HIDE DEF t, u
<1> QED BY <1>2, <1>3, DamageKeeps

(* A line feed scrolls, goes down or stays. *)
LEMMA linefeedKeeps ==
  ASSUME NEW n \in Positive, NEW m \in Positive, NEW h, NEW s \in Live(n, m, h)
  PROVE  linefeed(s) \in Live(n, m, h)
<1> DEFINE c == has_lr_margins(s) /\ cursor_in_lr_margins(s)
           a == [s EXCEPT !.grid = IF c THEN scroll_up_region(@, s.top, s.bottom, s.left, s.right, 1)
                                   ELSE scroll_up(@, s.top, s.bottom, 1)]
           b == [s EXCEPT !.cur.row = @ + 1]
           t == IF s.cur.row + 1 = s.bottom THEN record_damage(a, s.top..s.bottom-1)
                ELSE IF s.cur.row + 1 < rows(s) THEN b ELSE s
           v == [t EXCEPT !.pending = FALSE]
           col == IF s.modes.newline THEN 0 ELSE v.cur.col
<1>1. c \in BOOLEAN /\ 1 \in Nat
  BY LiveFacts, ScreenFacts DEF has_lr_margins, cursor_in_lr_margins, ModeSets
<1>2. record_damage(a, s.top..s.bottom-1) \in Live(n, m, h)
  <2> HIDE DEF c
  <2>1. a \in Live(n, m, h)
    BY <1>1, ScrollsKeep
  <2> HIDE DEF a
  <2> QED BY <2>1, DamageKeeps
<1>3. ASSUME s.cur.row + 1 < rows(s)
      PROVE  b \in Live(n, m, h)
  <2>1. s.cur.row + 1 \in 0..m-1
    BY <1>3, LiveFacts, Bounds
  <2> QED BY <2>1, OtherRow
<1>4. t \in Live(n, m, h)
  <2> HIDE DEF a, b
  <2> QED BY <1>2, <1>3
<1>5. linefeed(s) = [v EXCEPT !.cur.col = col]
  BY DEF linefeed
<1> HIDE DEF t
<1>6. v \in Live(n, m, h)
  BY <1>4, UnpendKeeps DEF Unpend
<1> HIDE DEF v
<1>7. col \in 0..n-1
  BY <1>6, LiveFacts, Bounds
<1> HIDE DEF col
<1> QED BY <1>5, <1>6, <1>7, OtherCol

(* A reverse index scrolls or goes up. *)
LEMMA reverse_indexKeeps ==
  ASSUME NEW n \in Positive, NEW m \in Positive, NEW h, NEW s \in Live(n, m, h)
  PROVE  reverse_index(s) \in Live(n, m, h)
<1> DEFINE c == has_lr_margins(s) /\ cursor_in_lr_margins(s)
           a == [s EXCEPT !.grid = IF c THEN scroll_down_region(@, s.top, s.bottom, s.left, s.right, 1)
                                   ELSE scroll_down(@, s.top, s.bottom, 1)]
           r == Greater(s.cur.row - 1, 0)
           b == [s EXCEPT !.cur.row = r]
<1>1. c \in BOOLEAN /\ 1 \in Nat
  BY LiveFacts, ScreenFacts DEF has_lr_margins, cursor_in_lr_margins, ModeSets
<1>2. a \in Live(n, m, h)
  <2> HIDE DEF c
  <2> QED BY <1>1, ScrollsKeep
<1>3. r \in 0..m-1
  BY LiveFacts, Bounds DEF Greater
<1>4. b \in Live(n, m, h)
  <2> HIDE DEF r
  <2> QED BY <1>3, OtherRow
<1>5. reverse_index(s) = Unpend(IF s.cur.row = s.top THEN a ELSE b)
  BY DEF reverse_index
<1> HIDE DEF a, b
<1> QED BY <1>2, <1>4, <1>5, UnpendKeeps

(* A carriage return goes to column 0 or to the margin. *)
LEMMA carriage_returnKeeps ==
  ASSUME NEW n \in Positive, NEW m \in Positive, NEW h, NEW s \in Live(n, m, h)
  PROVE  carriage_return(s) \in Live(n, m, h)
<1> DEFINE c == IF has_lr_margins(s) /\ s.cur.col >= s.left THEN s.left ELSE 0
<1>1. c \in 0..n-1 /\ s.cur.row \in 0..m-1
  BY LiveFacts, Bounds
<1>2. carriage_return(s) = At(s, s.cur.row, c)
  BY DEF carriage_return
<1> HIDE DEF c
<1> QED BY <1>1, <1>2, AtKeeps

(* IL and DL. *)
LEMMA LineOpsKeep ==
  ASSUME NEW n \in Positive, NEW m \in Positive, NEW h, NEW s \in Live(n, m, h), NEW k \in Nat
  PROVE  insert_lines_screen(s, k) \in Live(n, m, h) /\ delete_lines_screen(s, k) \in Live(n, m, h)
<1> DEFINE a == IF InRegion(s) THEN insert_lines(s.grid, s.cur.row, k, s.top, s.bottom) ELSE s.grid
           b == IF InRegion(s) THEN delete_lines(s.grid, s.cur.row, k, s.top, s.bottom) ELSE s.grid
           t == [s EXCEPT !.grid = a]
           u == [s EXCEPT !.grid = b]
<1>1. /\ s.grid \in Grids(n, m) /\ s.top \in 0..m /\ s.bottom \in 0..m
      /\ s.cur.row \in 0..m-1 /\ 0 \in 0..n-1
  BY LiveFacts, ScreenFacts, Bounds
<1>2. a \in Grids(n, m) /\ b \in Grids(n, m)
  BY <1>1, LinesKeep
<1>3. insert_lines_screen(s, k) = At(t, s.cur.row, 0) /\ delete_lines_screen(s, k) = At(u, s.cur.row, 0)
  BY DEF insert_lines_screen, delete_lines_screen
<1> HIDE DEF a, b
<1>4. t \in Live(n, m, h) /\ u \in Live(n, m, h)
  BY <1>2, OtherGrid
<1> HIDE DEF t, u
<1> QED BY <1>1, <1>3, <1>4, AtKeeps

----------------------------------------------------------------------------
(* Printing *)

(* The space that replaces a cell keeps its protection. *)
LEMMA PaddingIsCell ==
  ASSUME NEW x \in Cells
  PROVE  x.p \in BOOLEAN /\ Cell(" ", 1, x.p) \in Cells
<1>1. x.p \in BOOLEAN
  BY DEF Cells
<1>2. " " \in STRING
  BY TerminalAssumption
<1>3. 1 \in 0..2
  OBVIOUS
<1>4. \A b \in BOOLEAN, w \in 0..2 : Cell(" ", w, b) \in Cells
  BY <1>2, CellIs, Zenon
<1> QED BY <1>1, <1>3, <1>4

(* A space of any width. *)
LEMMA SpaceIsCell ==
  ASSUME NEW b \in BOOLEAN, NEW w \in 0..2
  PROVE  Cell(" ", w, b) \in Cells
<1>1. " " \in STRING
  BY TerminalAssumption
<1> QED BY <1>1, CellIs, Zenon

(* One half of a wide character made a space. *)
LEMMA UnhalveKeeps ==
  ASSUME NEW n \in Positive, NEW m \in Positive, NEW g \in Grids(n, m), NEW r \in Nat, NEW k \in Nat
  PROVE  cell_mut(g, r, k, Cell(" ", 1, cell(g, r, k).p)) \in Grids(n, m)
<1> DEFINE x == Cell(" ", 1, cell(g, r, k).p)
<1>1. cell(g, r, k) \in Cells
  BY CellIsCell
<1>2. x \in Cells
  BY <1>1, PaddingIsCell
<1> HIDE DEF x
<1>3. cell_mut(g, r, k, x) \in Grids(n, m)
  BY <1>2, CellMutKeeps
<1> QED BY <1>3 DEF x

(* All halves that a print cuts. *)
LEMMA ClearHalvesKeeps ==
  ASSUME NEW n \in Positive, NEW m \in Positive, NEW g \in Grids(n, m), NEW r \in Nat, NEW c \in Nat, NEW w
  PROVE  ClearHalves(g, r, c, w) \in Grids(n, m)
<1> DEFINE Unhalve(a, k) == cell_mut(a, r, k, Cell(" ", 1, cell(a, r, k).p))
           old == cell(g, r, c).w
           g1 == IF old = 2 /\ c + 1 < g.cols THEN Unhalve(g, c + 1) ELSE g
           g2 == IF old = 0 /\ c > 0 /\ cell(g1, r, c - 1).w = 2 THEN Unhalve(g1, c - 1) ELSE g1
           g3 == IF w = 2 /\ c + 2 < g.cols /\ cell(g2, r, c + 1).w = 2 THEN Unhalve(g2, c + 2) ELSE g2
<1>1. \A a \in Grids(n, m), k \in Nat : Unhalve(a, k) \in Grids(n, m)
  BY UnhalveKeeps
<1> HIDE DEF Unhalve
<1>2. c + 1 \in Nat /\ c + 2 \in Nat /\ (c > 0 => c - 1 \in Nat)
  OBVIOUS
<1>3. g1 \in Grids(n, m)
  BY <1>1, <1>2
<1> HIDE DEF g1
<1>4. g2 \in Grids(n, m)
  BY <1>1, <1>2, <1>3
<1> HIDE DEF g2
<1>5. g3 \in Grids(n, m)
  BY <1>1, <1>2, <1>4
<1>6. ClearHalves(g, r, c, w) = g3
  BY DEF ClearHalves, g1, g2, Unhalve
<1> QED BY <1>5, <1>6

(* The row of the cursor marked as continued. *)
LEMMA MarkKeeps ==
  ASSUME NEW n \in Positive, NEW m \in Positive, NEW h, NEW s \in Live(n, m, h), NEW b \in BOOLEAN
  PROVE  [s EXCEPT !.grid = set_continuation(@, s.cur.row, b)] \in Live(n, m, h)
<1> DEFINE g == set_continuation(s.grid, s.cur.row, b)
<1>1. s.grid \in Grids(n, m) /\ s.cur.row \in Nat
  BY LiveFacts, ScreenFacts
<1>2. g \in Grids(n, m)
  BY <1>1, ContinuationKeeps
<1> HIDE DEF g
<1>3. [s EXCEPT !.grid = g] \in Live(n, m, h)
  BY <1>2, OtherGrid
<1> QED BY <1>3 DEF g

(* The wrap that waited for the next character. *)
LEMMA WrapPendingKeeps ==
  ASSUME NEW n \in Positive, NEW m \in Positive, NEW h, NEW s \in Live(n, m, h)
  PROVE  WrapPending(s) \in Live(n, m, h)
<1> DEFINE a == [s EXCEPT !.grid = set_continuation(@, s.cur.row, FALSE)]
           t == linefeed(carriage_return(a))
           u == [t EXCEPT !.grid = set_continuation(@, t.cur.row, TRUE)]
<1>1. TRUE \in BOOLEAN /\ FALSE \in BOOLEAN
  OBVIOUS
<1>2. a \in Live(n, m, h)
  BY <1>1, MarkKeeps
<1> HIDE DEF a
<1>3. t \in Live(n, m, h)
  BY <1>2, carriage_returnKeeps, linefeedKeeps
<1> HIDE DEF t
<1>4. u \in Live(n, m, h)
  BY <1>1, <1>3, MarkKeeps
<1>5. At(s, s.cur.row, effective_right(s) - 1) \in Live(n, m, h)
  <2>1. s.cur.row \in 0..m-1 /\ effective_right(s) - 1 \in 0..n-1
    BY LiveFacts, Bounds
  <2> QED BY <2>1, AtKeeps
<1>6. WrapPending(s) \in {s, u, At(s, s.cur.row, effective_right(s) - 1)}
  BY DEF WrapPending, a, t
<1> HIDE DEF u
<1> QED BY <1>4, <1>5, <1>6

(* A wide character moved to the next line. *)
LEMMA FitWideKeeps ==
  ASSUME NEW n \in Positive, NEW m \in Positive, NEW h, NEW s \in Live(n, m, h)
  PROVE  FitWide(s) \in Live(n, m, h)
<1> DEFINE g == cell_mut(s.grid, s.cur.row, s.cur.col, Cell(" ", 1, cell(s.grid, s.cur.row, s.cur.col).p))
           a == [s EXCEPT !.grid = g]
           t == linefeed(carriage_return(a))
           u == [t EXCEPT !.grid = set_continuation(@, t.cur.row, TRUE)]
           back == Greater(effective_right(s) - 2, 0)
           c == IF back >= cols(s) THEN 0 ELSE back
           v == [s EXCEPT !.cur.col = c]
<1>1. TRUE \in BOOLEAN
  OBVIOUS
<1>2. g \in Grids(n, m)
  <2>1. s.grid \in Grids(n, m) /\ s.cur.row \in Nat /\ s.cur.col \in Nat
    BY LiveFacts, ScreenFacts
  <2> QED BY <2>1, UnhalveKeeps
<1>3. a \in Live(n, m, h)
  <2> HIDE DEF g
  <2> QED BY <1>2, OtherGrid
<1> HIDE DEF a
<1>4. t \in Live(n, m, h)
  BY <1>3, carriage_returnKeeps, linefeedKeeps
<1> HIDE DEF t
<1>5. u \in Live(n, m, h)
  BY <1>1, <1>4, MarkKeeps
<1>6. c \in 0..n-1
  BY Bounds DEF Greater
<1>7. v \in Live(n, m, h)
  <2> HIDE DEF c
  <2> QED BY <1>6, OtherCol
<1>8. FitWide(s) \in {u, v}
  BY DEF FitWide, a, t
<1> HIDE DEF u, v
<1> QED BY <1>5, <1>7, <1>8

(* A character put at the cursor, which never moves past the last column. *)
LEMMA PutKeeps ==
  ASSUME NEW n \in Positive, NEW m \in Positive, NEW h, NEW s \in Live(n, m, h),
         NEW c \in Chars, char_width(c) # 0
  PROVE  Put(s, c) \in Live(n, m, h)
<1> DEFINE w == char_width(c)
           r == s.cur.row
           k == s.cur.col
           x == Cell(c, w, s.prot)
           y == Cell(" ", 0, s.prot)
           g0 == ClearHalves(s.grid, r, k, w)
           g1 == cell_mut(g0, r, k, x)
           g2 == IF w = 2 /\ k + 1 < g1.cols THEN cell_mut(g1, r, k + 1, y) ELSE g1
           full == k + w >= effective_right(s)
           col == IF full THEN effective_right(s) - 1 ELSE k + w
           a == record_damage(s, {r})
           b == [a EXCEPT !.grid = g2]
           d == [b EXCEPT !.cur.col = col]
           e == full /\ s.modes.autowrap
<1>1. w \in 1..2
  BY DEF char_width
<1>2. /\ s.grid \in Grids(n, m) /\ r \in Nat /\ k \in Nat /\ k + 1 \in Nat /\ s.prot \in BOOLEAN
      /\ k \in 0..n-1
  <2>1. k + 1 \in Nat
    BY LiveFacts
  <2> QED BY <2>1, LiveFacts
<1>3. x \in Cells /\ y \in Cells
  <2>1. c \in STRING
    BY TerminalAssumption
  <2> HIDE DEF w
  <2>3. w \in 0..2 /\ 0 \in 0..2
    BY <1>1
  <2>2. x \in Cells
    BY <1>2, <2>1, <2>3, CellIs
  <2> QED BY <1>2, <2>2, <2>3, SpaceIsCell
<1>4. g2 \in Grids(n, m)
  <2> HIDE DEF w, r, k, x, y
  <2>1. g0 \in Grids(n, m)
    BY <1>2, ClearHalvesKeeps
  <2> HIDE DEF g0
  <2>2. g1 \in Grids(n, m)
    BY <1>2, <1>3, <2>1, CellMutKeeps
  <2> HIDE DEF g1
  <2>3. cell_mut(g1, r, k + 1, y) \in Grids(n, m)
    BY <1>2, <1>3, <2>2, CellMutKeeps
  <2> QED BY <2>2, <2>3
<1>5. col \in 0..n-1
  <2>1. effective_right(s) \in 1..n /\ n \in Nat
    BY Bounds
  <2> HIDE DEF w, k
  <2> QED BY <1>1, <1>2, <2>1
<1>6. e \in BOOLEAN
  BY LiveFacts, ScreenFacts DEF ModeSets
<1>7. Put(s, c) = [d EXCEPT !.pending = e]
  BY DEF Put
<1> HIDE DEF g2, col, e
<1>8. a \in Live(n, m, h)
  BY DamageKeeps
<1> HIDE DEF a
<1>9. b \in Live(n, m, h)
  BY <1>4, <1>8, OtherGrid
<1> HIDE DEF b
<1>10. d \in Live(n, m, h)
  BY <1>5, <1>9, OtherCol
<1> HIDE DEF d
<1> QED BY <1>6, <1>7, <1>10, OtherPending

(* The character remembered for REP. *)
LEMMA OtherLast ==
  ASSUME NEW n \in Positive, NEW m \in Positive, NEW h, NEW s \in Live(n, m, h), NEW c \in Chars
  PROVE  [s EXCEPT !.vp = 0, !.last = c] \in Live(n, m, h)
<1>1. [s EXCEPT !.vp = 0, !.last = c] \in Screens(n, m)
  BY DEF Live, Screens
<1> QED BY <1>1 DEF Live, Screens, Rest

(* Printing, from the wrap that waited to the one it leaves. *)
LEMMA write_charKeeps ==
  ASSUME NEW n \in Positive, NEW m \in Positive, NEW h, NEW s \in Live(n, m, h), NEW c \in Chars
  PROVE  write_char(s, c) \in Live(n, m, h)
<1> DEFINE w == char_width(c)
           s0 == [s EXCEPT !.vp = 0, !.last = c]
           s1 == WrapPending(s0)
           s2 == IF w = 2 /\ s1.cur.col >= effective_right(s1) - 1 THEN FitWide(s1) ELSE s1
           g == insert_cells_bounded(s2.grid, s2.cur.row, s2.cur.col, w, effective_right(s2))
           s3 == IF s2.modes.insert THEN [s2 EXCEPT !.grid = g] ELSE s2
<1>1. w \in Nat
  BY DEF char_width
<1>2. s0 \in Live(n, m, h)
  BY OtherLast
<1>3. write_char(s, c) = IF w = 0 THEN s0 ELSE Put(s3, c)
  BY DEF write_char
<1> HIDE DEF s0
<1>4. s1 \in Live(n, m, h)
  BY <1>2, WrapPendingKeeps
<1> HIDE DEF s1
<1>5. s2 \in Live(n, m, h)
  BY <1>4, FitWideKeeps
<1> HIDE DEF s2
<1>6. g \in Grids(n, m)
  <2>1. /\ s2.grid \in Grids(n, m) /\ s2.cur.row \in 0..m-1 /\ s2.cur.col \in Nat
        /\ effective_right(s2) \in Nat
    <3>1. effective_right(s2) \in 1..n /\ n \in Nat
      BY <1>5, Bounds
    <3>2. effective_right(s2) \in Nat
      BY <3>1
    <3> QED BY <1>5, <3>2, LiveFacts
  <2> HIDE DEF w
  <2> QED BY <1>1, <2>1, insert_cellsKeeps
<1>7. s3 \in Live(n, m, h)
  <2> HIDE DEF g
  <2> QED BY <1>5, <1>6, OtherGrid
<1> HIDE DEF s3
<1>8. w # 0 => Put(s3, c) \in Live(n, m, h)
  BY <1>7, PutKeeps
<1> QED BY <1>2, <1>3, <1>8

----------------------------------------------------------------------------
(* The cursor *)

(* BS, with reverse wrap. *)
LEMMA backspaceKeeps ==
  ASSUME NEW n \in Positive, NEW m \in Positive, NEW h, NEW s \in Live(n, m, h)
  PROVE  backspace(s) \in Live(n, m, h)
<1>1. ASSUME s.cur.col > 0
      PROVE  At(s, s.cur.row, s.cur.col - 1) \in Live(n, m, h)
  <2>1. s.cur.row \in 0..m-1 /\ s.cur.col \in 0..n-1 /\ n \in Nat
    BY LiveFacts, Bounds
  <2>2. s.cur.col - 1 \in 0..n-1
    BY <1>1, <2>1
  <2> QED BY <2>1, <2>2, AtKeeps
<1>2. ASSUME s.cur.row > 0
      PROVE  At(s, s.cur.row - 1, cols(s) - 1) \in Live(n, m, h)
  <2>1. s.cur.row - 1 \in 0..m-1 /\ cols(s) - 1 \in 0..n-1
    BY <1>2, LiveFacts, Bounds
  <2> QED BY <2>1, AtKeeps
<1> QED BY <1>1, <1>2 DEF backspace

(* HT, CHT and CBT stop at a tab stop or at an edge. *)
LEMMA TabsKeep ==
  ASSUME NEW n \in Positive, NEW m \in Positive, NEW h, NEW s \in Live(n, m, h), NEW k \in Nat
  PROVE  tab_forward(s, k) \in Live(n, m, h) /\ tab_backward(s, k) \in Live(n, m, h)
<1> DEFINE ahead == {t \in s.stops : s.cur.col < t /\ t < cols(s)}
           to == {cols(s) - 1} \cup {t \in ahead : Cardinality({u \in ahead : u <= t}) = k}
           behind == {t \in s.stops : t < s.cur.col}
           back == {0} \cup {t \in behind : Cardinality({u \in behind : u >= t}) = k}
<1>1. n - 1 \in Nat /\ s.cur.row \in 0..m-1 /\ cols(s) = n /\ 0 \in 0..n-1
  BY LiveFacts, Bounds
<1>2. s.stops \in SUBSET (0..n-1)
  BY LiveFacts, ScreenFacts
<1>3. to \in SUBSET (0..n-1) /\ to # {}
  BY <1>1, <1>2
<1>4. back \in SUBSET (0..n-1) /\ back # {}
  BY <1>1, <1>2
<1>5. tab_forward(s, k) = At(s, s.cur.row, Min(to)) /\ tab_backward(s, k) = At(s, s.cur.row, Max(back))
  BY DEF tab_forward, tab_backward
<1> HIDE DEF to, back
<1>6. Min(to) \in 0..n-1
  <2>1. to \in SUBSET Nat
    BY <1>3
  <2> QED BY <1>3, <2>1, MinIs
<1>7. Max(back) \in 0..n-1
  <2>1. Max(back) \in back
    BY <1>1, <1>4, MaxIs
  <2> QED BY <1>4, <2>1
<1> QED BY <1>1, <1>5, <1>6, <1>7, AtKeeps

(* CUU, CUD, CUF and CUB stop at the region or at the grid. *)
LEMMA CursorsKeep ==
  ASSUME NEW n \in Positive, NEW m \in Positive, NEW h, NEW s \in Live(n, m, h), NEW k \in Nat
  PROVE  /\ cursor_up(s, k) \in Live(n, m, h) /\ cursor_down(s, k) \in Live(n, m, h)
         /\ cursor_left(s, k) \in Live(n, m, h) /\ cursor_right(s, k) \in Live(n, m, h)
<1> DEFINE low == IF InRegion(s) THEN s.top ELSE 0
           high == IF InRegion(s) THEN s.bottom - 1 ELSE rows(s) - 1
           u == Greater(Greater(s.cur.row - k, 0), low)
           d == Lesser(s.cur.row + k, high)
           l == Greater(s.cur.col - k, 0)
           r == Lesser(s.cur.col + k, cols(s) - 1)
<1>1. s.cur.row \in 0..m-1 /\ s.cur.col \in 0..n-1 /\ cols(s) = n /\ rows(s) = m /\ m \in Nat /\ n \in Nat
  BY LiveFacts, Bounds
<1>2. s.top \in 0..m /\ s.bottom \in 0..m /\ s.top < s.bottom
  BY LiveFacts, ScreenFacts
<1>3. low \in 0..m-1 /\ high \in 0..m-1
  BY <1>1, <1>2
<1>4. /\ cursor_up(s, k) = At(s, u, s.cur.col) /\ cursor_down(s, k) = At(s, d, s.cur.col)
      /\ cursor_left(s, k) = At(s, s.cur.row, l) /\ cursor_right(s, k) = At(s, s.cur.row, r)
  BY DEF cursor_up, cursor_down, cursor_left, cursor_right
<1> HIDE DEF low, high
<1>5. u \in 0..m-1 /\ d \in 0..m-1 /\ l \in 0..n-1 /\ r \in 0..n-1
  BY <1>1, <1>3 DEF Greater, Lesser
<1> HIDE DEF u, d, l, r
<1> QED BY <1>1, <1>4, <1>5, AtKeeps

(* CUP, in origin mode and without. *)
LEMMA cursor_positionKeeps ==
  ASSUME NEW n \in Positive, NEW m \in Positive, NEW h, NEW s \in Live(n, m, h),
         NEW row \in Nat, NEW col \in Nat
  PROVE  cursor_position(s, row, col) \in Live(n, m, h)
<1> DEFINE r == Greater(row - 1, 0)
           c == Greater(col - 1, 0)
           a == Lesser(s.top + r, s.bottom - 1)
           b == Lesser(s.left + c, s.right - 1)
           d == Lesser(r, rows(s) - 1)
           e == Lesser(c, cols(s) - 1)
<1> s \in Screens(n, m)
  BY LiveFacts
<1>1. cols(s) = n /\ rows(s) = m /\ m \in Nat /\ n \in Nat /\ m >= 1 /\ n >= 1
  BY ScreenFacts
<1>2. /\ s.top \in 0..m /\ s.bottom \in 0..m /\ s.top < s.bottom
      /\ s.left \in 0..n /\ s.right \in 0..n /\ s.left < s.right
  BY LiveFacts, ScreenFacts
<1>3. r \in Nat /\ c \in Nat
  BY DEF Greater
<1>4. cursor_position(s, row, col) = IF s.modes.origin THEN At(s, a, b) ELSE At(s, d, e)
  BY DEF cursor_position
<1> HIDE DEF r, c
<1>5. a \in 0..m-1 /\ b \in 0..n-1
  BY <1>1, <1>2, <1>3 DEF Lesser
<1>6. d \in 0..m-1 /\ e \in 0..n-1
  BY <1>1, <1>3 DEF Lesser
<1> HIDE DEF a, b, d, e
<1> QED BY <1>4, <1>5, <1>6, AtKeeps

(* A live screen with another saved cursor. *)
LEMMA OtherSaved ==
  ASSUME NEW n \in Positive, NEW m \in Positive, NEW h, NEW s \in Live(n, m, h),
         NEW q \in Seq(SavedCursors(n, m))
  PROVE  [s EXCEPT !.saved = q] \in Live(n, m, h)
<1>1. [s EXCEPT !.saved = q] \in Screens(n, m)
  BY DEF Live, Screens
<1> QED BY <1>1 DEF Live, Screens, Rest

(* With another protection. *)
LEMMA OtherProt ==
  ASSUME NEW n \in Positive, NEW m \in Positive, NEW h, NEW s \in Live(n, m, h), NEW b \in BOOLEAN
  PROVE  [s EXCEPT !.prot = b] \in Live(n, m, h)
<1>1. [s EXCEPT !.prot = b] \in Screens(n, m)
  BY DEF Live, Screens
<1> QED BY <1>1 DEF Live, Screens, Rest

(* The record of the modes, the flag of the alternate screen unchanged. *)
LEMMA OtherModes ==
  ASSUME NEW n \in Positive, NEW m \in Positive, NEW h, NEW s \in Live(n, m, h),
         NEW f \in ModeSets, f.alt = s.modes.alt
  PROVE  [s EXCEPT !.modes = f] \in Live(n, m, h)
<1>1. [s EXCEPT !.modes = f] \in Screens(n, m)
  BY DEF Live, Screens
<1> QED BY <1>1 DEF Live, Screens, Rest

(* With origin mode set or not. *)
LEMMA OtherOrigin ==
  ASSUME NEW n \in Positive, NEW m \in Positive, NEW h, NEW s \in Live(n, m, h), NEW b \in BOOLEAN
  PROVE  [s EXCEPT !.modes.origin = b] \in Live(n, m, h)
<1> DEFINE f == [s.modes EXCEPT !.origin = b]
<1>1. s.modes \in ModeSets
  BY LiveFacts, ScreenFacts
<1>2. f \in ModeSets /\ f.alt = s.modes.alt
  BY <1>1 DEF ModeSets
<1>3. [s EXCEPT !.modes.origin = b] = [s EXCEPT !.modes = f]
  OBVIOUS
<1> HIDE DEF f
<1> QED BY <1>2, <1>3, OtherModes

(* DECSC. *)
LEMMA save_cursorKeeps ==
  ASSUME NEW n \in Positive, NEW m \in Positive, NEW h, NEW s \in Live(n, m, h)
  PROVE  save_cursor(s) \in Live(n, m, h)
<1> DEFINE k == [row |-> s.cur.row, col |-> s.cur.col, origin |-> s.modes.origin,
                 pending |-> s.pending, prot |-> s.prot]
<1>1. s.modes.origin \in BOOLEAN
  BY LiveFacts, ScreenFacts DEF ModeSets
<1>2. k \in SavedCursors(n, m)
  <2>1. /\ s.cur.row \in 0..m-1 /\ s.cur.col \in 0..n-1
        /\ s.pending \in BOOLEAN /\ s.prot \in BOOLEAN
    BY LiveFacts
  <2> QED BY <1>1, <2>1 DEF SavedCursors
<1> DEFINE q == <<k>>
<1>3. save_cursor(s) = [s EXCEPT !.saved = q]
  BY DEF save_cursor
<1> HIDE DEF k
<1>4. q \in Seq(SavedCursors(n, m))
  BY <1>2
<1> HIDE DEF q
<1> QED BY <1>3, <1>4, OtherSaved

(* DECRC puts the cursor on the grid, wherever it was before. *)
LEMMA restore_cursorKeeps ==
  ASSUME NEW n \in Positive, NEW m \in Positive, NEW h, NEW s \in Screens(n, m), Rest(s) = h
  PROVE  restore_cursor(s) \in Live(n, m, h)
<1> DEFINE k == Head(s.saved)
<1>1. ASSUME NEW r \in 0..m-1, NEW c \in 0..n-1
      PROVE  At(s, r, c) \in Live(n, m, h)
  <2> DEFINE p == [row |-> r, col |-> c]
  <2>1. p \in Cursors(n, m) /\ p \in [row : Nat, col : Nat]
    BY DEF Cursors
  <2>2. At(s, r, c) = [s EXCEPT !.cur = p, !.pending = FALSE]
    BY DEF At
  <2> HIDE DEF p
  <2>3. [s EXCEPT !.cur = p, !.pending = FALSE] \in Screens(n, m)
    BY <2>1 DEF Screens
  <2> QED BY <2>1, <2>2, <2>3 DEF Live, Screens, Rest
<1>2. n \in Nat /\ m \in Nat /\ n >= 1 /\ m >= 1 /\ cols(s) = n /\ rows(s) = m
  BY ScreenFacts
<1>3. CASE s.saved = <<>>
  <2>1. 0 \in 0..m-1 /\ 0 \in 0..n-1 /\ FALSE \in BOOLEAN
    BY <1>2
  <2>2. restore_cursor(s) = [At(s, 0, 0) EXCEPT !.prot = FALSE]
    BY <1>3 DEF restore_cursor
  <2> DEFINE a == At(s, 0, 0)
  <2>3. a \in Live(n, m, h)
    BY <1>1, <2>1
  <2> HIDE DEF a
  <2>4. [a EXCEPT !.prot = FALSE] \in Live(n, m, h)
    BY <2>1, <2>3, OtherProt
  <2> QED BY <2>2, <2>4 DEF a
<1>4. CASE s.saved # <<>>
  <2> DEFINE r == Lesser(k.row, rows(s) - 1)
             c == Lesser(k.col, cols(s) - 1)
             a == At(s, r, c)
             b == [a EXCEPT !.modes.origin = k.origin]
             d == [b EXCEPT !.pending = k.pending]
  <2>1. k \in SavedCursors(n, m)
    BY <1>4, ScreenFacts, HeadTailProperties
  <2>2. k.origin \in BOOLEAN /\ k.pending \in BOOLEAN /\ k.prot \in BOOLEAN
    BY <2>1 DEF SavedCursors
  <2>3. r \in 0..m-1 /\ c \in 0..n-1
    <3>1. k.row \in 0..m-1 /\ k.col \in 0..n-1
      BY <2>1 DEF SavedCursors
    <3> HIDE DEF k
    <3> QED BY <1>2, <3>1 DEF Lesser
  <2>4. restore_cursor(s) = [d EXCEPT !.prot = k.prot]
    BY <1>4 DEF restore_cursor
  <2> HIDE DEF r, c, k
  <2>5. a \in Live(n, m, h)
    BY <1>1, <2>3
  <2> HIDE DEF a
  <2>6. b \in Live(n, m, h)
    BY <2>2, <2>5, OtherOrigin
  <2> HIDE DEF b
  <2>7. d \in Live(n, m, h)
    BY <2>2, <2>6, OtherPending
  <2> HIDE DEF d
  <2> QED BY <2>2, <2>4, <2>7, OtherProt
<1> QED BY <1>3, <1>4

----------------------------------------------------------------------------
(* Region, margins, tab stops *)

(* The cursor at the origin. *)
LEMMA GoHomeKeeps ==
  ASSUME NEW n \in Positive, NEW m \in Positive, NEW h, NEW s \in Live(n, m, h)
  PROVE  GoHome(s) \in Live(n, m, h)
<1>1. s.top \in 0..m-1 /\ s.left \in 0..n-1 /\ 0 \in 0..m-1 /\ 0 \in 0..n-1
  <2>1. s.top \in 0..m /\ s.bottom \in 0..m /\ s.top < s.bottom
    BY LiveFacts, ScreenFacts
  <2> QED BY <2>1, Bounds
<1> QED BY <1>1, AtKeeps DEF GoHome

(* Another scroll region. *)
LEMMA OtherRegion ==
  ASSUME NEW n \in Positive, NEW m \in Positive, NEW h, NEW s \in Live(n, m, h),
         NEW t \in 0..m, NEW b \in 0..m, t < b
  PROVE  [s EXCEPT !.top = t, !.bottom = b] \in Live(n, m, h)
<1>1. [s EXCEPT !.top = t, !.bottom = b] \in Screens(n, m)
  BY DEF Live, Screens
<1> QED BY <1>1 DEF Live, Screens, Rest

(* Other margins. *)
LEMMA OtherMargins ==
  ASSUME NEW n \in Positive, NEW m \in Positive, NEW h, NEW s \in Live(n, m, h),
         NEW l \in 0..n, NEW r \in 0..n, l < r
  PROVE  [s EXCEPT !.left = l, !.right = r] \in Live(n, m, h)
<1>1. [s EXCEPT !.left = l, !.right = r] \in Screens(n, m)
  BY DEF Live, Screens
<1> QED BY <1>1 DEF Live, Screens, Rest

(* DECSTBM and DECSLRM take proper bounds alone. *)
LEMMA MarginsKeep ==
  ASSUME NEW n \in Positive, NEW m \in Positive, NEW h, NEW s \in Live(n, m, h),
         NEW low \in Nat, NEW high \in Nat
  PROVE  /\ set_scroll_region(s, low, high) \in Live(n, m, h)
         /\ set_left_right_margin(s, low, high) \in Live(n, m, h)
<1> DEFINE t == Lesser((IF low = 0 THEN 1 ELSE low) - 1, rows(s) - 1)
           b == Lesser(IF high = 0 THEN rows(s) ELSE high, rows(s))
           l == Lesser((IF low = 0 THEN 1 ELSE low) - 1, cols(s) - 1)
           r == Lesser(IF high = 0 THEN cols(s) ELSE high, cols(s))
           u == IF b > t + 1 THEN [s EXCEPT !.top = t, !.bottom = b] ELSE s
           v == IF r > l + 1 THEN [s EXCEPT !.left = l, !.right = r] ELSE s
<1> s \in Screens(n, m)
  BY LiveFacts
<1>1. n \in Nat /\ m \in Nat /\ n >= 1 /\ m >= 1 /\ cols(s) = n /\ rows(s) = m
  BY ScreenFacts
<1>2. t \in 0..m /\ b \in 0..m /\ l \in 0..n /\ r \in 0..n
  BY <1>1 DEF Lesser
<1>3. /\ set_scroll_region(s, low, high) = GoHome(u)
      /\ set_left_right_margin(s, low, high) = IF ~s.modes.margins THEN s ELSE GoHome(v)
  BY DEF set_scroll_region, set_left_right_margin
<1> HIDE DEF t, b, l, r
<1>4. (b > t + 1 => t < b) /\ (r > l + 1 => l < r)
  BY <1>1, <1>2
<1>5. u \in Live(n, m, h)
  BY <1>2, <1>4, OtherRegion
<1>6. v \in Live(n, m, h)
  BY <1>2, <1>4, OtherMargins
<1> HIDE DEF u, v
<1> QED BY <1>3, <1>5, <1>6, GoHomeKeeps

(* Other tab stops. *)
LEMMA OtherStops ==
  ASSUME NEW n \in Positive, NEW m \in Positive, NEW h, NEW s \in Live(n, m, h),
         NEW T \in SUBSET (0..n-1)
  PROVE  [s EXCEPT !.stops = T] \in Live(n, m, h)
<1>1. [s EXCEPT !.stops = T] \in Screens(n, m)
  BY DEF Live, Screens
<1> QED BY <1>1 DEF Live, Screens, Rest

(* HTS and TBC. *)
LEMMA StopsKeep ==
  ASSUME NEW n \in Positive, NEW m \in Positive, NEW h, NEW s \in Live(n, m, h), NEW all
  PROVE  set_tab_stop(s) \in Live(n, m, h) /\ clear_tab_stop(s, all) \in Live(n, m, h)
<1> DEFINE T == s.stops \cup {s.cur.col}
           U == IF all THEN {} ELSE s.stops \ {s.cur.col}
<1>1. s.stops \in SUBSET (0..n-1) /\ s.cur.col \in 0..n-1
  BY LiveFacts, ScreenFacts
<1>2. T \in SUBSET (0..n-1) /\ U \in SUBSET (0..n-1)
  BY <1>1
<1>3. set_tab_stop(s) = [s EXCEPT !.stops = T] /\ clear_tab_stop(s, all) = [s EXCEPT !.stops = U]
  BY DEF set_tab_stop, clear_tab_stop
<1> HIDE DEF T, U
<1> QED BY <1>2, <1>3, OtherStops

----------------------------------------------------------------------------
(* Erasing and editing *)

(* Erasing what is not protected. *)
LEMMA EraseUnprotectedKeeps ==
  ASSUME NEW n \in Positive, NEW m \in Positive, NEW g \in Grids(n, m),
         NEW r \in 0..m-1, NEW from, NEW to
  PROVE  EraseUnprotected(g, r, from, to) \in Grids(n, m)
<1> DEFINE row == r + 1
           old == g.lines[row].cells
           f == [i \in DOMAIN old |-> IF from < i /\ i <= to + 1 /\ ~old[i].p THEN Blank ELSE old[i]]
<1>1. row \in 1..m
  BY DEF Positive
<1>2. f \in [1..n -> Cells]
  <2> HIDE DEF row
  <2>1. old \in [1..n -> Cells]
    BY <1>1, GridFacts, RowFacts
  <2> HIDE DEF old
  <2> QED BY <2>1, BlankIsCell
<1>3. EraseUnprotected(g, r, from, to) = [g EXCEPT !.lines[row].cells = f]
  BY DEF EraseUnprotected
<1> HIDE DEF f, row
<1> QED BY <1>1, <1>2, <1>3, OtherCells

(* Erasing part of a line. *)
LEMMA EraseCellsKeeps ==
  ASSUME NEW n \in Positive, NEW m \in Positive, NEW h, NEW s \in Live(n, m, h),
         NEW r \in 0..m-1, NEW from, NEW to, NEW selective
  PROVE  EraseCells(s, r, from, to, selective) \in Live(n, m, h)
<1> DEFINE g == IF selective THEN EraseUnprotected(s.grid, r, from, to)
                ELSE clear_region(s.grid, r, from, to)
           t == record_damage(s, {r})
<1>1. g \in Grids(n, m)
  BY LiveFacts, EraseUnprotectedKeeps, clear_regionKeeps
<1>2. t \in Live(n, m, h)
  BY DamageKeeps
<1>3. EraseCells(s, r, from, to, selective) = [t EXCEPT !.grid = g]
  BY DEF EraseCells, record_damage
<1> HIDE DEF g, t
<1> QED BY <1>1, <1>2, <1>3, OtherGrid

(* A live screen with other lines. *)
LEMMA OtherLinesShown ==
  ASSUME NEW n \in Positive, NEW m \in Positive, NEW h, NEW s \in Live(n, m, h),
         NEW f \in [1..m -> RowsOf(n)]
  PROVE  [s EXCEPT !.grid.lines = f] \in Live(n, m, h)
<1> DEFINE g == [s.grid EXCEPT !.lines = f]
<1>1. g \in Grids(n, m)
  BY LiveFacts, OtherLines
<1>2. [s EXCEPT !.grid.lines = f] = [s EXCEPT !.grid = g]
  OBVIOUS
<1> HIDE DEF g
<1> QED BY <1>1, <1>2, OtherGrid

(* A row of which only the protected cells are left. *)
LEMMA SparedIsRow ==
  ASSUME NEW n \in Positive, NEW row \in RowsOf(n)
  PROVE  Spared(row) \in RowsOf(n)
<1> DEFINE f == [i \in DOMAIN row.cells |-> IF row.cells[i].p THEN row.cells[i] ELSE Blank]
<1>1. f \in [1..n -> Cells]
  BY RowFacts, BlankIsCell
<1>2. Spared(row) = [row EXCEPT !.cells = f]
  BY DEF Spared
<1> HIDE DEF f
<1> QED BY <1>1, <1>2 DEF RowsOf

(* Erasing whole rows. *)
LEMMA EraseRowsKeeps ==
  ASSUME NEW n \in Positive, NEW m \in Positive, NEW h, NEW s \in Live(n, m, h), NEW rr, NEW selective
  PROVE  EraseRows(s, rr, selective) \in Live(n, m, h)
<1> DEFINE t == record_damage(s, rr)
           f == [i \in DOMAIN s.grid.lines |->
                   IF i - 1 \notin rr THEN s.grid.lines[i]
                   ELSE IF selective THEN Spared(s.grid.lines[i]) ELSE NewRow(cols(s))]
<1>1. s.grid.lines \in [1..m -> RowsOf(n)] /\ cols(s) = n
  BY LiveFacts, GridFacts, Bounds
<1>2. f \in [1..m -> RowsOf(n)]
  <2>1. \A i \in 1..m : s.grid.lines[i] \in RowsOf(n) /\ Spared(s.grid.lines[i]) \in RowsOf(n)
    BY <1>1, SparedIsRow
  <2>2. NewRow(cols(s)) \in RowsOf(n)
    BY <1>1, NewRowIsRow
  <2> QED BY <1>1, <2>1, <2>2
<1>3. t \in Live(n, m, h)
  BY DamageKeeps
<1>4. EraseRows(s, rr, selective) = [t EXCEPT !.grid.lines = f]
  BY DEF EraseRows, record_damage
<1> HIDE DEF t, f
<1> QED BY <1>2, <1>3, <1>4, OtherLinesShown

(* ED, EL, DECSED and DECSEL in each of their modes. *)
LEMMA ErasesKeep ==
  ASSUME NEW n \in Positive, NEW m \in Positive, NEW h, NEW s \in Live(n, m, h), NEW selective
  PROVE  /\ \A mode \in {"below", "above", "all", "scrollback"} :
              erase_display(s, mode, selective) \in Live(n, m, h)
         /\ \A mode \in {"right", "left", "all"} : erase_line(s, mode, selective) \in Live(n, m, h)
<1> DEFINE r == s.cur.row
<1>1. r \in 0..m-1
  BY LiveFacts
<1>2. \A from, to : EraseCells(s, r, from, to, selective) \in Live(n, m, h)
  BY <1>1, EraseCellsKeeps
<1>3. \A rr : EraseRows(s, rr, selective) \in Live(n, m, h)
  BY EraseRowsKeeps
<1>4. erase_display(s, "below", selective) \in Live(n, m, h)
  <2> DEFINE t == EraseCells(s, r, s.cur.col, cols(s) - 1, selective)
  <2>1. t \in Live(n, m, h)
    BY <1>2
  <2>2. erase_display(s, "below", selective) = EraseRows(t, r+1..rows(s)-1, selective)
    BY DEF erase_display
  <2> HIDE DEF t
  <2> QED BY <2>1, <2>2, EraseRowsKeeps
<1>5. erase_display(s, "above", selective) \in Live(n, m, h)
  <2> DEFINE t == EraseRows(s, 0..r-1, selective)
  <2>1. t \in Live(n, m, h)
    BY <1>3
  <2>2. erase_display(s, "above", selective) = EraseCells(t, r, 0, s.cur.col, selective)
    BY DEF erase_display
  <2> HIDE DEF t
  <2> QED BY <1>1, <2>1, <2>2, EraseCellsKeeps
<1>6. erase_display(s, "all", selective) \in Live(n, m, h)
  BY <1>3 DEF erase_display
<1>7. erase_display(s, "scrollback", selective) \in Live(n, m, h)
  <2> DEFINE g == [s.grid EXCEPT !.sb = <<>>]
  <2>1. <<>> \in Seq(RowsOf(n)) /\ Len(<<>>) <= ScrollbackLimit
    BY LimitAssumption
  <2>2. g \in Grids(n, m)
    BY <2>1, LiveFacts, OtherHistory
  <2>3. erase_display(s, "scrollback", selective) = [s EXCEPT !.grid = g]
    BY DEF erase_display
  <2> HIDE DEF g
  <2> QED BY <2>2, <2>3, OtherGrid
<1>8. /\ erase_line(s, "right", selective) \in Live(n, m, h)
      /\ erase_line(s, "left", selective) \in Live(n, m, h)
      /\ erase_line(s, "all", selective) \in Live(n, m, h)
  BY <1>2, <1>3 DEF erase_line
<1> QED BY <1>4, <1>5, <1>6, <1>7, <1>8

(* ICH, DCH and ECH. *)
LEMMA EditsKeep ==
  ASSUME NEW n \in Positive, NEW m \in Positive, NEW h, NEW s \in Live(n, m, h), NEW k \in Nat
  PROVE  /\ insert_chars(s, k) \in Live(n, m, h) /\ delete_chars(s, k) \in Live(n, m, h)
         /\ erase_chars_screen(s, k) \in Live(n, m, h)
<1> DEFINE a == insert_cells_bounded(s.grid, s.cur.row, s.cur.col, k, effective_right(s))
           b == delete_cells_bounded(s.grid, s.cur.row, s.cur.col, k, effective_right(s))
           c == erase_chars(s.grid, s.cur.row, s.cur.col, k)
           t == record_damage(s, {s.cur.row})
<1>1. s.grid \in Grids(n, m) /\ s.cur.row \in 0..m-1 /\ s.cur.col \in Nat
  BY LiveFacts
<1>2. effective_right(s) \in Nat
  <2>1. effective_right(s) \in 1..n /\ n \in Nat
    BY Bounds
  <2> QED BY <2>1
<1>3. a \in Grids(n, m) /\ b \in Grids(n, m) /\ c \in Grids(n, m)
  BY <1>1, <1>2, insert_cellsKeeps, delete_cellsKeeps, erase_charsKeeps
<1>4. t \in Live(n, m, h)
  BY DamageKeeps
<1>5. /\ insert_chars(s, k) = Unpend([t EXCEPT !.grid = a])
      /\ delete_chars(s, k) = Unpend([t EXCEPT !.grid = b])
      /\ erase_chars_screen(s, k) = Unpend([t EXCEPT !.grid = c])
  BY DEF insert_chars, delete_chars, erase_chars_screen, record_damage, effective_right, cols,
         has_lr_margins
<1> HIDE DEF a, b, c, t
<1>6. ASSUME NEW g \in Grids(n, m)
      PROVE  Unpend([t EXCEPT !.grid = g]) \in Live(n, m, h)
  <2> DEFINE u == [t EXCEPT !.grid = g]
  <2>1. u \in Live(n, m, h)
    BY <1>4, OtherGrid
  <2> HIDE DEF u
  <2>2. Unpend(u) \in Live(n, m, h)
    BY <2>1, UnpendKeeps
  <2> QED BY <2>2 DEF u
<1> QED BY <1>3, <1>5, <1>6

----------------------------------------------------------------------------
(* Rectangles *)

(* All cells replaced. *)
LEMMA WithCellsKeeps ==
  ASSUME NEW n \in Positive, NEW m \in Positive, NEW h, NEW s \in Live(n, m, h),
         NEW f \in [1..m -> [1..n -> Cells]]
  PROVE  WithCells(s, f) \in Live(n, m, h)
<1> DEFINE q == [i \in DOMAIN s.grid.lines |-> [s.grid.lines[i] EXCEPT !.cells = f[i]]]
<1>1. s.grid.lines \in [1..m -> RowsOf(n)]
  BY LiveFacts, GridFacts
<1>2. q \in [1..m -> RowsOf(n)]
  BY <1>1 DEF RowsOf
<1>3. WithCells(s, f) = [s EXCEPT !.grid.lines = q]
  BY DEF WithCells
<1> HIDE DEF q
<1> QED BY <1>2, <1>3, OtherLinesShown

(* Each place of the grid has a cell. *)
LEMMA ShownCells ==
  ASSUME NEW n \in Positive, NEW m \in Positive, NEW h, NEW s \in Live(n, m, h)
  PROVE  \A i \in 1..m, c \in 1..n : s.grid.lines[i].cells[c] \in Cells /\ s.grid.lines[i].cells[c].p \in BOOLEAN
<1>1. s.grid.lines \in [1..m -> RowsOf(n)]
  BY LiveFacts, GridFacts
<1>2. \A i \in 1..m : s.grid.lines[i].cells \in [1..n -> Cells]
  BY <1>1, RowFacts
<1> QED BY <1>2 DEF Cells

(* DECFRA, DECSERA and DECCRA: a rectangle is cut down to the grid. *)
LEMMA RectanglesKeep ==
  ASSUME NEW n \in Positive, NEW m \in Positive, NEW h, NEW s \in Live(n, m, h),
         NEW t \in Int, NEW l \in Int, NEW b \in Int, NEW r \in Int
  PROVE  /\ \A x \in Chars : fill_rect(s, x, t, l, b, r) \in Live(n, m, h)
         /\ selective_erase_rect(s, t, l, b, r) \in Live(n, m, h)
         /\ \A i \in Int, c \in Int : copy_rect(s, t, l, b, r, i, c) \in Live(n, m, h)
<1>1. cols(s) = n /\ rows(s) = m /\ n \in Nat /\ m \in Nat
  BY Bounds
<1> DEFINE In(i, c) == InRect(s, i, c, t, l, b, r)
           At0(i, c) == s.grid.lines[i].cells[c]
<1>2. \A i \in 1..m, c \in 1..n : At0(i, c) \in Cells
  BY ShownCells
<1>3. ASSUME NEW x \in Chars
      PROVE  fill_rect(s, x, t, l, b, r) \in Live(n, m, h)
  <2> DEFINE y == Cell(x, 1, s.prot)
             f == [i \in 1..m |-> [c \in 1..n |-> IF In(i, c) THEN y ELSE At0(i, c)]]
  <2>1. y \in Cells
    <3>1. x \in STRING
      BY TerminalAssumption
    <3>2. s.prot \in BOOLEAN
      BY LiveFacts
    <3>3. 1 \in 0..2
      OBVIOUS
    <3> QED BY <3>1, <3>2, <3>3, CellIs
  <2>2. fill_rect(s, x, t, l, b, r) = WithCells(s, f)
    BY <1>1 DEF fill_rect
  <2> HIDE DEF y, In, At0
  <2>3. f \in [1..m -> [1..n -> Cells]]
    BY <1>2, <2>1
  <2> HIDE DEF f
  <2> QED BY <2>2, <2>3, WithCellsKeeps
<1>4. selective_erase_rect(s, t, l, b, r) \in Live(n, m, h)
  <2> DEFINE f == [i \in 1..m |-> [c \in 1..n |-> IF In(i, c) /\ ~At0(i, c).p THEN Blank ELSE At0(i, c)]]
  <2>2. selective_erase_rect(s, t, l, b, r) = WithCells(s, f)
    BY <1>1 DEF selective_erase_rect
  <2> HIDE DEF In, At0
  <2>3. f \in [1..m -> [1..n -> Cells]]
    BY <1>2, BlankIsCell
  <2> HIDE DEF f
  <2> QED BY <2>2, <2>3, WithCellsKeeps
<1>5. ASSUME NEW to_row \in Int, NEW to_col \in Int
      PROVE  copy_rect(s, t, l, b, r, to_row, to_col) \in Live(n, m, h)
  <2> DEFINE dr == Lesser(Greater(to_row - 1, 0), rows(s) - 1) - Lesser(Greater(t - 1, 0), rows(s) - 1)
             dc == Lesser(Greater(to_col - 1, 0), cols(s) - 1) - Lesser(Greater(l - 1, 0), cols(s) - 1)
             f == [i \in 1..m |-> [c \in 1..n |->
                     IF In(i - dr, c - dc) THEN At0(i - dr, c - dc) ELSE At0(i, c)]]
  <2>1. dr \in Int /\ dc \in Int
    BY <1>1 DEF Lesser, Greater
  <2>2. copy_rect(s, t, l, b, r, to_row, to_col) = WithCells(s, f)
    BY <1>1 DEF copy_rect
  <2>3. ASSUME NEW i \in Int, NEW c \in Int, In(i, c)
        PROVE  i \in 1..m /\ c \in 1..n
    <3>1. /\ Lesser(Greater(t - 1, 0), rows(s) - 1) < i /\ i <= Lesser(b, rows(s))
          /\ Lesser(Greater(l - 1, 0), cols(s) - 1) < c /\ c <= Lesser(r, cols(s))
      BY <2>3 DEF InRect
    <3>2. m >= 1 /\ n >= 1
      BY DEF Positive
    <3> HIDE DEF In, At0
    <3> QED BY <1>1, <3>1, <3>2 DEF Lesser, Greater
  <2> HIDE DEF In, At0, dr, dc
  <2>4. \A i \in 1..m, c \in 1..n : In(i - dr, c - dc) => At0(i - dr, c - dc) \in Cells
    <3> TAKE i \in 1..m, c \in 1..n
    <3>1. i - dr \in Int /\ c - dc \in Int
      BY <2>1
    <3> QED BY <1>2, <2>3, <3>1
  <2>5. f \in [1..m -> [1..n -> Cells]]
    BY <1>2, <2>4
  <2> HIDE DEF f
  <2> QED BY <2>2, <2>5, WithCellsKeeps
<1> QED BY <1>3, <1>4, <1>5

(* DECALN. *)
LEMMA decalnKeeps ==
  ASSUME NEW n \in Positive, NEW m \in Positive, NEW h, NEW s \in Live(n, m, h)
  PROVE  decaln(s) \in Live(n, m, h)
<1> DEFINE x == Cell("E", 1, FALSE)
           f == [i \in 1..m |-> [c \in 1..n |-> x]]
           t == WithCells(s, f)
           b == rows(s)
           u == [t EXCEPT !.top = 0, !.bottom = b]
<1>1. cols(s) = n /\ rows(s) = m /\ 0 \in 0..m-1 /\ 0 \in 0..n-1 /\ 0 \in 0..m /\ b \in 0..m /\ 0 < b
  BY Bounds
<1>2. x \in Cells
  <2>1. "E" \in STRING
    BY TerminalAssumption
  <2> QED BY <2>1 DEF Cell, Cells
<1>3. decaln(s) = At(u, 0, 0)
  BY <1>1 DEF decaln
<1> HIDE DEF x
<1>4. f \in [1..m -> [1..n -> Cells]]
  BY <1>2
<1> HIDE DEF f
<1>5. t \in Live(n, m, h)
  BY <1>4, WithCellsKeeps
<1> HIDE DEF t, b
<1>6. u \in Live(n, m, h)
  BY <1>1, <1>5, OtherRegion
<1> HIDE DEF u
<1> QED BY <1>1, <1>3, <1>6, AtKeeps

----------------------------------------------------------------------------
(* Repeating a character *)

(* REP: printing keeps the screen live, so printing any number of times does. *)
LEMMA RepeatedKeeps ==
  ASSUME NEW n \in Positive, NEW m \in Positive, NEW h, NEW s \in Live(n, m, h),
         s.last \in Chars, NEW k \in Nat
  PROVE  Repeated(s, k) \in Live(n, m, h)
<1> DEFINE Step(f, i) == IF i = 0 THEN s ELSE write_char(f[i - 1], s.last)
           IsTimes(f) == f = [i \in 0..k |-> Step(f, i)]
           Upto(j) == \E f \in [0..j -> Live(n, m, h)] : \A i \in 0..j : f[i] = Step(f, i)
           Bad == {j \in 0..k : ~Upto(j)}
<1>1. Bad = {}
  <2> SUFFICES ASSUME Bad # {}
               PROVE  FALSE
    OBVIOUS
  <2>1. PICK j \in Bad : \A i \in Bad : j <= i
    <3>1. Bad \in SUBSET Nat
      OBVIOUS
    <3> HIDE DEF Bad
    <3> QED BY <3>1, LeastNumber
  <2>2. j \in 0..k /\ ~Upto(j)
    BY <2>1
  <2>3. CASE j = 0
    <3>1. [i \in 0..0 |-> s] \in [0..0 -> Live(n, m, h)]
      OBVIOUS
    <3>2. \A i \in 0..0 : [e \in 0..0 |-> s][i] = Step([e \in 0..0 |-> s], i)
      OBVIOUS
    <3> QED BY <2>2, <2>3, <3>1, <3>2
  <2>4. CASE j # 0
    <3>1. j - 1 \in 0..k /\ j - 1 \notin Bad
      <4>1. j \in Int /\ j - 1 \in 0..k /\ ~(j <= j - 1)
        BY <2>2, <2>4
      <4> HIDE DEF Bad
      <4> QED BY <2>1, <4>1
    <3>2. Upto(j - 1)
      BY <3>1
    <3>3. PICK f \in [0..j-1 -> Live(n, m, h)] : \A i \in 0..j-1 : f[i] = Step(f, i)
      BY <3>2
    <3> DEFINE x == write_char(f[j - 1], s.last)
               e == [i \in 0..j |-> IF i < j THEN f[i] ELSE x]
    <3>4. x \in Live(n, m, h)
      <4>1. f[j - 1] \in Live(n, m, h)
        BY <2>2, <2>4, <3>3
      <4> QED BY <4>1, write_charKeeps
    <3>5. e \in [0..j -> Live(n, m, h)]
      <4> HIDE DEF x
      <4> QED BY <2>2, <3>4
    <3>6. ASSUME NEW i \in 0..j
          PROVE  e[i] = Step(e, i)
      <4>1. CASE i = j
        <5>1. j \in 0..j /\ j - 1 \in 0..j /\ j - 1 < j /\ ~(j < j)
          BY <2>2, <2>4
        <5>2. e[j] = write_char(f[j - 1], s.last) /\ e[j - 1] = f[j - 1]
          BY <5>1
        <5> HIDE DEF e
        <5> QED BY <4>1, <5>2, <2>4
      <4>2. CASE i # j
        <5>1. i \in 0..j-1 /\ i < j /\ i - 1 < j /\ (i # 0 => i - 1 \in 0..j)
          BY <4>2, <2>2
        <5>2. e[i] = f[i] /\ (i # 0 => e[i - 1] = f[i - 1])
          BY <5>1
        <5>3. f[i] = Step(f, i)
          BY <3>3, <5>1
        <5> HIDE DEF e
        <5> QED BY <5>2, <5>3
      <4> QED BY <4>1, <4>2
    <3> HIDE DEF e
    <3> QED BY <2>2, <3>5, <3>6
  <2> QED BY <2>3, <2>4
<1>2. k \in 0..k
  OBVIOUS
<1>3. PICK g \in [0..k -> Live(n, m, h)] : \A i \in 0..k : g[i] = Step(g, i)
  BY <1>1, <1>2
<1>4. IsTimes(g)
  BY <1>3
<1> DEFINE times == CHOOSE f : IsTimes(f)
<1>5. IsTimes(times)
  BY <1>4
<1>6. Repeated(s, k) = times[k]
  BY DEF Repeated
<1> HIDE DEF times
<1> DEFINE Wrong == {i \in 0..k : times[i] \notin Live(n, m, h)}
<1>7. Wrong = {}
  <2> SUFFICES ASSUME Wrong # {}
               PROVE  FALSE
    OBVIOUS
  <2>1. PICK j \in Wrong : \A i \in Wrong : j <= i
    <3>1. Wrong \in SUBSET Nat
      OBVIOUS
    <3> HIDE DEF Wrong
    <3> QED BY <3>1, LeastNumber
  <2>2. j \in 0..k /\ times[j] = Step(times, j)
    BY <1>5
  <2>3. CASE j = 0
    BY <2>1, <2>2, <2>3
  <2>4. CASE j # 0
    <3>1. j - 1 \in 0..k /\ j - 1 < j
      BY <2>2, <2>4
    <3>2. times[j - 1] \in Live(n, m, h)
      BY <2>1, <3>1
    <3>3. times[j] \in Live(n, m, h)
      BY <2>2, <2>4, <3>2, write_charKeeps
    <3> QED BY <2>1, <3>3
  <2> QED BY <2>3, <2>4
<1> QED BY <1>2, <1>6, <1>7

----------------------------------------------------------------------------
(* Modes *)

(* Modes that are switched on and off. *)
LEMMA ModesKeep ==
  ASSUME NEW n \in Positive, NEW m \in Positive, NEW h, NEW s \in Live(n, m, h), NEW b \in BOOLEAN
  PROVE  /\ \A x \in {"insert", "newline", "autowrap", "reverse", "allow"} :
              [s EXCEPT !.modes[x] = b] \in Live(n, m, h)
         /\ [s EXCEPT !.modes.margins = b] \in Live(n, m, h)
<1>1. s.modes \in ModeSets
  BY LiveFacts, ScreenFacts
<1>2. ASSUME NEW x \in {"insert", "newline", "autowrap", "reverse", "allow", "margins"}
      PROVE  [s EXCEPT !.modes[x] = b] \in Live(n, m, h)
  <2> DEFINE f == [s.modes EXCEPT ![x] = b]
  <2>1. f \in ModeSets /\ f.alt = s.modes.alt
    BY <1>1 DEF ModeSets
  <2>2. [s EXCEPT !.modes[x] = b] = [s EXCEPT !.modes = f]
    OBVIOUS
  <2> HIDE DEF f
  <2> QED BY <2>1, <2>2, OtherModes
<1>3. [s EXCEPT !.modes.margins = b] \in Live(n, m, h)
  <2> DEFINE f == [s.modes EXCEPT !.margins = b]
  <2>1. f \in ModeSets /\ f.alt = s.modes.alt
    BY <1>1 DEF ModeSets
  <2>2. [s EXCEPT !.modes.margins = b] = [s EXCEPT !.modes = f]
    OBVIOUS
  <2> HIDE DEF f
  <2> QED BY <2>1, <2>2, OtherModes
<1> QED BY <1>2, <1>3

(* Switching margins off resets them. *)
LEMMA MarginsOffKeeps ==
  ASSUME NEW n \in Positive, NEW m \in Positive, NEW h, NEW s \in Live(n, m, h)
  PROVE  [s EXCEPT !.modes.margins = FALSE, !.left = 0, !.right = cols(s)] \in Live(n, m, h)
<1> DEFINE t == [s EXCEPT !.modes.margins = FALSE]
           l == 0
           r == cols(s)
<1>1. FALSE \in BOOLEAN
  OBVIOUS
<1>2. t \in Live(n, m, h)
  BY <1>1, ModesKeep
<1>3. [s EXCEPT !.modes.margins = FALSE, !.left = l, !.right = r] = [t EXCEPT !.left = l, !.right = r]
  OBVIOUS
<1>4. l \in 0..n /\ r \in 0..n /\ l < r
  <2>1. cols(s) = n /\ n \in Nat /\ 0 \in 0..n-1
    BY Bounds
  <2> QED BY <2>1
<1> HIDE DEF t, l, r
<1>5. [t EXCEPT !.left = l, !.right = r] \in Live(n, m, h)
  BY <1>2, <1>4, OtherMargins
<1> QED BY <1>3, <1>5 DEF l, r

(* XTSAVE. *)
LEMMA save_dec_modesKeeps ==
  ASSUME NEW n \in Positive, NEW m \in Positive, NEW h, NEW s \in Live(n, m, h)
  PROVE  save_dec_modes(s) \in Live(n, m, h)
<1> DEFINE q == <<s.modes>>
<1>1. q \in Seq(ModeSets)
  <2>1. s.modes \in ModeSets
    BY LiveFacts, ScreenFacts
  <2> QED BY <2>1
<1> HIDE DEF q
<1>2. [s EXCEPT !.saved_modes = q] \in Screens(n, m)
  BY <1>1 DEF Live, Screens
<1>3. [s EXCEPT !.saved_modes = q] \in Live(n, m, h)
  BY <1>2 DEF Live, Screens, Rest
<1> QED BY <1>3 DEF save_dec_modes, q

(* Modes taken back may have another flag of the alternate screen. *)
LEMMA restore_dec_modesKeeps ==
  ASSUME NEW n \in Positive, NEW m \in Positive, NEW h, NEW s \in Live(n, m, h)
  PROVE  restore_dec_modes(s) \in
           Live(n, m, <<s.hidden, s.hidden_cur, restore_dec_modes(s).modes.alt>>)
<1> DEFINE f == IF s.saved_modes = <<>> THEN s.modes ELSE Head(s.saved_modes)
           q == <<>>
<1>1. s.modes \in ModeSets /\ s.saved_modes \in Seq(ModeSets)
  BY LiveFacts, ScreenFacts
<1>2. f \in ModeSets /\ q \in Seq(ModeSets)
  BY <1>1, HeadTailProperties
<1>3. restore_dec_modes(s) = [s EXCEPT !.modes = f, !.saved_modes = q]
  BY DEF restore_dec_modes
<1> HIDE DEF f, q
<1>4. [s EXCEPT !.modes = f, !.saved_modes = q] \in Screens(n, m)
  BY <1>2 DEF Live, Screens
<1>5. /\ restore_dec_modes(s).cur = s.cur /\ restore_dec_modes(s).hidden = s.hidden
      /\ restore_dec_modes(s).hidden_cur = s.hidden_cur
  BY <1>3 DEF Live, Screens
<1>6. s.cur \in Cursors(n, m)
  BY DEF Live
<1> QED BY <1>3, <1>4, <1>5, <1>6 DEF Live, Rest

----------------------------------------------------------------------------
(* The alternate screen and resets *)

(* Home is on every grid. *)
LEMMA HomeIs ==
  ASSUME NEW n \in Positive, NEW m \in Positive
  PROVE  Home \in Cursors(n, m) /\ Home \in [row : Nat, col : Nat]
BY DEF Home, Cursors, Positive

(* A cursor on a grid is a cursor. *)
LEMMA CursorsAre ==
  ASSUME NEW n \in Positive, NEW m \in Positive, NEW p \in Cursors(n, m)
  PROVE  p \in [row : Nat, col : Nat]
BY DEF Cursors, Positive

(* The default modes show the primary screen. *)
LEMMA DefaultsAre == DefaultModes \in ModeSets /\ DefaultModes.alt = FALSE
BY DEF DefaultModes, ModeSets

(* A cleared grid. *)
LEMMA BlankGridKeeps ==
  ASSUME NEW n \in Positive, NEW m \in Positive, NEW g \in Grids(n, m)
  PROVE  [g EXCEPT !.lines = BlankRows(g, Rows(g))] \in Grids(n, m)
<1> DEFINE f == BlankRows(g, Rows(g))
<1>1. f \in [1..m -> RowsOf(n)]
  BY GridFacts, NewRowIsRow DEF BlankRows
<1> HIDE DEF f
<1>2. [g EXCEPT !.lines = f] \in Grids(n, m)
  BY <1>1, OtherLines
<1> QED BY <1>2 DEF f

(* A new one. *)
LEMMA NewGridIsGrid ==
  ASSUME NEW n \in Positive, NEW m \in Positive
  PROVE  NewGrid(n, m) \in Grids(n, m)
<1> DEFINE f == [i \in 1..m |-> NewRow(n)]
<1>1. f \in [1..m -> RowsOf(n)]
  BY NewRowIsRow
<1>2. <<>> \in Seq(RowsOf(n)) /\ Len(<<>>) <= ScrollbackLimit
  BY LimitAssumption
<1>3. NewGrid(n, m) = [cols |-> n, lines |-> f, sb |-> <<>>]
  BY DEF NewGrid
<1> HIDE DEF f
<1> QED BY <1>1, <1>2, <1>3 DEF Grids

(* All rows of t are to be drawn, and what was to be drawn of s. *)
Redrawn(m, s, t) == t.damage = s.damage \cup 0..m-1

(* A screen damaged as a whole. *)
LEMMA FullDamageIs ==
  ASSUME NEW n \in Positive, NEW m \in Positive, NEW s \in Screens(n, m)
  PROVE  Redrawn(m, s, FullDamage(s))
<1>1. AllRows(s) = 0..m-1
  BY ScreenFacts DEF AllRows
<1> DEFINE d == s.damage \cup (AllRows(s) \cap AllRows(s))
<1>2. FullDamage(s) = [s EXCEPT !.damage = d]
  BY DEF FullDamage, record_damage
<1>3. d = s.damage \cup 0..m-1
  BY <1>1
<1> HIDE DEF d
<1>4. [s EXCEPT !.damage = d].damage = d
  BY DEF Screens
<1> QED BY <1>2, <1>3, <1>4 DEF Redrawn

(* Entering the alternate screen keeps grid and cursor of the primary one, *)
(* and every row is drawn again.                                           *)
LEMMA enter_alt_screenKeeps ==
  ASSUME NEW n \in Positive, NEW m \in Positive, NEW h, NEW s \in Live(n, m, h),
         NEW save \in BOOLEAN, ~s.modes.alt
  PROVE  /\ enter_alt_screen(s, save) \in Live(n, m, <<s.grid, s.cur, TRUE>>)
         /\ Redrawn(m, s, enter_alt_screen(s, save))
<1> DEFINE u == IF save THEN save_cursor(s) ELSE s
           t == Swap(u)
           f == [u.modes EXCEPT !.alt = TRUE]
           g == [u.hidden EXCEPT !.lines = BlankRows(u.hidden, Rows(u.hidden))]
           v == [u EXCEPT !.grid = g, !.hidden = u.grid, !.cur = Home, !.hidden_cur = u.cur,
                          !.pending = FALSE, !.modes = f]
<1>1. u \in Live(n, m, h)
  BY save_cursorKeeps
<1>2. u.grid = s.grid /\ u.cur = s.cur /\ u.damage = s.damage
  BY DEF save_cursor, Live, Screens
<1>3. enter_alt_screen(s, save) = FullDamage([t EXCEPT !.modes.alt = TRUE, !.cur = Home,
                                                !.grid.lines = BlankRows(t.grid, Rows(t.grid))])
  BY DEF enter_alt_screen
<1> HIDE DEF u
<1>4. u \in Screens(n, m) /\ u.hidden \in Grids(n, m) /\ u.modes \in ModeSets
  BY <1>1, LiveFacts, ScreenFacts
<1>5. t.grid = u.hidden /\ t.modes = u.modes
  BY <1>4 DEF Swap, Screens
<1>6. [t EXCEPT !.modes.alt = TRUE, !.cur = Home, !.grid.lines = BlankRows(t.grid, Rows(t.grid))] = v
  <2> DEFINE z == BlankRows(u.hidden, Rows(u.hidden))
  <2>1. BlankRows(t.grid, Rows(t.grid)) = z
    BY <1>5
  <2> HIDE DEF z
  <2>2. [t EXCEPT !.modes.alt = TRUE, !.cur = Home, !.grid.lines = z]
          = [u EXCEPT !.grid = [u.hidden EXCEPT !.lines = z], !.hidden = u.grid, !.cur = Home,
                      !.hidden_cur = u.cur, !.pending = FALSE, !.modes = f]
    BY <1>4 DEF Swap, Screens
  <2> QED BY <2>1, <2>2 DEF z
<1>7. f \in ModeSets /\ f.alt = TRUE
  BY <1>4 DEF ModeSets
<1>8. g \in Grids(n, m)
  BY <1>4, BlankGridKeeps
<1>9. u.cur \in Cursors(n, m) /\ u.cur \in [row : Nat, col : Nat] /\ u.grid \in Grids(n, m)
  BY <1>1, LiveFacts, CursorsAre
<1> HIDE DEF f, g, t
<1>10. v \in Screens(n, m)
  BY <1>4, <1>7, <1>8, <1>9, HomeIs DEF Screens
<1>11. v.cur = Home /\ v.hidden = s.grid /\ v.hidden_cur = s.cur /\ v.modes.alt = TRUE /\ v.damage = s.damage
  BY <1>2, <1>4, <1>7 DEF Screens
<1> HIDE DEF v
<1>12. v \in Live(n, m, <<s.grid, s.cur, TRUE>>)
  BY <1>10, <1>11, HomeIs DEF Live, Rest
<1>13. Redrawn(m, s, FullDamage(v))
  BY <1>10, <1>11, FullDamageIs DEF Redrawn
<1> QED BY <1>3, <1>6, <1>12, <1>13, DamageKeeps DEF FullDamage

(* The screens change places; a cursor kept from before a resize may lie off *)
(* the grid when it is taken as it is.                                       *)
LEMMA leave_alt_screenKeeps ==
  ASSUME NEW n \in Positive, NEW m \in Positive, NEW h, NEW s \in Live(n, m, h),
         NEW restore \in BOOLEAN, s.modes.alt
  PROVE  /\ leave_alt_screen(s, restore) \in Screens(n, m)
         /\ Rest(leave_alt_screen(s, restore)) = <<s.grid, s.cur, FALSE>>
         /\ leave_alt_screen(s, restore).grid = s.hidden
         /\ s.hidden_cur \in Cursors(n, m) => leave_alt_screen(s, restore).cur \in Cursors(n, m)
         /\ Redrawn(m, s, leave_alt_screen(s, restore))
<1> DEFINE f == [s.modes EXCEPT !.alt = FALSE]
           t == [s EXCEPT !.grid = s.hidden, !.hidden = s.grid, !.cur = s.hidden_cur,
                          !.hidden_cur = s.cur, !.pending = FALSE, !.modes = f]
           rr == AllRows(t)
<1>1. s \in Screens(n, m) /\ s.modes \in ModeSets
  BY LiveFacts, ScreenFacts
<1>2. [Swap(s) EXCEPT !.modes.alt = FALSE] = t
  BY <1>1 DEF Swap, Screens
<1>3. f \in ModeSets /\ f.alt = FALSE
  BY <1>1 DEF ModeSets
<1>4. leave_alt_screen(s, restore) = FullDamage(IF restore THEN restore_cursor(t) ELSE t)
  BY <1>2 DEF leave_alt_screen
<1> HIDE DEF f
<1>5. t \in Screens(n, m)
  BY <1>1, <1>3 DEF Screens
<1>6. t.grid = s.hidden /\ t.hidden = s.grid /\ t.cur = s.hidden_cur /\ t.hidden_cur = s.cur /\ t.modes.alt = FALSE
  BY <1>1, <1>3 DEF Screens
<1>10. t.damage = s.damage
  BY <1>1 DEF Screens
<1> HIDE DEF t
<1>7. Rest(t) = <<s.grid, s.cur, FALSE>>
  BY <1>6 DEF Rest
<1>8. CASE restore
  <2> DEFINE u == restore_cursor(t)
  <2>1. u \in Live(n, m, <<s.grid, s.cur, FALSE>>)
    BY <1>5, <1>7, restore_cursorKeeps
  <2>2. u.grid = s.hidden /\ u.damage = s.damage
    BY <1>5, <1>6, <1>10 DEF restore_cursor, At, Screens
  <2>3. leave_alt_screen(s, restore) = record_damage(u, AllRows(u))
    BY <1>4, <1>8 DEF FullDamage
  <2> HIDE DEF u
  <2>4. record_damage(u, AllRows(u)) \in Live(n, m, <<s.grid, s.cur, FALSE>>)
    BY <2>1, DamageKeeps
  <2>5. record_damage(u, AllRows(u)).grid = u.grid
    BY <2>1 DEF record_damage, Live, Screens
  <2>6. Redrawn(m, s, record_damage(u, AllRows(u)))
    BY <2>1, <2>2, LiveFacts, FullDamageIs DEF FullDamage, Redrawn
  <2> QED BY <2>2, <2>3, <2>4, <2>5, <2>6 DEF Live
<1>9. CASE ~restore
  <2> DEFINE d == t.damage \cup (AllRows(t) \cap AllRows(t))
  <2>1. leave_alt_screen(s, restore) = [t EXCEPT !.damage = d]
    BY <1>4, <1>9 DEF FullDamage, record_damage
  <2>2. d \in SUBSET Nat
    BY <1>5, ScreenFacts DEF AllRows, Screens
  <2> HIDE DEF d
  <2>3. [t EXCEPT !.damage = d] \in Screens(n, m)
    BY <1>5, <2>2 DEF Screens
  <2>4. /\ leave_alt_screen(s, restore).grid = t.grid /\ leave_alt_screen(s, restore).cur = t.cur
        /\ leave_alt_screen(s, restore).hidden = t.hidden
        /\ leave_alt_screen(s, restore).hidden_cur = t.hidden_cur
        /\ leave_alt_screen(s, restore).modes = t.modes
    BY <1>5, <2>1 DEF Screens
  <2>5. Redrawn(m, s, leave_alt_screen(s, restore))
    BY <1>4, <1>5, <1>9, <1>10, FullDamageIs DEF Redrawn
  <2> QED BY <1>6, <2>1, <2>3, <2>4, <2>5 DEF Rest
<1> QED BY <1>8, <1>9

(* RIS: a new screen. *)
LEMMA newIs ==
  ASSUME NEW n \in Positive, NEW m \in Positive
  PROVE  new(n, m) \in Live(n, m, <<NewGrid(n, m), Home, FALSE>>)
<1> DEFINE g == NewGrid(n, m)
           T == DefaultStops(0, n)
<1>1. g \in Grids(n, m)
  BY NewGridIsGrid
<1>2. T \in SUBSET (0..n-1)
  BY DEF DefaultStops
<1>3. <<>> \in Seq(SavedCursors(n, m)) /\ <<>> \in Seq(ModeSets) /\ {} \in SUBSET Nat
      /\ 0 \in 0..n /\ 0 \in 0..m /\ n \in 0..n /\ m \in 0..m /\ 0 < n /\ 0 < m /\ 0 \in Nat
  BY DEF Positive
<1>4. NoChar \in Chars \cup {NoChar} /\ FALSE \in BOOLEAN
  OBVIOUS
<1>5. new(n, m) = [grid |-> g, hidden |-> g,
         cur |-> Home, hidden_cur |-> Home, saved |-> <<>>,
         modes |-> DefaultModes, saved_modes |-> <<>>,
         top |-> 0, bottom |-> m, left |-> 0, right |-> n,
         pending |-> FALSE, prot |-> FALSE, last |-> NoChar,
         stops |-> T, vp |-> 0, damage |-> {}]
  BY DEF new
<1> HIDE DEF g, T
<1>6. new(n, m) \in Screens(n, m)
  BY <1>1, <1>2, <1>3, <1>4, <1>5, HomeIs, DefaultsAre DEF Screens
<1>7. new(n, m).cur = Home /\ Rest(new(n, m)) = <<g, Home, FALSE>>
  <2>1. /\ new(n, m).cur = Home /\ new(n, m).hidden = g /\ new(n, m).hidden_cur = Home
        /\ new(n, m).modes = DefaultModes
    BY <1>5
  <2> QED BY <2>1, DefaultsAre DEF Rest
<1> QED BY <1>6, <1>7, HomeIs DEF Live, g

(* DECSTR forgets which screen is shown. *)
LEMMA soft_resetKeeps ==
  ASSUME NEW n \in Positive, NEW m \in Positive, NEW h, NEW s \in Live(n, m, h)
  PROVE  soft_reset(s) \in Live(n, m, <<s.hidden, s.hidden_cur, FALSE>>)
<1>1. s \in Screens(n, m) /\ s.cur \in Cursors(n, m) /\ cols(s) = n /\ rows(s) = m
  BY LiveFacts, Bounds
<1>2. <<>> \in Seq(SavedCursors(n, m)) /\ FALSE \in BOOLEAN
  OBVIOUS
<1>3. 0 \in 0..n /\ 0 \in 0..m /\ n \in 0..n /\ m \in 0..m /\ 0 < n /\ 0 < m
  BY DEF Positive
<1> DEFINE f == DefaultModes
           q == <<>>
<1>4. soft_reset(s) = [s EXCEPT !.modes = f, !.prot = FALSE, !.saved = q, !.pending = FALSE,
            !.top = 0, !.bottom = m, !.left = 0, !.right = n]
  BY <1>1 DEF soft_reset
<1>5. f \in ModeSets /\ f.alt = FALSE /\ q \in Seq(SavedCursors(n, m))
  BY <1>2, DefaultsAre
<1> HIDE DEF f, q
<1> DEFINE u == [s EXCEPT !.top = 0, !.bottom = m]
           v == [u EXCEPT !.left = 0, !.right = n]
           w == [v EXCEPT !.saved = q]
           x == [w EXCEPT !.prot = FALSE]
           y == [x EXCEPT !.pending = FALSE]
<1>6. soft_reset(s) \in Screens(n, m)
  <2>1. y \in Live(n, m, h)
    <3>1. u \in Live(n, m, h)
      BY <1>3, OtherRegion
    <3> HIDE DEF u
    <3>2. v \in Live(n, m, h)
      BY <1>3, <3>1, OtherMargins
    <3> HIDE DEF v
    <3>3. w \in Live(n, m, h)
      BY <1>5, <3>2, OtherSaved
    <3> HIDE DEF w
    <3>4. x \in Live(n, m, h)
      BY <1>2, <3>3, OtherProt
    <3> HIDE DEF x
    <3> QED BY <1>2, <3>4, OtherPending
  <2>2. soft_reset(s) = [y EXCEPT !.modes = f]
    BY <1>4
  <2> HIDE DEF y
  <2> QED BY <1>5, <2>1, <2>2 DEF Live, Screens
<1>7. soft_reset(s).cur = s.cur /\ Rest(soft_reset(s)) = <<s.hidden, s.hidden_cur, FALSE>>
  BY <1>1, <1>4, <1>5 DEF Screens, Rest
<1> QED BY <1>1, <1>6, <1>7 DEF Live

----------------------------------------------------------------------------
(* Resizing *)

(* Bounds fitted to a new size are proper bounds of it. *)
LEMMA FitBoundsIs ==
  ASSUME NEW old \in Nat, NEW size \in Positive, NEW low \in 0..old, NEW high \in 0..old, low < high
  PROVE  /\ FitBounds(low, high, old, size).low \in 0..size
         /\ FitBounds(low, high, old, size).high \in 0..size
         /\ FitBounds(low, high, old, size).low < FitBounds(low, high, old, size).high
<1> DEFINE h == Lesser(high, size)
<1>1. size \in Nat /\ size >= 1 /\ low \in Nat /\ high \in Nat /\ high >= 1
  BY DEF Positive
<1>2. h \in 1..size
  BY <1>1 DEF Lesser
<1>3. CASE low = 0 /\ high = old
  BY <1>1, <1>3 DEF FitBounds
<1>4. CASE ~(low = 0 /\ high = old)
  <2> DEFINE a == Lesser(low, Greater(h - 1, 0))
  <2>1. FitBounds(low, high, old, size) = [low |-> a, high |-> h]
    BY <1>2, <1>4 DEF FitBounds
  <2> HIDE DEF h
  <2>2. a \in 0..size /\ a < h
    BY <1>1, <1>2 DEF Lesser, Greater
  <2> HIDE DEF a
  <2>3. h \in 0..size
    BY <1>1, <1>2
  <2> QED BY <2>1, <2>2, <2>3
<1> QED BY <1>3, <1>4

(* A cursor clamped to a size is on the grid of that size. *)
LEMMA ClampedCursor ==
  ASSUME NEW n \in Positive, NEW m \in Positive, NEW r \in Nat, NEW c \in Nat
  PROVE  ClampTo([row |-> r, col |-> c], n, m) \in Cursors(n, m)
<1> DEFINE p == [row |-> r, col |-> c]
           x == Lesser(p.row, m - 1)
           y == Lesser(p.col, n - 1)
<1>1. x \in 0..m-1 /\ y \in 0..n-1
  BY DEF Lesser, Positive
<1>2. p \in [row : Nat, col : Nat]
  OBVIOUS
<1> HIDE DEF p
<1>3. ClampTo(p, n, m) = [p EXCEPT !.row = x, !.col = y]
  BY <1>2 DEF ClampTo
<1> HIDE DEF x, y
<1>4. ClampTo(p, n, m) \in Cursors(n, m)
  BY <1>1, <1>2, <1>3 DEF Cursors
<1> QED BY <1>4 DEF p

(* So is a saved one. *)
LEMMA ClampedSaved ==
  ASSUME NEW k \in Positive, NEW j \in Positive, NEW n \in Positive, NEW m \in Positive,
         NEW p \in SavedCursors(k, j)
  PROVE  ClampTo(p, n, m) \in SavedCursors(n, m)
<1> DEFINE r == Lesser(p.row, m - 1)
           c == Lesser(p.col, n - 1)
<1>1. p.row \in 0..j-1 /\ p.col \in 0..k-1
  BY DEF SavedCursors
<1>2. r \in 0..m-1 /\ c \in 0..n-1
  BY <1>1 DEF Lesser, Positive
<1>3. ClampTo(p, n, m) = [p EXCEPT !.row = r, !.col = c]
  BY DEF ClampTo, SavedCursors
<1> HIDE DEF r, c
<1> QED BY <1>2, <1>3 DEF SavedCursors

(* Resizing fits all but the cursor kept for the other screen. *)
LEMMA resizeKeeps ==
  ASSUME NEW k \in Positive, NEW j \in Positive, NEW n \in Positive, NEW m \in Positive,
         NEW h, NEW s \in Live(k, j, h)
  PROVE  resize(s, n, m) \in Screens(n, m) /\ resize(s, n, m).cur \in Cursors(n, m)
<1> DEFINE g == resize_with_cursor(s.grid, n, m, s.cur.row, s.cur.col)
           a == g.grid
           b == resize_with_cursor(s.hidden, n, m, 0, 0).grid
           row == Greater(s.cur.row + g.delta, 0)
           cur == ClampTo([row |-> row, col |-> s.cur.col], n, m)
           tb == FitBounds(s.top, s.bottom, rows(s), m)
           lr == FitBounds(s.left, s.right, cols(s), n)
           top == tb.low
           bottom == tb.high
           left_ == lr.low
           right_ == lr.high
           saved == [i \in DOMAIN s.saved |-> ClampTo(s.saved[i], n, m)]
           stops == (s.stops \cap 0..n-1) \cup DefaultStops(cols(s), n)
<1>1. /\ s \in Screens(k, j) /\ s.cur.row \in 0..j-1 /\ s.cur.col \in Nat /\ s.cur.row \in Nat
      /\ s.grid \in Grids(k, j)
  BY LiveFacts
<1>2. /\ s.hidden \in Grids(k, j) /\ cols(s) = k /\ rows(s) = j
      /\ s.top \in 0..j /\ s.bottom \in 0..j /\ s.top < s.bottom
      /\ s.left \in 0..k /\ s.right \in 0..k /\ s.left < s.right
      /\ s.saved \in Seq(SavedCursors(k, j)) /\ s.stops \in SUBSET (0..k-1)
  BY <1>1, ScreenFacts
<1>3. a \in Grids(n, m) /\ g.delta \in Int
  BY <1>1, ResizedIs
<1>4. b \in Grids(n, m)
  <2>1. 0 \in 0..j-1 /\ 0 \in Nat
    BY DEF Positive
  <2> QED BY <1>2, <2>1, ResizedIs
<1>5. cur \in Cursors(n, m)
  <2> HIDE DEF g
  <2>1. row \in Nat
    BY <1>1, <1>3 DEF Greater
  <2> HIDE DEF row
  <2> QED BY <1>1, <2>1, ClampedCursor
<1>6. /\ top \in 0..m /\ bottom \in 0..m /\ top < bottom
      /\ left_ \in 0..n /\ right_ \in 0..n /\ left_ < right_
  <2>1. k \in Nat /\ j \in Nat
    BY DEF Positive
  <2> QED BY <1>2, <2>1, FitBoundsIs
<1>7. saved \in Seq(SavedCursors(n, m))
  <2>1. \A i \in DOMAIN s.saved : s.saved[i] \in SavedCursors(k, j)
    BY <1>2, ElementOfSeq
  <2>2. \A i \in DOMAIN s.saved : saved[i] \in SavedCursors(n, m)
    BY <2>1, ClampedSaved
  <2>3. DOMAIN s.saved = 1..Len(s.saved) /\ Len(s.saved) \in Nat
    BY <1>2, LenProperties
  <2>4. saved \in [1..Len(s.saved) -> SavedCursors(n, m)]
    BY <2>2, <2>3
  <2> HIDE DEF saved
  <2> QED BY <2>3, <2>4, SeqDef
<1>8. stops \in SUBSET (0..n-1)
  <2>1. DefaultStops(k, n) \subseteq 0..n-1
    BY DEF DefaultStops, Positive
  <2> QED BY <1>2, <2>1
<1>9. resize(s, n, m) = [s EXCEPT !.grid = a, !.hidden = b, !.cur = cur,
                !.top = top, !.bottom = bottom, !.left = left_, !.right = right_,
                !.saved = saved, !.stops = stops, !.pending = FALSE]
  BY DEF resize
<1>10. cur \in [row : Nat, col : Nat] /\ FALSE \in BOOLEAN
  <2> HIDE DEF cur
  <2> QED BY <1>5, CursorsAre
<1> HIDE DEF a, b, cur, top, bottom, left_, right_, saved, stops
<1> DEFINE t == [s EXCEPT !.grid = a, !.hidden = b, !.cur = cur, !.saved = saved, !.stops = stops]
           Body == [grid : Grids(n, m), hidden : Grids(n, m),
                    cur : [row : Nat, col : Nat], hidden_cur : [row : Nat, col : Nat],
                    saved : Seq(SavedCursors(n, m)), modes : ModeSets, saved_modes : Seq(ModeSets),
                    top : 0..j, bottom : 0..j, left : 0..k, right : 0..k,
                    pending : BOOLEAN, prot : BOOLEAN, last : Chars \cup {NoChar},
                    stops : SUBSET (0..n-1), vp : Nat, damage : SUBSET Nat]
<1>11. resize(s, n, m) \in Screens(n, m)
  <2>1. t \in Body
    BY <1>1, <1>3, <1>4, <1>7, <1>8, <1>10 DEF Screens
  <2>2. resize(s, n, m) = [t EXCEPT !.top = top, !.bottom = bottom, !.left = left_, !.right = right_,
                                    !.pending = FALSE]
    BY <1>9
  <2> HIDE DEF t
  <2> DEFINE u == [t EXCEPT !.top = top, !.bottom = bottom]
             v == [u EXCEPT !.left = left_, !.right = right_]
             w == [v EXCEPT !.pending = FALSE]
             Between == [grid : Grids(n, m), hidden : Grids(n, m),
                    cur : [row : Nat, col : Nat], hidden_cur : [row : Nat, col : Nat],
                    saved : Seq(SavedCursors(n, m)), modes : ModeSets, saved_modes : Seq(ModeSets),
                    top : 0..m, bottom : 0..m, left : 0..k, right : 0..k,
                    pending : BOOLEAN, prot : BOOLEAN, last : Chars \cup {NoChar},
                    stops : SUBSET (0..n-1), vp : Nat, damage : SUBSET Nat]
  <2>3. u \in Between /\ u.top < u.bottom
    BY <1>6, <2>1
  <2>4. v \in Screens(n, m)
    <3> HIDE DEF u
    <3> QED BY <1>6, <2>3 DEF Screens
  <2>5. resize(s, n, m) = w
    BY <2>2
  <2>6. w \in Screens(n, m)
    <3> HIDE DEF v
    <3> QED BY <1>10, <2>4 DEF Screens
  <2> QED BY <2>5, <2>6
<1>12. resize(s, n, m).cur = cur
  BY <1>1, <1>9 DEF Screens
<1> QED BY <1>5, <1>11, <1>12

(* Taking the damage and going back to the bottom of the view. *)
LEMMA TakenIs ==
  ASSUME NEW n \in Positive, NEW m \in Positive, NEW s \in Screens(n, m)
  PROVE  LET t == [scroll_viewport_reset(s) EXCEPT !.damage = {}]
         IN  t \in Screens(n, m) /\ t.cur = s.cur /\ t.grid = s.grid /\ Rest(t) = Rest(s)
<1> DEFINE t == [s EXCEPT !.vp = 0, !.damage = {}]
<1>1. t \in Screens(n, m)
  BY DEF Screens
<1>2. t.cur = s.cur /\ t.grid = s.grid /\ Rest(t) = Rest(s)
  BY DEF Screens, Rest
<1> QED BY <1>1, <1>2 DEF scroll_viewport_reset

----------------------------------------------------------------------------
(* The invariant *)

(* A screen of some size with all that belongs to it. *)
Proper(s) == cols(s) \in Positive /\ rows(s) \in Positive /\ s \in Screens(cols(s), rows(s))

(* Two grids of one size with their cursors, region, margins and stops; the  *)
(* shown cursor is on the grid unless an unfitted one was just shown, the    *)
(* kept one unless a resize has left it behind; and while nobody lost track, *)
(* the kept grid is the one that entering the alternate screen hid.          *)
TerminalInv ==
  /\ Proper(screen)
  /\ mixed \in BOOLEAN /\ resized \in {"no", "hidden", "shown"}
  /\ OnScreen(screen) \/ resized = "shown"
  /\ resized # "hidden" => screen.hidden_cur \in Cursors(cols(screen), rows(screen))
  /\ primary # <<>> /\ ~mixed /\ resized = "no" => screen.modes.alt /\ screen.hidden = Head(primary)

(* A screen is proper for the size of its grid alone. *)
LEMMA ProperIs ==
  ASSUME NEW n \in Positive, NEW m \in Positive, NEW s \in Screens(n, m)
  PROVE  Proper(s) /\ cols(s) = n /\ rows(s) = m /\ (OnScreen(s) <=> s.cur \in Cursors(n, m))
<1>1. cols(s) = n /\ rows(s) = m
  BY ScreenFacts
<1>2. s.cur.row \in Nat /\ s.cur.col \in Nat /\ s.cur = [row |-> s.cur.row, col |-> s.cur.col]
  BY ScreenFacts
<1>3. OnScreen(s) <=> s.cur.row \in 0..m-1 /\ s.cur.col \in 0..n-1
  BY <1>1, <1>2 DEF OnScreen, Positive
<1>4. s.cur \in Cursors(n, m) <=> s.cur.row \in 0..m-1 /\ s.cur.col \in 0..n-1
  BY <1>2 DEF Cursors
<1> QED BY <1>1, <1>3, <1>4 DEF Proper

(* With the cursor on the grid the screen of the invariant is live. *)
LEMMA ScreenIsLive ==
  ASSUME TerminalInv, OnScreen(screen)
  PROVE  /\ cols(screen) \in Positive /\ rows(screen) \in Positive
         /\ screen \in Live(cols(screen), rows(screen), Rest(screen))
<1> DEFINE n == cols(screen)
           m == rows(screen)
<1>1. n \in Positive /\ m \in Positive /\ screen \in Screens(n, m)
  BY DEF TerminalInv, Proper
<1> HIDE DEF n, m
<1>2. screen.cur \in Cursors(n, m)
  BY <1>1, ProperIs
<1> QED BY <1>1, <1>2 DEF Live, n, m

(* What a chunk of output does to the screen. *)
LEMMA FeedIs ==
  ASSUME TerminalInv, NEW t, Feed(t), t \in Screens(cols(screen), rows(screen))
  PROVE  /\ Proper(screen') /\ cols(screen') = cols(screen) /\ rows(screen') = rows(screen)
         /\ screen'.grid = t.grid /\ screen'.hidden = t.hidden /\ screen'.hidden_cur = t.hidden_cur
         /\ screen'.modes.alt = t.modes.alt
         /\ OnScreen(screen') <=> t.cur \in Cursors(cols(screen), rows(screen))
<1> DEFINE n == cols(screen)
           m == rows(screen)
           u == [scroll_viewport_reset(t) EXCEPT !.damage = {}]
<1>1. n \in Positive /\ m \in Positive /\ t \in Screens(n, m)
  BY DEF TerminalInv, Proper
<1>2. screen' = u
  BY DEF Feed
<1> HIDE DEF n, m
<1>3. u \in Screens(n, m) /\ u.cur = t.cur /\ u.grid = t.grid /\ Rest(u) = Rest(t)
  BY <1>1, TakenIs
<1>4. u.hidden = t.hidden /\ u.hidden_cur = t.hidden_cur /\ u.modes.alt = t.modes.alt
  BY <1>3 DEF Rest
<1> HIDE DEF u
<1>5. Proper(u) /\ cols(u) = n /\ rows(u) = m /\ (OnScreen(u) <=> u.cur \in Cursors(n, m))
  BY <1>1, <1>3, ProperIs
<1>6. /\ Proper(screen') /\ cols(screen') = n /\ rows(screen') = m
      /\ OnScreen(screen') <=> t.cur \in Cursors(n, m)
  BY <1>2, <1>3, <1>5
<1> QED BY <1>2, <1>3, <1>4, <1>6 DEF n, m

(* Control functions that leave the other screen alone. *)
LEMMA PlainStep ==
  ASSUME TerminalInv, NEW t, Feed(t), Plain,
         t \in Live(cols(screen), rows(screen), Rest(screen))
  PROVE  TerminalInv'
<1>1. /\ t \in Screens(cols(screen), rows(screen)) /\ t.cur \in Cursors(cols(screen), rows(screen))
      /\ Rest(t) = Rest(screen)
  BY DEF Live
<1>2. /\ Proper(screen') /\ cols(screen') = cols(screen) /\ rows(screen') = rows(screen)
      /\ screen'.hidden = t.hidden /\ screen'.hidden_cur = t.hidden_cur
      /\ screen'.modes.alt = t.modes.alt /\ OnScreen(screen')
  BY <1>1, FeedIs
<1>3. t.hidden = screen.hidden /\ t.hidden_cur = screen.hidden_cur /\ t.modes.alt = screen.modes.alt
  BY <1>1 DEF Rest
<1>4. primary' = primary /\ mixed' = mixed /\ resized' = resized
  BY DEF Plain
<1>5. OnScreen(screen)'
  BY <1>2
<1> QED BY <1>2, <1>3, <1>4, <1>5 DEF TerminalInv

(* The painted screens satisfy the invariant. *)
LEMMA InitHolds == Init => TerminalInv
<1> SUFFICES ASSUME Init
             PROVE  TerminalInv
  OBVIOUS
<1> DEFINE n == cols(screen)
           m == rows(screen)
<1>1. /\ n \in Positive /\ m \in Positive /\ screen \in Screens(n, m)
      /\ screen.cur \in Cursors(n, m) /\ screen.hidden_cur \in Cursors(n, m)
  <2>1. screen \in Painted
    BY DEF Init
  <2>2. /\ cols(screen) \in Positive /\ rows(screen) \in Positive
        /\ screen \in Screens(cols(screen), rows(screen))
        /\ {screen.cur, screen.hidden_cur} \subseteq Cursors(cols(screen), rows(screen))
    BY <2>1, TerminalAssumption
  <2> QED BY <2>2
<1>2. Proper(screen) /\ OnScreen(screen)
  <2> HIDE DEF n, m
  <2> QED BY <1>1, ProperIs
<1> QED BY <1>1, <1>2 DEF Init, TerminalInv

(* The control functions that leave the other screen alone, one by one. *)
LEMMA OutputIsLive ==
  ASSUME TerminalInv,
         \/ PrintChar \/ execute_c0 \/ Repeat \/ MoveCursor \/ PositionCursor \/ CHA \/ VPA
         \/ Erase \/ SelectiveErase \/ EraseScrollback \/ ECH \/ IL \/ DL \/ SU \/ SD
         \/ EditChars \/ Rectangles \/ SetMargins \/ TabStops \/ SavedCursor \/ Protect
         \/ SetMode \/ SetOrigin \/ SetMarginMode \/ SaveModes \/ DECALN \/ Index \/ NextLine \/ RI
  PROVE  \E t \in Live(cols(screen), rows(screen), Rest(screen)) : Feed(t) /\ Plain
<1> DEFINE n == cols(screen)
           m == rows(screen)
           h == Rest(screen)
           Fed(t) == Feed(t) /\ Plain
           Goal == \E t \in Live(n, m, h) : Fed(t)
<1>1. ASSUME NEW t, Fed(t), OnScreen(screen) => t \in Live(n, m, h)
      PROVE  Goal
  BY <1>1 DEF Feed
<1>2. OnScreen(screen) => n \in Positive /\ m \in Positive /\ screen \in Live(n, m, h)
  BY ScreenIsLive
<1>3. Counts \subseteq Nat /\ 1 \in Nat
  BY TerminalAssumption DEF Positive
<1>4. OnScreen(screen) => /\ rows(screen) \in Nat /\ cols(screen) \in Nat
                          /\ screen.cur.row \in Nat /\ screen.cur.col \in Nat
  <2>1. n \in Nat /\ m \in Nat
    BY DEF TerminalInv, Proper, Positive
  <2>2. OnScreen(screen) => screen.cur.row \in Nat /\ screen.cur.col \in Nat
    <3> HIDE DEF n, m, h
    <3> QED BY <1>2, LiveFacts
  <2> QED BY <2>1, <2>2
<1> HIDE DEF n, m, h
<1> SUFFICES Goal
  BY DEF n, m, h
<1> HIDE DEF Goal
<1>10. CASE PrintChar
  <2>1. PICK c \in Chars : Fed(write_char(screen, c))
    BY <1>10 DEF PrintChar
  <2> QED BY <1>1, <1>2, <2>1, write_charKeeps
<1>11. CASE execute_c0
  <2>1. \/ Fed(backspace(screen)) \/ Fed(tab_forward(screen, 1))
        \/ Fed(linefeed(screen)) \/ Fed(carriage_return(screen))
    BY <1>11 DEF execute_c0
  <2>2. OnScreen(screen) => /\ backspace(screen) \in Live(n, m, h)
                            /\ tab_forward(screen, 1) \in Live(n, m, h)
                            /\ linefeed(screen) \in Live(n, m, h)
                            /\ carriage_return(screen) \in Live(n, m, h)
    BY <1>2, <1>3, backspaceKeeps, TabsKeep, linefeedKeeps, carriage_returnKeeps
  <2> QED BY <1>1, <2>1, <2>2
<1>12. CASE Repeat
  <2>1. PICK k \in Counts : screen.last # NoChar /\ Fed(Repeated(screen, k))
    BY <1>12 DEF Repeat
  <2>2. OnScreen(screen) => screen.last \in Chars
    <3>1. OnScreen(screen) => screen \in Screens(n, m) /\ n \in Positive /\ m \in Positive
      BY <1>2, LiveFacts
    <3>2. OnScreen(screen) => screen.last \in Chars \cup {NoChar}
      BY <3>1, ScreenFacts
    <3> QED BY <2>1, <3>2
  <2>3. OnScreen(screen) => Repeated(screen, k) \in Live(n, m, h)
    BY <1>2, <1>3, <2>2, RepeatedKeeps
  <2> QED BY <1>1, <2>1, <2>3
<1>13. CASE MoveCursor
  <2>1. PICK k \in Counts :
          \/ Fed(cursor_up(screen, k)) \/ Fed(cursor_down(screen, k))
          \/ Fed(cursor_right(screen, k)) \/ Fed(cursor_left(screen, k))
          \/ Fed(carriage_return(cursor_down(screen, k)))
          \/ Fed(carriage_return(cursor_up(screen, k)))
          \/ Fed(tab_forward(screen, k)) \/ Fed(tab_backward(screen, k))
    BY <1>13 DEF MoveCursor
  <2>2. OnScreen(screen) => /\ cursor_up(screen, k) \in Live(n, m, h)
                            /\ cursor_down(screen, k) \in Live(n, m, h)
                            /\ cursor_right(screen, k) \in Live(n, m, h)
                            /\ cursor_left(screen, k) \in Live(n, m, h)
                            /\ tab_forward(screen, k) \in Live(n, m, h)
                            /\ tab_backward(screen, k) \in Live(n, m, h)
    BY <1>2, <1>3, CursorsKeep, TabsKeep
  <2>3. OnScreen(screen) => /\ carriage_return(cursor_down(screen, k)) \in Live(n, m, h)
                            /\ carriage_return(cursor_up(screen, k)) \in Live(n, m, h)
    BY <1>2, <2>2, carriage_returnKeeps
  <2> QED BY <1>1, <2>1, <2>2, <2>3
<1>14. CASE PositionCursor
  <2>1. PICK r \in 1..rows(screen)+1, c \in 1..cols(screen)+1 : Fed(cursor_position(screen, r, c))
    BY <1>14 DEF PositionCursor
  <2>2. OnScreen(screen) => r \in Nat /\ c \in Nat
    BY <1>4
  <2> QED BY <1>1, <1>2, <2>1, <2>2, cursor_positionKeeps
<1>15. CASE CHA
  <2>1. PICK c \in 1..cols(screen)+1 : Fed(cursor_position(screen, screen.cur.row + 1, c))
    BY <1>15 DEF CHA
  <2>2. OnScreen(screen) => screen.cur.row + 1 \in Nat /\ c \in Nat
    BY <1>4
  <2> QED BY <1>1, <1>2, <2>1, <2>2, cursor_positionKeeps
<1>16. CASE VPA
  <2>1. PICK r \in 1..rows(screen)+1 : Fed(cursor_position(screen, r, screen.cur.col + 1))
    BY <1>16 DEF VPA
  <2>2. OnScreen(screen) => r \in Nat /\ screen.cur.col + 1 \in Nat
    BY <1>4
  <2> QED BY <1>1, <1>2, <2>1, <2>2, cursor_positionKeeps
<1>17. ASSUME NEW selective, EraseIn(selective)
       PROVE  Goal
  <2>1. \/ \E mode \in {"below", "above", "all"} : Fed(erase_display(screen, mode, selective))
        \/ \E mode \in {"right", "left", "all"} : Fed(erase_line(screen, mode, selective))
    BY <1>17 DEF EraseIn
  <2>2. OnScreen(screen) =>
          /\ \A mode \in {"below", "above", "all", "scrollback"} :
               erase_display(screen, mode, selective) \in Live(n, m, h)
          /\ \A mode \in {"right", "left", "all"} : erase_line(screen, mode, selective) \in Live(n, m, h)
    BY <1>2, ErasesKeep
  <2> QED BY <1>1, <2>1, <2>2
<1>18. CASE Erase
  BY <1>17, <1>18 DEF Erase
<1>19. CASE SelectiveErase
  BY <1>17, <1>19 DEF SelectiveErase
<1>20. CASE EraseScrollback
  <2>1. Fed(erase_display(screen, "scrollback", FALSE))
    BY <1>20 DEF EraseScrollback
  <2>2. OnScreen(screen) => erase_display(screen, "scrollback", FALSE) \in Live(n, m, h)
    BY <1>2, ErasesKeep
  <2> QED BY <1>1, <2>1, <2>2
<1>21. CASE ECH \/ EditChars
  <2>1. PICK k \in Counts : \/ Fed(erase_chars_screen(screen, k))
                            \/ Fed(insert_chars(screen, k)) \/ Fed(delete_chars(screen, k))
    BY <1>21 DEF ECH, EditChars
  <2>2. OnScreen(screen) => /\ erase_chars_screen(screen, k) \in Live(n, m, h)
                            /\ insert_chars(screen, k) \in Live(n, m, h)
                            /\ delete_chars(screen, k) \in Live(n, m, h)
    BY <1>2, <1>3, EditsKeep
  <2> QED BY <1>1, <2>1, <2>2
<1>22. CASE IL \/ DL \/ SU \/ SD
  <2>1. PICK k \in Counts :
          \/ Fed(insert_lines_screen(screen, k)) \/ Fed(delete_lines_screen(screen, k))
          \/ Fed(scroll_up_screen(screen, k)) \/ Fed(scroll_down_screen(screen, k))
    BY <1>22 DEF IL, DL, SU, SD
  <2>2. OnScreen(screen) => /\ insert_lines_screen(screen, k) \in Live(n, m, h)
                            /\ delete_lines_screen(screen, k) \in Live(n, m, h)
                            /\ scroll_up_screen(screen, k) \in Live(n, m, h)
                            /\ scroll_down_screen(screen, k) \in Live(n, m, h)
    BY <1>2, <1>3, LineOpsKeep, ScreenScrollsKeep
  <2> QED BY <1>1, <2>1, <2>2
<1>23. CASE Rectangles
  <2>1. PICK t \in 1..2 :
          \/ \E c \in Chars \ Zero : Fed(fill_rect(screen, c, t, 1, rows(screen), 2))
          \/ Fed(selective_erase_rect(screen, t, 1, rows(screen), 2))
          \/ Fed(copy_rect(screen, t, 1, 2, 2, t, 3 - t))
    BY <1>23 DEF Rectangles
  <2>2. t \in Int /\ 3 - t \in Int /\ 1 \in Int /\ 2 \in Int
    OBVIOUS
  <2>3. OnScreen(screen) => rows(screen) \in Int
    BY <1>4
  <2>4. OnScreen(screen) => /\ \A c \in Chars : fill_rect(screen, c, t, 1, rows(screen), 2) \in Live(n, m, h)
                            /\ selective_erase_rect(screen, t, 1, rows(screen), 2) \in Live(n, m, h)
    BY <1>2, <2>2, <2>3, RectanglesKeep
  <2>5. OnScreen(screen) => copy_rect(screen, t, 1, 2, 2, t, 3 - t) \in Live(n, m, h)
    BY <1>2, <2>2, RectanglesKeep
  <2> QED BY <1>1, <2>1, <2>4, <2>5
<1>24. CASE SetMargins
  <2>1. PICK low \in {0, 2}, high \in {0, 3} :
          \/ Fed(set_scroll_region(screen, low, high))
          \/ Fed(set_left_right_margin(screen, low, high))
    BY <1>24 DEF SetMargins
  <2>2. low \in Nat /\ high \in Nat
    OBVIOUS
  <2>3. OnScreen(screen) => /\ set_scroll_region(screen, low, high) \in Live(n, m, h)
                            /\ set_left_right_margin(screen, low, high) \in Live(n, m, h)
    BY <1>2, <2>2, MarginsKeep
  <2> QED BY <1>1, <2>1, <2>3
<1>25. CASE TabStops
  <2>1. \/ \E all \in BOOLEAN : Fed(clear_tab_stop(screen, all))
        \/ Fed(set_tab_stop(screen))
    BY <1>25 DEF TabStops
  <2>2. OnScreen(screen) => /\ \A all \in BOOLEAN : clear_tab_stop(screen, all) \in Live(n, m, h)
                            /\ set_tab_stop(screen) \in Live(n, m, h)
    BY <1>2, StopsKeep
  <2> QED BY <1>1, <2>1, <2>2
<1>26. CASE SavedCursor
  <2>1. Fed(save_cursor(screen)) \/ Fed(restore_cursor(screen))
    BY <1>26 DEF SavedCursor
  <2>2. OnScreen(screen) => screen \in Screens(n, m) /\ Rest(screen) = h
    BY <1>2, LiveFacts
  <2>3. OnScreen(screen) => save_cursor(screen) \in Live(n, m, h) /\ restore_cursor(screen) \in Live(n, m, h)
    BY <1>2, <2>2, save_cursorKeeps, restore_cursorKeeps
  <2> QED BY <1>1, <2>1, <2>3
<1>27. CASE Protect
  <2>1. PICK b \in BOOLEAN : Fed([screen EXCEPT !.prot = b])
    BY <1>27 DEF Protect
  <2> QED BY <1>1, <1>2, <2>1, OtherProt
<1>28. CASE SetMode
  <2>1. PICK x \in {"insert", "newline", "autowrap", "reverse", "allow"}, b \in BOOLEAN :
          Fed([screen EXCEPT !.modes[x] = b])
    BY <1>28 DEF SetMode
  <2>2. OnScreen(screen) => [screen EXCEPT !.modes[x] = b] \in Live(n, m, h)
    BY <1>2, ModesKeep
  <2> QED BY <1>1, <2>1, <2>2
<1>29. CASE SetOrigin
  <2>1. PICK b \in BOOLEAN : Fed(cursor_position([screen EXCEPT !.modes.origin = b], 1, 1))
    BY <1>29 DEF SetOrigin
  <2> DEFINE t == [screen EXCEPT !.modes.origin = b]
  <2>2. OnScreen(screen) => t \in Live(n, m, h)
    BY <1>2, OtherOrigin
  <2>3. Fed(cursor_position(t, 1, 1))
    BY <2>1
  <2> HIDE DEF t
  <2>4. OnScreen(screen) => cursor_position(t, 1, 1) \in Live(n, m, h)
    BY <1>2, <1>3, <2>2, cursor_positionKeeps
  <2> QED BY <1>1, <2>3, <2>4
<1>30. CASE SetMarginMode
  <2> DEFINE t == [screen EXCEPT !.modes.margins = TRUE]
             u == [screen EXCEPT !.modes.margins = FALSE, !.left = 0, !.right = cols(screen)]
  <2>1. PICK b \in BOOLEAN : Fed(IF b THEN t ELSE u)
    BY <1>30 DEF SetMarginMode
  <2>2. TRUE \in BOOLEAN
    OBVIOUS
  <2>3. OnScreen(screen) => t \in Live(n, m, h) /\ u \in Live(n, m, h)
    BY <1>2, <2>2, ModesKeep, MarginsOffKeeps
  <2> HIDE DEF t, u
  <2> QED BY <1>1, <2>1, <2>3
<1>31. CASE SaveModes
  <2>1. Fed(save_dec_modes(screen))
    BY <1>31 DEF SaveModes
  <2> QED BY <1>1, <1>2, <2>1, save_dec_modesKeeps
<1>32. CASE DECALN
  <2>1. Fed(decaln(screen))
    BY <1>32 DEF DECALN
  <2> QED BY <1>1, <1>2, <2>1, decalnKeeps
<1>33. CASE Index \/ NextLine \/ RI
  <2>1. \/ Fed(linefeed(screen)) \/ Fed(linefeed(carriage_return(screen))) \/ Fed(reverse_index(screen))
    BY <1>33 DEF Index, NextLine, RI
  <2>2. OnScreen(screen) => /\ linefeed(screen) \in Live(n, m, h) /\ reverse_index(screen) \in Live(n, m, h)
                            /\ carriage_return(screen) \in Live(n, m, h)
    BY <1>2, linefeedKeeps, reverse_indexKeeps, carriage_returnKeeps
  <2>3. OnScreen(screen) => linefeed(carriage_return(screen)) \in Live(n, m, h)
    BY <1>2, <2>2, linefeedKeeps
  <2> QED BY <1>1, <2>1, <2>2, <2>3
<1> QED
  BY <1>10, <1>11, <1>12, <1>13, <1>14, <1>15, <1>16, <1>18, <1>19, <1>20, <1>21, <1>22, <1>23,
     <1>24, <1>25, <1>26, <1>27, <1>28, <1>29, <1>30, <1>31, <1>32, <1>33

(* They keep the invariant. *)
LEMMA OutputKeeps ==
  ASSUME TerminalInv,
         \E t \in Live(cols(screen), rows(screen), Rest(screen)) : Feed(t) /\ Plain
  PROVE  TerminalInv'
BY PlainStep

(* XTRESTORE may flip the flag of the alternate screen; mixed records it. *)
LEMMA RestoreModesKeeps ==
  ASSUME TerminalInv, RestoreModes
  PROVE  TerminalInv'
<1> DEFINE n == cols(screen)
           m == rows(screen)
           t == restore_dec_modes(screen)
<1>1. /\ Feed(t) /\ mixed' = (mixed \/ t.modes.alt # screen.modes.alt)
      /\ primary' = primary /\ resized' = resized
  BY DEF RestoreModes
<1>2. OnScreen(screen)
  BY <1>1 DEF Feed
<1>3. n \in Positive /\ m \in Positive /\ screen \in Live(n, m, Rest(screen))
  BY <1>2, ScreenIsLive
<1>4. t \in Live(n, m, <<screen.hidden, screen.hidden_cur, t.modes.alt>>)
  <2> HIDE DEF n, m
  <2> QED BY <1>3, restore_dec_modesKeeps
<1> HIDE DEF t
<1>5. /\ t \in Screens(n, m) /\ t.cur \in Cursors(n, m)
      /\ t.hidden = screen.hidden /\ t.hidden_cur = screen.hidden_cur
  BY <1>4 DEF Live, Rest
<1>6. /\ Proper(screen') /\ cols(screen') = cols(screen) /\ rows(screen') = rows(screen)
      /\ screen'.hidden = t.hidden /\ screen'.hidden_cur = t.hidden_cur
      /\ screen'.modes.alt = t.modes.alt /\ OnScreen(screen')
  BY <1>1, <1>5, FeedIs
<1>7. OnScreen(screen)'
  BY <1>6
<1>8. mixed' \in BOOLEAN /\ (~mixed' => ~mixed /\ t.modes.alt = screen.modes.alt)
  BY <1>1 DEF TerminalInv
<1> QED BY <1>1, <1>5, <1>6, <1>7, <1>8 DEF TerminalInv

(* Entering remembers the grid it hides. *)
LEMMA EnterAltKeeps ==
  ASSUME TerminalInv, EnterAlt
  PROVE  TerminalInv' /\ (primary # <<>> => primary' # <<>>)
<1> DEFINE n == cols(screen)
           m == rows(screen)
<1>1. PICK save \in BOOLEAN :
        /\ Feed(enter_alt_screen(screen, save))
        /\ primary' = IF screen.modes.alt THEN primary ELSE <<screen.grid>>
        /\ resized' = IF screen.modes.alt THEN resized ELSE "no"
        /\ mixed' = mixed
  BY DEF EnterAlt
<1> DEFINE t == enter_alt_screen(screen, save)
<1>2. OnScreen(screen)
  BY <1>1 DEF Feed
<1>3. n \in Positive /\ m \in Positive /\ screen \in Live(n, m, Rest(screen))
  BY <1>2, ScreenIsLive
<1>4. CASE screen.modes.alt
  <2>1. t = screen
    BY <1>4 DEF enter_alt_screen
  <2>2. Feed(screen) /\ Plain
    BY <1>1, <1>4, <2>1 DEF Plain
  <2>3. TerminalInv'
    BY <1>3, <2>2, PlainStep
  <2> QED BY <1>1, <1>4, <2>3
<1>5. CASE ~screen.modes.alt
  <2>1. t \in Live(n, m, <<screen.grid, screen.cur, TRUE>>)
    <3> HIDE DEF n, m
    <3> QED BY <1>3, <1>5, enter_alt_screenKeeps
  <2>2. Feed(t)
    BY <1>1
  <2> HIDE DEF t
  <2>3. /\ t \in Screens(n, m) /\ t.cur \in Cursors(n, m)
        /\ t.hidden = screen.grid /\ t.hidden_cur = screen.cur /\ t.modes.alt = TRUE
    BY <2>1 DEF Live, Rest
  <2>4. /\ Proper(screen') /\ cols(screen') = cols(screen) /\ rows(screen') = rows(screen)
        /\ screen'.hidden = t.hidden /\ screen'.hidden_cur = t.hidden_cur
        /\ screen'.modes.alt = t.modes.alt /\ OnScreen(screen')
    BY <2>2, <2>3, FeedIs
  <2>5. OnScreen(screen)' /\ screen.cur \in Cursors(n, m)
    BY <1>3, <2>4 DEF Live
  <2>6. primary' = <<screen.grid>> /\ resized' = "no" /\ mixed' = mixed
    BY <1>1, <1>5
  <2>7. primary' # <<>> /\ Head(primary') = screen.grid
    BY <2>6
  <2> QED BY <2>3, <2>4, <2>5, <2>6, <2>7 DEF TerminalInv
<1> QED BY <1>4, <1>5

(* Leaving shows the grid that was hidden and forgets it. *)
LEMMA LeaveAltKeeps ==
  ASSUME TerminalInv, LeaveAlt
  PROVE  TerminalInv' /\ (primary # <<>> /\ primary' = <<>> => screen'.grid = screen.hidden)
<1> DEFINE n == cols(screen)
           m == rows(screen)
<1>1. PICK restore \in BOOLEAN :
        /\ Feed(leave_alt_screen(screen, restore))
        /\ primary' = IF screen.modes.alt THEN <<>> ELSE primary
        /\ resized' = IF ~screen.modes.alt THEN resized
                      ELSE IF resized = "hidden" /\ ~OnScreen(screen') THEN "shown" ELSE "no"
        /\ mixed' = mixed
  BY DEF LeaveAlt
<1> DEFINE t == leave_alt_screen(screen, restore)
<1>2. OnScreen(screen)
  BY <1>1 DEF Feed
<1>3. n \in Positive /\ m \in Positive /\ screen \in Live(n, m, Rest(screen))
  BY <1>2, ScreenIsLive
<1>4. CASE ~screen.modes.alt
  <2>1. t = screen
    BY <1>4 DEF leave_alt_screen
  <2>2. Feed(screen) /\ Plain
    BY <1>1, <1>4, <2>1 DEF Plain
  <2>3. TerminalInv'
    BY <1>3, <2>2, PlainStep
  <2> QED BY <1>1, <1>4, <2>3
<1>5. CASE screen.modes.alt
  <2>1. /\ t \in Screens(n, m) /\ Rest(t) = <<screen.grid, screen.cur, FALSE>>
        /\ t.grid = screen.hidden
        /\ screen.hidden_cur \in Cursors(n, m) => t.cur \in Cursors(n, m)
    <3> DEFINE h == Rest(screen)
    <3>1. screen \in Live(n, m, h) /\ n \in Positive /\ m \in Positive
      BY <1>3
    <3> HIDE DEF n, m, h, t
    <3>2. \A r \in BOOLEAN : leave_alt_screen(screen, r) \in Screens(n, m)
      BY <1>5, <3>1, leave_alt_screenKeeps
    <3>3. \A r \in BOOLEAN : Rest(leave_alt_screen(screen, r)) = <<screen.grid, screen.cur, FALSE>>
      BY <1>5, <3>1, leave_alt_screenKeeps
    <3>4. \A r \in BOOLEAN : leave_alt_screen(screen, r).grid = screen.hidden
      BY <1>5, <3>1, leave_alt_screenKeeps
    <3>5. \A r \in BOOLEAN : screen.hidden_cur \in Cursors(n, m)
                             => leave_alt_screen(screen, r).cur \in Cursors(n, m)
      BY <1>5, <3>1, leave_alt_screenKeeps
    <3> QED BY <3>2, <3>3, <3>4, <3>5 DEF t
  <2>2. Feed(t)
    BY <1>1
  <2> HIDE DEF t
  <2>3. t.hidden_cur = screen.cur
    BY <2>1 DEF Rest
  <2>4. /\ Proper(screen') /\ cols(screen') = cols(screen) /\ rows(screen') = rows(screen)
        /\ screen'.grid = t.grid /\ screen'.hidden_cur = t.hidden_cur
        /\ OnScreen(screen') <=> t.cur \in Cursors(n, m)
    BY <2>1, <2>2, FeedIs
  <2>5. screen.cur \in Cursors(n, m)
    BY <1>3 DEF Live
  <2>6. primary' = <<>> /\ mixed' = mixed
        /\ resized' = IF resized = "hidden" /\ ~OnScreen(screen') THEN "shown" ELSE "no"
    BY <1>1, <1>5
  <2>7. OnScreen(screen') \/ resized' = "shown"
    BY <2>1, <2>4, <2>6 DEF TerminalInv
  <2>8. OnScreen(screen)' \/ resized' = "shown"
    BY <2>7
  <2>9. screen'.hidden_cur \in Cursors(cols(screen'), rows(screen'))
    BY <2>3, <2>4, <2>5
  <2>10. resized' \in {"no", "hidden", "shown"}
    BY <2>6
  <2>11. TerminalInv'
    BY <2>4, <2>6, <2>8, <2>9, <2>10 DEF TerminalInv
  <2> QED BY <2>1, <2>4, <2>11
<1> QED BY <1>4, <1>5

(* DECSTR clears the flag of the alternate screen; mixed records it. *)
LEMMA DECSTRKeeps ==
  ASSUME TerminalInv, DECSTR
  PROVE  TerminalInv'
<1> DEFINE n == cols(screen)
           m == rows(screen)
           t == soft_reset(screen)
<1>1. Feed(t) /\ mixed' = (mixed \/ screen.modes.alt) /\ primary' = primary /\ resized' = resized
  BY DEF DECSTR
<1>2. OnScreen(screen)
  BY <1>1 DEF Feed
<1>3. n \in Positive /\ m \in Positive /\ screen \in Live(n, m, Rest(screen))
  BY <1>2, ScreenIsLive
<1>4. t \in Live(n, m, <<screen.hidden, screen.hidden_cur, FALSE>>)
  <2> HIDE DEF n, m
  <2> QED BY <1>3, soft_resetKeeps
<1> HIDE DEF t
<1>5. /\ t \in Screens(n, m) /\ t.cur \in Cursors(n, m)
      /\ t.hidden = screen.hidden /\ t.hidden_cur = screen.hidden_cur
  BY <1>4 DEF Live, Rest
<1>6. /\ Proper(screen') /\ cols(screen') = cols(screen) /\ rows(screen') = rows(screen)
      /\ screen'.hidden = t.hidden /\ screen'.hidden_cur = t.hidden_cur /\ OnScreen(screen')
  BY <1>1, <1>5, FeedIs
<1>7. OnScreen(screen)'
  BY <1>6
<1>8. screen.modes.alt \in BOOLEAN
  <2> HIDE DEF n, m
  <2>1. screen.modes \in ModeSets
    BY <1>3, LiveFacts, ScreenFacts
  <2> QED BY <2>1 DEF ModeSets
<1>9. mixed' \in BOOLEAN /\ (~mixed' => ~mixed /\ ~screen.modes.alt)
  BY <1>1, <1>8 DEF TerminalInv
<1> QED BY <1>1, <1>5, <1>6, <1>7, <1>9 DEF TerminalInv

(* RIS starts anew. *)
LEMMA RISKeeps ==
  ASSUME TerminalInv, RIS
  PROVE  TerminalInv'
<1> DEFINE n == cols(screen)
           m == rows(screen)
           t == new(n, m)
<1>1. Feed(t) /\ mixed' = FALSE /\ primary' = <<>> /\ resized' = "no"
  BY DEF RIS, reset
<1>2. n \in Positive /\ m \in Positive
  BY DEF TerminalInv, Proper
<1>3. t \in Live(n, m, <<NewGrid(n, m), Home, FALSE>>) /\ Home \in Cursors(n, m)
  <2> HIDE DEF n, m
  <2> QED BY <1>2, newIs, HomeIs
<1> HIDE DEF t
<1>4. t \in Screens(n, m) /\ t.cur \in Cursors(n, m) /\ t.hidden_cur = Home
  BY <1>3 DEF Live, Rest
<1>5. /\ Proper(screen') /\ cols(screen') = cols(screen) /\ rows(screen') = rows(screen)
      /\ screen'.hidden_cur = t.hidden_cur /\ OnScreen(screen')
  BY <1>1, <1>4, FeedIs
<1>6. OnScreen(screen)'
  BY <1>5
<1> QED BY <1>1, <1>3, <1>4, <1>5, <1>6 DEF TerminalInv

(* Scrolling the view changes the view alone, on the grid or off it. *)
LEMMA ScrollViewKeeps ==
  ASSUME TerminalInv, ScrollView
  PROVE  TerminalInv'
<1> DEFINE n == cols(screen)
           m == rows(screen)
<1>1. n \in Positive /\ m \in Positive /\ screen \in Screens(n, m)
  BY DEF TerminalInv, Proper
<1>2. PICK k \in Counts : screen' = scroll_viewport_up(screen, k) \/ screen' = scroll_viewport_down(screen, k)
  BY DEF ScrollView
<1>3. k \in Nat
  BY TerminalAssumption DEF Positive
<1>4. primary' = primary /\ mixed' = mixed /\ resized' = resized
  BY DEF ScrollView, Plain
<1>5. PICK v \in Nat : screen' = [screen EXCEPT !.vp = v]
  <2> HIDE DEF n, m
  <2>1. screen.vp \in Nat /\ screen.grid.sb \in Seq(RowsOf(n))
    BY <1>1, ScreenFacts, GridFacts
  <2>2. Len(screen.grid.sb) \in Nat
    BY <2>1, LenProperties
  <2>3. Lesser(screen.vp + k, Len(screen.grid.sb)) \in Nat /\ Greater(screen.vp - k, 0) \in Nat
    BY <1>3, <2>1, <2>2 DEF Lesser, Greater
  <2> QED BY <1>2, <2>3 DEF scroll_viewport_up, scroll_viewport_down
<1> HIDE DEF n, m
<1>6. screen' \in Screens(n, m)
  BY <1>1, <1>5 DEF Screens
<1>7. /\ screen'.cur = screen.cur /\ screen'.hidden = screen.hidden
      /\ screen'.hidden_cur = screen.hidden_cur /\ screen'.modes = screen.modes
  BY <1>1, <1>5 DEF Screens
<1>8. /\ Proper(screen') /\ cols(screen') = n /\ rows(screen') = m
      /\ OnScreen(screen') <=> screen'.cur \in Cursors(n, m)
  BY <1>1, <1>6, ProperIs
<1>9. OnScreen(screen) <=> screen.cur \in Cursors(n, m)
  BY <1>1, ProperIs
<1>10. OnScreen(screen)' <=> OnScreen(screen)
  BY <1>7, <1>8, <1>9
<1> QED BY <1>4, <1>7, <1>8, <1>10 DEF TerminalInv, n, m

(* Resizing changes the size of both grids at once. *)
LEMMA ResizeKeeps ==
  ASSUME TerminalInv, Resize
  PROVE  TerminalInv'
<1> DEFINE k == cols(screen)
           j == rows(screen)
<1>1. OnScreen(screen) /\ resized' = "hidden" /\ primary' = primary /\ mixed' = mixed
  BY DEF Resize
<1>2. PICK z \in Sizes : screen' = resize(screen, z[1], z[2])
  BY DEF Resize
<1> DEFINE n == z[1]
           m == z[2]
<1>3. n \in Positive /\ m \in Positive
  BY TerminalAssumption
<1>4. k \in Positive /\ j \in Positive /\ screen \in Live(k, j, Rest(screen))
  BY <1>1, ScreenIsLive
<1>5. screen' \in Screens(n, m) /\ screen'.cur \in Cursors(n, m)
  <2> HIDE DEF k, j, n, m
  <2>1. screen' = resize(screen, n, m)
    BY <1>2 DEF n, m
  <2> QED BY <1>3, <1>4, <2>1, resizeKeeps
<1>6. Proper(screen') /\ OnScreen(screen')
  <2> HIDE DEF n, m
  <2> QED BY <1>3, <1>5, ProperIs
<1>7. OnScreen(screen)'
  BY <1>6
<1> QED BY <1>1, <1>6, <1>7 DEF TerminalInv

(* The screen that DECCOLM leaves. *)
LEMMA WithColumnsKeeps ==
  ASSUME NEW k \in Positive, NEW n \in Positive, NEW m \in Positive, NEW h, NEW s \in Live(k, m, h)
  PROVE  WithColumns(s, n) \in Screens(n, m) /\ WithColumns(s, n).cur \in Cursors(n, m)
<1> DEFINE r == resize(s, n, m)
           e == erase_display(r, "all", FALSE)
           u == At(e, 0, 0)
<1>1. rows(s) = m
  <2>1. s \in Screens(k, m)
    BY LiveFacts
  <2> QED BY <2>1, ScreenFacts
<1>2. WithColumns(s, n) = [u EXCEPT !.top = 0, !.bottom = m]
  BY <1>1 DEF WithColumns
<1>3. r \in Live(n, m, Rest(r))
  BY resizeKeeps DEF Live
<1> HIDE DEF r
<1>4. e \in Live(n, m, Rest(r))
  BY <1>3, ErasesKeep
<1> HIDE DEF e
<1>5. 0 \in 0..m-1 /\ 0 \in 0..n-1 /\ 0 \in 0..m /\ m \in 0..m /\ 0 < m
  BY DEF Positive
<1>6. u \in Live(n, m, Rest(r))
  BY <1>4, <1>5, AtKeeps
<1>7. WithColumns(s, n) \in Live(n, m, Rest(r))
  <2> DEFINE v == [u EXCEPT !.top = 0, !.bottom = m]
  <2> HIDE DEF u
  <2>1. v \in Live(n, m, Rest(r))
    BY <1>5, <1>6, OtherRegion
  <2> HIDE DEF v
  <2>2. WithColumns(s, n) = v
    BY <1>2 DEF v
  <2> QED BY <2>1, <2>2
<1> QED BY <1>7, LiveFacts

(* DECCOLM is a resize by the program, unless it is not allowed. *)
LEMMA DECCOLMKeeps ==
  ASSUME TerminalInv, DECCOLM
  PROVE  TerminalInv' /\ rows(screen') = rows(screen) /\ primary' = primary
<1> DEFINE k == cols(screen)
           m == rows(screen)
<1>1. PICK b \in BOOLEAN :
        IF screen.modes.allow
        THEN Feed(WithColumns(screen, ColumnsOf[b])) /\ resized' = "hidden" /\ UNCHANGED <<primary, mixed>>
        ELSE Feed(screen) /\ Plain
  BY DEF DECCOLM
<1>2. OnScreen(screen)
  BY <1>1 DEF Feed
<1>3. k \in Positive /\ m \in Positive /\ screen \in Live(k, m, Rest(screen))
  BY <1>2, ScreenIsLive
<1>4. CASE ~screen.modes.allow
  <2>1. TerminalInv'
    BY <1>1, <1>3, <1>4, PlainStep
  <2>2. screen \in Screens(k, m)
    BY <1>3, LiveFacts
  <2>3. rows(screen') = m
    BY <1>1, <1>4, <2>2, FeedIs
  <2> QED BY <1>1, <1>4, <2>1, <2>3 DEF Plain
<1>5. CASE screen.modes.allow
  <2> DEFINE n == ColumnsOf[b]
             t == WithColumns(screen, n)
             u == [scroll_viewport_reset(t) EXCEPT !.damage = {}]
  <2>1. n \in Positive
    BY TerminalAssumption
  <2>2. screen' = u /\ resized' = "hidden" /\ primary' = primary /\ mixed' = mixed
    BY <1>1, <1>5 DEF Feed
  <2> HIDE DEF k, m, n
  <2>3. t \in Screens(n, m) /\ t.cur \in Cursors(n, m)
    BY <1>3, <2>1, WithColumnsKeeps
  <2> HIDE DEF t
  <2>4. u \in Screens(n, m) /\ u.cur = t.cur
    BY <1>3, <2>1, <2>3, TakenIs
  <2> HIDE DEF u
  <2>5. Proper(u) /\ OnScreen(u) /\ rows(u) = m
    BY <1>3, <2>1, <2>3, <2>4, ProperIs
  <2>6. OnScreen(screen)' /\ Proper(screen)' /\ rows(screen') = m
    BY <2>2, <2>5
  <2> QED BY <2>2, <2>6 DEF TerminalInv, m
<1> QED BY <1>4, <1>5

(* Every step keeps the invariant. *)
LEMMA NextKeeps ==
  ASSUME TerminalInv, [Next]_vars
  PROVE  TerminalInv'
<1>1. CASE Next
  BY <1>1, OutputIsLive, OutputKeeps, RestoreModesKeeps, EnterAltKeeps, LeaveAltKeeps, DECSTRKeeps, RISKeeps,
     DECCOLMKeeps, ScrollViewKeeps, ResizeKeeps DEF Next
<1>2. CASE UNCHANGED vars
  BY <1>2 DEF vars, TerminalInv, Proper, OnScreen, cols, rows
<1> QED BY <1>1, <1>2

(* The bounds every access relies on follow from it. *)
LEMMA InvFits == TerminalInv => ScreenFits
<1> SUFFICES ASSUME TerminalInv
             PROVE  ScreenFits
  OBVIOUS
<1> DEFINE n == cols(screen)
           m == rows(screen)
<1>1. n \in Positive /\ m \in Positive /\ screen \in Screens(n, m) /\ (OnScreen(screen) \/ resized = "shown")
  BY DEF TerminalInv, Proper
<1>2. screen.grid \in Grids(n, m) /\ screen.hidden \in Grids(n, m)
  <2> HIDE DEF n, m
  <2> QED BY <1>1, ScreenFacts
<1>3. ASSUME NEW g \in Grids(n, m)
      PROVE  /\ Rows(g) = m /\ g.cols = n /\ Len(g.sb) <= ScrollbackLimit
             /\ \A i \in DOMAIN g.lines : Len(g.lines[i].cells) = g.cols
             /\ \A i \in DOMAIN g.sb : g.sb[i].cells # <<>>
  <2> HIDE DEF n, m
  <2>1. /\ g.cols = n /\ Rows(g) = m /\ g.lines \in [1..m -> RowsOf(n)] /\ g.sb \in Seq(RowsOf(n))
        /\ n >= 1 /\ n \in Nat
    BY <1>1, GridFacts
  <2>2. Len(g.sb) <= ScrollbackLimit
    BY DEF Grids
  <2>3. \A i \in DOMAIN g.lines : Len(g.lines[i].cells) = g.cols
    BY <1>1, <2>1, RowFacts
  <2>4. \A i \in DOMAIN g.sb : g.sb[i].cells # <<>>
    <3> TAKE i \in DOMAIN g.sb
    <3>1. g.sb[i] \in RowsOf(n)
      BY <2>1, ElementOfSeq
    <3>2. Len(g.sb[i].cells) = n
      BY <1>1, <3>1, RowFacts
    <3>3. Len(<<>>) = 0
      OBVIOUS
    <3> QED BY <2>1, <3>2, <3>3
  <2> QED BY <2>1, <2>2, <2>3, <2>4
<1>4. RowsFit
  BY <1>2, <1>3 DEF RowsFit
<1>5. CursorOnScreen
  <2>1. /\ cols(screen) = n /\ rows(screen) = m
        /\ screen.top < screen.bottom /\ screen.bottom \in 0..m
        /\ screen.left < screen.right /\ screen.right \in 0..n
        /\ screen.saved \in Seq(SavedCursors(n, m)) /\ screen.stops \in SUBSET (0..n-1)
        /\ n \in Nat /\ m \in Nat
    <3> HIDE DEF n, m
    <3> QED BY <1>1, ScreenFacts
  <2>2. \A i \in DOMAIN screen.saved : screen.saved[i].row < m /\ screen.saved[i].col < n
    <3> HIDE DEF n, m
    <3> TAKE i \in DOMAIN screen.saved
    <3>1. screen.saved[i] \in SavedCursors(n, m)
      BY <2>1, ElementOfSeq
    <3>2. screen.saved[i].row \in 0..m-1 /\ screen.saved[i].col \in 0..n-1
      BY <3>1 DEF SavedCursors
    <3> QED BY <2>1, <3>2
  <2>3. screen.bottom <= m /\ screen.right <= n
    <3> HIDE DEF n, m
    <3> QED BY <2>1
  <2> QED BY <1>1, <2>1, <2>2, <2>3 DEF CursorOnScreen
<1> QED BY <1>4, <1>5 DEF ScreenFits

(* Whatever is printed, erased, scrolled, resized or swapped, both grids are *)
(* rectangles of the screen's size, the history keeps its limit and cursor,  *)
(* saved cursor, region, margins and stops lie on the grid.                  *)
THEOREM TerminalScreenFits == Spec => []ScreenFits
<1>1. TerminalInv /\ [Next]_vars => TerminalInv'
  BY NextKeeps
<1> QED BY <1>1, InitHolds, InvFits, PTL DEF Spec

(* Functions that neither exchange the screens nor reset them do not touch   *)
(* the memory of the grid that is hidden.                                    *)
LEMMA OthersRemember ==
  ASSUME TerminalInv, Next, ~EnterAlt, ~LeaveAlt, ~RIS
  PROVE  primary' = primary
<1>1. ASSUME PrintChar \/ execute_c0 \/ Repeat \/ MoveCursor \/ PositionCursor \/ CHA \/ VPA
      PROVE  primary' = primary
  BY <1>1 DEF PrintChar, execute_c0, Repeat, MoveCursor, PositionCursor, CHA, VPA, Plain
<1>2. ASSUME Erase \/ SelectiveErase \/ EraseScrollback \/ ECH \/ IL \/ DL \/ SU \/ SD \/ EditChars \/ Rectangles
      PROVE  primary' = primary
  BY <1>2 DEF Erase, SelectiveErase, EraseIn, EraseScrollback, ECH, IL, DL, SU, SD, EditChars, Rectangles, Plain
<1>3. ASSUME SetMargins \/ TabStops \/ SavedCursor \/ Protect \/ SetMode \/ SetOrigin \/ SetMarginMode
             \/ SaveModes \/ RestoreModes \/ DECSTR \/ DECALN \/ Index \/ NextLine \/ RI
      PROVE  primary' = primary
  BY <1>3 DEF SetMargins, TabStops, SavedCursor, Protect, SetMode, SetOrigin, SetMarginMode, SaveModes,
              RestoreModes, DECSTR, DECALN, Index, NextLine, RI, Plain
<1>4. ASSUME ScrollView \/ Resize \/ DECCOLM
      PROVE  primary' = primary
  BY <1>4, DECCOLMKeeps DEF ScrollView, Resize, Plain
<1> QED BY <1>1, <1>2, <1>3, <1>4 DEF Next

(* The grid that entering the alternate screen hid is the one that leaving   *)
(* it shows: between them nothing but a resize, a reset or XTRESTORE could   *)
(* change it or forget which is which.                                       *)
THEOREM TerminalPrimaryComesBack == Spec => PrimaryComesBack
<1>1. TerminalInv /\ [Next]_vars
        => [primary # <<>> /\ primary' = <<>> /\ ~mixed /\ resized = "no" /\ ~RIS
              => screen'.grid = Head(primary)]_vars
  <2> SUFFICES ASSUME TerminalInv, Next, primary # <<>>, primary' = <<>>, ~mixed, resized = "no", ~RIS
               PROVE  screen'.grid = Head(primary)
    OBVIOUS
  <2>1. LeaveAlt
    BY OthersRemember, EnterAltKeeps
  <2>2. screen'.grid = screen.hidden
    BY <2>1, LeaveAltKeeps
  <2> QED BY <2>2 DEF TerminalInv
<1>2. TerminalInv /\ [Next]_vars => TerminalInv'
  BY NextKeeps
<1> QED BY <1>1, <1>2, InitHolds, PTL DEF Spec, PrimaryComesBack

(* A piece of a sequence: the k members after the first ones, and two        *)
(* sequences of x and y members, one after the other.                        *)
Piece(p, q, from, k) == Len(p) = k /\ \A i \in 1..k : p[i] = q[from + i]

Follows(all, a, x, b, y) ==
  /\ Len(all) = x + y
  /\ \A i \in 1..x : all[i] = a[i]
  /\ \A i \in 1..y : all[x + i] = b[i]

(* What they hold. *)
LEMMA PieceIs ==
  ASSUME NEW S, NEW q \in Seq(S), NEW from \in Nat, NEW to \in Nat, from <= to, to <= Len(q)
  PROVE  SubSeq(q, from + 1, to) \in Seq(S) /\ Piece(SubSeq(q, from + 1, to), q, from, to - from)
<1>1. Len(q) \in Nat /\ \A i \in 1..Len(q) : q[i] \in S
  BY LenProperties
<1> DEFINE low == from + 1
<1>2. low \in Int /\ to \in Int /\ \A i \in low..to : q[i] \in S
  BY <1>1
<1>3. low - 1 = from /\ to - low + 1 = to - from /\ (low > to => to = from)
  OBVIOUS
<1>4. \A i \in 1..(to - from) : low + i - 1 = from + i
  OBVIOUS
<1> HIDE DEF low
<1>5. /\ SubSeq(q, low, to) \in Seq(S)
      /\ Len(SubSeq(q, low, to)) = IF low <= to THEN to - low + 1 ELSE 0
      /\ \A i \in 1..(to - low + 1) : SubSeq(q, low, to)[i] = q[low + i - 1]
  BY <1>2, SubSeqProperties
<1>6. Len(SubSeq(q, low, to)) = to - from
  BY <1>2, <1>3, <1>5
<1>7. \A i \in 1..(to - from) : SubSeq(q, low, to)[i] = q[from + i]
  BY <1>3, <1>4, <1>5
<1> QED BY <1>5, <1>6, <1>7 DEF low, Piece

(* The same of two sequences. *)
LEMMA FollowsIs ==
  ASSUME NEW S, NEW a \in Seq(S), NEW b \in Seq(S), NEW x \in Nat, NEW y \in Nat, Len(a) = x, Len(b) = y
  PROVE  a \o b \in Seq(S) /\ Follows(a \o b, a, x, b, y)
<1>1. /\ a \o b \in Seq(S) /\ Len(a \o b) = x + y
      /\ \A i \in 1..(x + y) : (a \o b)[i] = IF i <= x THEN a[i] ELSE b[i - x]
  BY ConcatProperties
<1>2. \A i \in 1..x : i \in 1..(x + y) /\ i <= x
  OBVIOUS
<1>3. \A i \in 1..y : x + i \in 1..(x + y) /\ ~(x + i <= x) /\ (x + i) - x = i
  OBVIOUS
<1> QED BY <1>1, <1>2, <1>3 DEF Follows

(* A history is cut down to its newest rows. *)
LEMMA TrimIs ==
  ASSUME NEW S, NEW q \in Seq(S)
  PROVE  LET k == Lesser(Len(q), ScrollbackLimit)
         IN  /\ Trim(q) \in Seq(S) /\ Piece(Trim(q), q, Len(q) - k, k)
             /\ Len(q) <= ScrollbackLimit => Trim(q) = q
<1> DEFINE k == Lesser(Len(q), ScrollbackLimit)
           from == Len(q) - k
           to == Len(q)
<1>1. k \in Nat /\ k <= Len(q) /\ to \in Nat /\ from \in Nat /\ to - from = k
  BY LimitAssumption, LenProperties DEF Lesser
<1>2. Trim(q) = SubSeq(q, from + 1, to)
  BY DEF Trim
<1>3. Len(q) <= ScrollbackLimit => from = 0
  BY <1>1, LimitAssumption DEF Lesser
<1> HIDE DEF k
<1>4. from <= to /\ to <= Len(q)
  BY <1>1
<1> HIDE DEF from
<1>5. Trim(q) \in Seq(S) /\ Piece(Trim(q), q, from, to - from)
  <2> HIDE DEF to
  <2> QED BY <1>1, <1>2, <1>4, PieceIs
<1>6. Len(q) <= ScrollbackLimit => Trim(q) = q
  <2> HAVE Len(q) <= ScrollbackLimit
  <2>1. Len(Trim(q)) = Len(q) /\ \A i \in 1..Len(q) : Trim(q)[i] = q[i]
    BY <1>1, <1>3, <1>5 DEF Piece
  <2> QED BY <1>5, <2>1, SeqEqual
<1> QED BY <1>1, <1>5, <1>6 DEF k, from

(* Cells that have the right width already stay as they are. *)
LEMMA SameWidth ==
  ASSUME NEW n \in Positive, NEW row \in RowsOf(n)
  PROVE  [row EXCEPT !.cells = ResizeCells(@, n)] = row
<1>1. row.cells \in [1..n -> Cells] /\ Len(row.cells) = n
  BY RowFacts
<1>2. ResizeCells(row.cells, n) = row.cells
  BY <1>1 DEF ResizeCells
<1> QED BY <1>2 DEF RowsOf

(* Three sequences of x, y and z members, one after the other. *)
Joins(all, a, x, b, y, c, z) ==
  /\ Len(all) = x + y + z
  /\ \A i \in 1..x : all[i] = a[i]
  /\ \A i \in 1..y : all[x + i] = b[i]
  /\ \A i \in 1..z : all[x + y + i] = c[i]

(* Where the members of three sequences joined come to stand. *)
LEMMA JoinedIs ==
  ASSUME NEW S, NEW a \in Seq(S), NEW b \in Seq(S), NEW c \in Seq(S),
         NEW x \in Nat, NEW y \in Nat, NEW z \in Nat, Len(a) = x, Len(b) = y, Len(c) = z
  PROVE  (a \o b) \o c \in Seq(S) /\ Joins((a \o b) \o c, a, x, b, y, c, z)
<1> DEFINE u == a \o b
           v == u \o c
<1>1. u \in Seq(S) /\ Follows(u, a, x, b, y)
  BY FollowsIs
<1>2. Len(u) = x + y /\ x + y \in Nat
  BY <1>1 DEF Follows
<1> HIDE DEF u
<1>3. v \in Seq(S) /\ Follows(v, u, x + y, c, z)
  BY <1>1, <1>2, FollowsIs
<1> HIDE DEF v
<1>4. \A i \in 1..x : i \in 1..(x + y)
  OBVIOUS
<1>5. \A i \in 1..y : x + i \in 1..(x + y)
  OBVIOUS
<1>6. Joins(v, a, x, b, y, c, z)
  BY <1>1, <1>3, <1>4, <1>5 DEF Follows, Joins
<1> QED BY <1>3, <1>6 DEF u, v

(* f is g grown from j to m rows of n cells: k rows of the history on top,   *)
(* the newest first, and blank ones below.                                   *)
Grown(g, f, k, n, j, m) ==
  /\ k \in 0..(m - j) /\ k <= Len(g.sb)
  /\ Len(f.lines) = m /\ DOMAIN f.lines = 1..m
  /\ \A i \in 1..j : f.lines[k + i] = g.lines[i]
  /\ \A i \in 1..k : f.lines[i] = g.sb[Len(g.sb) + 1 - i]
  /\ \A i \in (k + j + 1)..m : f.lines[i] = NewRow(n)
  /\ f.sb \in Seq(RowsOf(n)) /\ Len(f.sb) = Len(g.sb) - k
  /\ \A i \in 1..(Len(g.sb) - k) : f.sb[i] = g.sb[i]

(* Growing does so with as many rows as the history has and the grid needs.  *)
LEMMA GrowthIs ==
  ASSUME NEW n \in Positive, NEW m \in Positive, NEW j \in Positive, NEW g \in Grids(n, j), j < m
  PROVE  Grown(g, TakeBack(g, Back(g, m), m), Back(g, m), n, j, m)
<1> DEFINE k == Back(g, m)
           f == TakeBack(g, k, m)
           z == m - j - k
           back == Newest(g, k)
           blank == BlankRows(g, z)
           sb == SubSeq(g.sb, 1, Len(g.sb) - k)
<1>1. /\ g.cols = n /\ Rows(g) = j /\ g.lines \in Seq(RowsOf(n)) /\ Len(g.lines) = j
      /\ DOMAIN g.lines = 1..j /\ \A i \in 1..j : g.lines[i] \in RowsOf(n)
      /\ g.sb \in Seq(RowsOf(n)) /\ Len(g.sb) \in Nat /\ j \in Nat /\ m \in Nat
      /\ \A i \in 1..Len(g.sb) : g.sb[i] \in RowsOf(n)
  <2>1. m \in Nat
    BY DEF Positive
  <2>2. /\ g.cols = n /\ Rows(g) = j /\ g.lines \in Seq(RowsOf(n)) /\ Len(g.lines) = j
        /\ DOMAIN g.lines = 1..j /\ g.sb \in Seq(RowsOf(n)) /\ j \in Nat
    BY GridFacts
  <2> QED BY <2>1, <2>2, LenProperties
<1>2. k \in Nat /\ k <= m - j /\ k <= Len(g.sb) /\ z \in Nat
  BY <1>1 DEF Back, Lesser
<1>3. f = [g EXCEPT !.lines = (back \o g.lines) \o blank, !.sb = sb]
  BY <1>1 DEF TakeBack, Grids
<1>4. f.lines = (back \o g.lines) \o blank /\ f.sb = sb
  BY <1>3 DEF Grids
<1> HIDE DEF k, f
<1>5. back \in Seq(RowsOf(n)) /\ Len(back) = k /\ \A i \in 1..k : back[i] = g.sb[Len(g.sb) + 1 - i]
  <2>1. ASSUME NEW i \in 1..k
        PROVE  /\ [g.sb[Len(g.sb) + 1 - i] EXCEPT !.cells = ResizeCells(@, g.cols)] = g.sb[Len(g.sb) + 1 - i]
               /\ g.sb[Len(g.sb) + 1 - i] \in RowsOf(n)
    <3>1. Len(g.sb) + 1 - i \in 1..Len(g.sb)
      BY <1>1, <1>2
    <3> QED BY <1>1, <3>1, SameWidth
  <2>2. back = [i \in 1..k |-> g.sb[Len(g.sb) + 1 - i]]
    BY <2>1 DEF Newest
  <2> HIDE DEF back
  <2>3. back \in [1..k -> RowsOf(n)]
    BY <2>1, <2>2
  <2> QED BY <1>2, <2>2, <2>3, TupleIsSeq
<1>6. blank \in Seq(RowsOf(n)) /\ Len(blank) = z /\ \A i \in 1..z : blank[i] = NewRow(n)
  <2> HIDE DEF z
  <2>1. blank = [i \in 1..z |-> NewRow(n)] /\ NewRow(n) \in RowsOf(n)
    BY <1>1, NewRowIsRow DEF BlankRows
  <2> HIDE DEF blank
  <2>2. blank \in [1..z -> RowsOf(n)]
    BY <2>1
  <2> QED BY <1>2, <2>1, <2>2, TupleIsSeq
<1>7. sb \in Seq(RowsOf(n)) /\ Len(sb) = Len(g.sb) - k /\ \A i \in 1..(Len(g.sb) - k) : sb[i] = g.sb[i]
  <2> DEFINE to == Len(g.sb) - k
  <2>1. 0 \in Nat /\ to \in Nat /\ 0 <= to /\ to <= Len(g.sb) /\ 0 + 1 = 1
    BY <1>1, <1>2
  <2> HIDE DEF to
  <2>2. SubSeq(g.sb, 0 + 1, to) \in Seq(RowsOf(n)) /\ Piece(SubSeq(g.sb, 0 + 1, to), g.sb, 0, to - 0)
    BY <1>1, <2>1, PieceIs
  <2>3. /\ SubSeq(g.sb, 1, to) \in Seq(RowsOf(n)) /\ Len(SubSeq(g.sb, 1, to)) = to
        /\ \A i \in 1..to : SubSeq(g.sb, 1, to)[i] = g.sb[i]
    BY <2>1, <2>2 DEF Piece
  <2> QED BY <2>3 DEF to
<1> HIDE DEF back, blank, sb
<1>8. /\ Len(f.lines) = k + j + z /\ f.lines \in Seq(RowsOf(n))
      /\ \A i \in 1..k : f.lines[i] = back[i]
      /\ \A i \in 1..j : f.lines[k + i] = g.lines[i]
      /\ \A i \in 1..z : f.lines[k + j + i] = blank[i]
  <2> DEFINE mid == g.lines
             all == f.lines
  <2>1. mid \in Seq(RowsOf(n)) /\ Len(mid) = j /\ all = (back \o mid) \o blank /\ j \in Nat
    BY <1>1, <1>4
  <2> HIDE DEF z, mid, all
  <2>2. all \in Seq(RowsOf(n)) /\ Joins(all, back, k, mid, j, blank, z)
    BY <1>2, <1>5, <1>6, <2>1, JoinedIs
  <2> QED BY <2>2 DEF mid, all, Joins
<1>9. k + j + z = m /\ DOMAIN f.lines = 1..m
  <2>1. k + j + z = m
    BY <1>1, <1>2
  <2> QED BY <1>8, <2>1, LenProperties
<1>10. ASSUME NEW i \in (k + j + 1)..m
       PROVE  f.lines[i] = NewRow(n)
  <2> DEFINE d == i - (k + j)
  <2>1. d \in 1..z /\ k + j + d = i
    BY <1>1, <1>2
  <2> HIDE DEF d, z
  <2> QED BY <1>6, <1>8, <2>1
<1>11. k \in 0..(m - j)
  BY <1>1, <1>2
<1> HIDE DEF z
<1> QED BY <1>2, <1>4, <1>5, <1>7, <1>8, <1>9, <1>10, <1>11 DEF f, k, Grown

(* f is g shrunk from j to m rows: up rows left at the top for the history,  *)
(* which keeps as many of its newest rows as it may, and the rows that fell  *)
(* off the bottom were empty.                                                *)
Shrunk(g, f, up, j, m) ==
  LET k == Lesser(Len(g.sb) + up, ScrollbackLimit)
      at == (Len(g.sb) + up) - k
  IN  /\ up \in 0..(j - m)
      /\ Len(f.lines) = m /\ DOMAIN f.lines = 1..m
      /\ \A i \in 1..m : f.lines[i] = g.lines[up + i]
      /\ \A i \in (up + m + 1)..j : LooksEmpty(g.lines[i])
      /\ Len(f.sb) = k /\ DOMAIN f.sb = 1..k
      /\ \A i \in 1..k :
           f.sb[i] = IF at + i <= Len(g.sb) THEN g.sb[at + i] ELSE g.lines[at + i - Len(g.sb)]

(* Below the last line with text all lines are empty. *)
LEMMA EmptyAre ==
  ASSUME NEW n \in Positive, NEW j \in Positive, NEW g \in Grids(n, j)
  PROVE  /\ EmptyBelow(g.lines) \in 0..j
         /\ \A i \in (j - EmptyBelow(g.lines) + 1)..j : LooksEmpty(g.lines[i])
<1> DEFINE T == {0} \cup {i \in DOMAIN g.lines : ~LooksEmpty(g.lines[i])}
           x == Max(T)
<1>1. DOMAIN g.lines = 1..j /\ Len(g.lines) = j /\ j \in Nat
  BY GridFacts
<1>2. T \in SUBSET (0..j) /\ T # {}
  BY <1>1
<1>3. EmptyBelow(g.lines) = j - x
  BY <1>1 DEF EmptyBelow
<1>4. x \in T /\ \A i \in T : x >= i
  <2> HIDE DEF T
  <2> QED BY <1>1, <1>2, MaxIs
<1>5. x \in 0..j
  BY <1>2, <1>4
<1> HIDE DEF x
<1>6. ASSUME NEW i \in (x + 1)..j
      PROVE  LooksEmpty(g.lines[i])
  <2>1. i \in DOMAIN g.lines /\ ~(x >= i)
    BY <1>1, <1>5
  <2>2. i \notin T
    BY <1>4, <2>1
  <2> QED BY <2>1, <2>2
<1>7. j - x \in 0..j /\ j - (j - x) = x
  BY <1>1, <1>5
<1> QED BY <1>3, <1>6, <1>7

(* Shrinking does so. *)
LEMMA ShrinkIs ==
  ASSUME NEW n \in Positive, NEW m \in Positive, NEW j \in Positive, NEW g \in Grids(n, j), m <= j
  PROVE  LET a == ShrinkRows([grid |-> g, delta |-> 0], m)
         IN  \E up \in 0..(j - m) : a.delta = -up /\ Shrunk(g, a.grid, up, j, m)
<1> DEFINE a == ShrinkRows([grid |-> g, delta |-> 0], m)
           f == a.grid
           e == EmptyBelow(g.lines)
           up == (j - m) - Lesser(j - m, e)
           h == Len(g.sb)
           k == Lesser(h + up, ScrollbackLimit)
           at == (h + up) - k
           top == SubSeq(g.lines, 1, up)
           all == g.sb \o top
<1>1. /\ g.lines \in Seq(RowsOf(n)) /\ Len(g.lines) = j /\ Rows(g) = j /\ g.sb \in Seq(RowsOf(n))
      /\ h \in Nat /\ j \in Nat /\ m \in Nat
  <2>1. /\ g.lines \in Seq(RowsOf(n)) /\ Len(g.lines) = j /\ Rows(g) = j /\ g.sb \in Seq(RowsOf(n))
        /\ j \in Nat /\ Len(g.sb) \in Nat
    BY GridFacts
  <2> QED BY <2>1 DEF Positive
<1>0. a.delta = 0 - up /\ f.lines = SubSeq(g.lines, up + 1, up + m) /\ f.sb = Trim(all)
  <2>1. a = [grid |-> [g EXCEPT !.lines = SubSeq(@, up + 1, up + m), !.sb = Trim(@ \o top)],
             delta |-> 0 - up]
    BY <1>1 DEF ShrinkRows
  <2> HIDE DEF up, top, a
  <2>2. g = [cols |-> g.cols, lines |-> g.lines, sb |-> g.sb]
    BY DEF Grids
  <2>3. a.delta = 0 - up /\ a.grid = [cols |-> g.cols, lines |-> SubSeq(g.lines, up + 1, up + m),
                                      sb |-> Trim(g.sb \o top)]
    BY <2>1, <2>2
  <2>4. /\ a.grid.lines = SubSeq(g.lines, up + 1, up + m)
        /\ a.grid.sb = Trim(g.sb \o top)
    <3> DEFINE x == SubSeq(g.lines, up + 1, up + m)
               y == Trim(g.sb \o top)
    <3>1. a.grid = [cols |-> g.cols, lines |-> x, sb |-> y]
      BY <2>3
    <3> HIDE DEF x, y
    <3>2. a.grid.lines = x /\ a.grid.sb = y
      BY <3>1
    <3> QED BY <3>2 DEF x, y
  <2> QED BY <2>3, <2>4, Zenon
<1> HIDE DEF a
<1>2. e \in 0..j /\ \A i \in (j - e + 1)..j : LooksEmpty(g.lines[i])
  BY EmptyAre
<1>3. up \in 0..(j - m) /\ up \in Nat /\ up + m \in Nat /\ up + m <= j /\ up + m >= j - e
  <2> HIDE DEF e
  <2> QED BY <1>1, <1>2 DEF Lesser
<1> HIDE DEF up
<1>4. \A i \in (up + m + 1)..j : LooksEmpty(g.lines[i])
  <2> HIDE DEF e
  <2>1. \A i \in (up + m + 1)..j : i \in (j - e + 1)..j
    BY <1>1, <1>2, <1>3
  <2> QED BY <1>2, <2>1
<1>5. f.lines \in Seq(RowsOf(n)) /\ Piece(f.lines, g.lines, up, m)
  <2> DEFINE to == up + m
  <2>1. to \in Nat /\ to <= Len(g.lines) /\ up <= to /\ to - up = m /\ f.lines = SubSeq(g.lines, up + 1, to)
    BY <1>0, <1>1, <1>3
  <2> HIDE DEF to
  <2>2. SubSeq(g.lines, up + 1, to) \in Seq(RowsOf(n))
        /\ Piece(SubSeq(g.lines, up + 1, to), g.lines, up, to - up)
    BY <1>1, <1>3, <2>1, PieceIs
  <2> QED BY <2>1, <2>2
<1>6. top \in Seq(RowsOf(n)) /\ Piece(top, g.lines, 0, up)
  <2>1. 0 \in Nat /\ 0 <= up /\ up <= Len(g.lines) /\ 0 + 1 = 1 /\ up - 0 = up
    BY <1>1, <1>3
  <2>2. SubSeq(g.lines, 0 + 1, up) \in Seq(RowsOf(n)) /\ Piece(SubSeq(g.lines, 0 + 1, up), g.lines, 0, up - 0)
    BY <1>1, <1>3, <2>1, PieceIs
  <2> QED BY <2>1, <2>2
<1> HIDE DEF top, e
<1>8. all \in Seq(RowsOf(n)) /\ Follows(all, g.sb, h, top, up)
  <2>1. Len(top) = up
    BY <1>6 DEF Piece
  <2> QED BY <1>1, <1>3, <1>6, <2>1, FollowsIs
<1> HIDE DEF all
<1>9. f.sb \in Seq(RowsOf(n)) /\ Piece(f.sb, all, at, k)
  <2>1. Len(all) = h + up
    BY <1>8 DEF Follows
  <2>2. Trim(all) \in Seq(RowsOf(n)) /\ \A x : Len(all) = x =>
          Piece(Trim(all), all, x - Lesser(x, ScrollbackLimit), Lesser(x, ScrollbackLimit))
    BY <1>8, TrimIs, Zenon
  <2>3. Trim(all) = f.sb
    BY <1>0, Zenon
  <2> HIDE DEF h
  <2> QED BY <2>1, <2>2, <2>3
<1>10. k \in Nat /\ at \in Nat /\ at + k = h + up
  <2> HIDE DEF h
  <2>1. h \in Nat /\ up \in Nat /\ ScrollbackLimit \in Nat
    BY <1>1, <1>3, LimitAssumption
  <2> QED BY <2>1 DEF Lesser
<1> HIDE DEF h, k, at
<1>11. ASSUME NEW i \in 1..k
       PROVE  f.sb[i] = IF at + i <= h THEN g.sb[at + i] ELSE g.lines[at + i - h]
  <2>1. f.sb[i] = all[at + i]
    BY <1>9 DEF Piece
  <2>2. CASE at + i <= h
    <3>1. at + i \in 1..h
      BY <1>1, <1>10, <2>2
    <3> QED BY <1>8, <2>1, <2>2, <3>1 DEF Follows
  <2>3. CASE ~(at + i <= h)
    <3> DEFINE d == at + i - h
    <3>1. d \in 1..up /\ h + d = at + i /\ 0 + d = d
      BY <1>1, <1>3, <1>10, <2>3
    <3> HIDE DEF d
    <3>2. all[h + d] = top[d] /\ top[d] = g.lines[0 + d]
      BY <1>6, <1>8, <3>1 DEF Follows, Piece
    <3> QED BY <2>1, <2>3, <3>1, <3>2 DEF d
  <2> QED BY <2>2, <2>3
<1>12. /\ Len(f.lines) = m /\ DOMAIN f.lines = 1..m /\ Len(f.sb) = k /\ DOMAIN f.sb = 1..k
       /\ \A i \in 1..m : f.lines[i] = g.lines[up + i]
  BY <1>5, <1>9, LenProperties DEF Piece
<1>13. a.delta = -up
  BY <1>0, <1>3
<1> QED BY <1>3, <1>4, <1>11, <1>12, <1>13 DEF a, Shrunk, h, k, at

(* A change of height alone is a growth or a shrinking of the grid, and the  *)
(* cursor goes along.                                                        *)
LEMMA HeightIs ==
  ASSUME NEW n \in Positive, NEW m \in Positive, NEW j \in Positive, NEW g \in Grids(n, j), NEW r, NEW c
  PROVE  LET a == resize_with_cursor(g, n, m, r, c)
         IN  \/ j < m /\ \E k \in 0..(m - j) : a.delta = k /\ Grown(g, a.grid, k, n, j, m)
             \/ m <= j /\ \E up \in 0..(j - m) : a.delta = -up /\ Shrunk(g, a.grid, up, j, m)
<1> DEFINE b == [grid |-> g, delta |-> 0]
           a == resize_with_cursor(g, n, m, r, c)
           k == Back(g, m)
<1>1. Rows(g) = j /\ g.cols = n /\ n \in Nat /\ m \in Nat /\ j \in Nat
  <2>1. Rows(g) = j /\ g.cols = n /\ n \in Nat /\ j \in Nat
    BY GridFacts
  <2> QED BY <2>1 DEF Positive
<1>2. a = IF m > j THEN GrowRows(b, m) ELSE ShrinkRows(b, m)
  BY <1>1 DEF resize_with_cursor, FitRows
<1>3. CASE j < m
  <2> DEFINE f == TakeBack(g, k, m)
  <2>1. Grown(g, f, k, n, j, m)
    BY <1>3, GrowthIs
  <2>2. k \in 0..(m - j)
    BY <2>1 DEF Grown
  <2>3. GrowRows(b, m) = [b EXCEPT !.grid = f, !.delta = 0 + k]
    BY DEF GrowRows
  <2> HIDE DEF f, k
  <2>4. a = [b EXCEPT !.grid = f, !.delta = 0 + k]
    BY <1>1, <1>2, <1>3, <2>3
  <2> HIDE DEF a
  <2>5. a.grid = f /\ a.delta = k
    BY <1>1, <2>2, <2>4
  <2>6. Grown(g, a.grid, k, n, j, m)
    BY <2>1, <2>5
  <2>7. \E i \in 0..(m - j) : a.delta = i /\ Grown(g, a.grid, i, n, j, m)
    BY <2>2, <2>5, <2>6
  <2> QED BY <1>3, <2>7 DEF a
<1>4. CASE m <= j
  <2>1. a = ShrinkRows(b, m)
    BY <1>1, <1>2, <1>4
  <2> HIDE DEF a
  <2>2. \E up \in 0..(j - m) : ShrinkRows(b, m).delta = -up /\ Shrunk(g, ShrinkRows(b, m).grid, up, j, m)
    BY <1>4, ShrinkIs, Zenon
  <2> QED BY <1>4, <2>1, <2>2, Zenon DEF a
<1> QED BY <1>1, <1>3, <1>4

(* A blank row looks empty. *)
LEMMA NewRowLooksEmpty == ASSUME NEW n PROVE LooksEmpty(NewRow(n))
BY DEF LooksEmpty, NewRow, BlankCells, Blank, Cell

(* The written rows of a grid, shown or in the history. *)
Written(g) == {r \in {g.lines[i] : i \in DOMAIN g.lines} \cup {g.sb[i] : i \in DOMAIN g.sb} : ~LooksEmpty(r)}

(* Growing keeps every row, *)
LEMMA GrownKeepsText ==
  ASSUME NEW n \in Positive, NEW m \in Positive, NEW j \in Positive, NEW g \in Grids(n, j), NEW f,
         NEW k \in 0..(m - j), j < m, Grown(g, f, k, n, j, m)
  PROVE  Written(f) = Written(g)
<1> DEFINE h == Len(g.sb)
<1>1. /\ DOMAIN g.lines = 1..j /\ DOMAIN g.sb = 1..h /\ h \in Nat /\ j \in Nat /\ m \in Nat /\ k \in Nat
  <2>1. DOMAIN g.lines = 1..j /\ g.sb \in Seq(RowsOf(n))
    BY GridFacts
  <2> QED BY <2>1, LenProperties DEF Positive
<1> HIDE DEF h
<1>2. /\ k <= h /\ DOMAIN f.lines = 1..m /\ DOMAIN f.sb = 1..(h - k)
      /\ \A i \in 1..j : f.lines[k + i] = g.lines[i]
      /\ \A i \in 1..k : f.lines[i] = g.sb[h + 1 - i]
      /\ \A i \in (k + j + 1)..m : f.lines[i] = NewRow(n)
      /\ \A i \in 1..(h - k) : f.sb[i] = g.sb[i]
  BY LenProperties DEF Grown, h
<1>3. ASSUME NEW r \in Written(f)
      PROVE  r \in Written(g)
  <2>1. ~LooksEmpty(r)
    BY DEF Written
  <2>2. CASE \E i \in 1..m : r = f.lines[i]
    <3>1. PICK i \in 1..m : r = f.lines[i]
      BY <2>2
    <3>2. CASE i <= k
      <4>1. h + 1 - i \in 1..h /\ i \in 1..k
        BY <1>1, <1>2, <3>2
      <4> QED BY <1>1, <1>2, <2>1, <3>1, <4>1 DEF Written
    <3>3. CASE k < i /\ i <= k + j
      <4> DEFINE d == i - k
      <4>1. d \in 1..j /\ k + d = i
        BY <1>1, <3>3
      <4> HIDE DEF d
      <4> QED BY <1>1, <1>2, <2>1, <3>1, <4>1 DEF Written
    <3>4. CASE k + j < i
      <4>1. i \in (k + j + 1)..m
        BY <1>1, <3>4
      <4> QED BY <1>2, <2>1, <3>1, <4>1, NewRowLooksEmpty
    <3> QED BY <1>1, <3>2, <3>3, <3>4
  <2>3. CASE \E i \in 1..(h - k) : r = f.sb[i]
    <3>1. PICK i \in 1..(h - k) : r = f.sb[i]
      BY <2>3
    <3>2. i \in 1..h /\ r = g.sb[i]
      BY <1>1, <1>2, <3>1
    <3> QED BY <1>1, <2>1, <3>2 DEF Written
  <2> QED BY <1>2, <2>2, <2>3 DEF Written
<1>4. ASSUME NEW r \in Written(g)
      PROVE  r \in Written(f)
  <2>1. ~LooksEmpty(r)
    BY DEF Written
  <2>2. CASE \E i \in 1..j : r = g.lines[i]
    <3>1. PICK i \in 1..j : r = g.lines[i]
      BY <2>2
    <3>2. k + i \in 1..m /\ r = f.lines[k + i]
      BY <1>1, <1>2, <3>1
    <3> QED BY <1>2, <2>1, <3>2 DEF Written
  <2>3. CASE \E i \in 1..h : r = g.sb[i]
    <3>1. PICK i \in 1..h : r = g.sb[i]
      BY <2>3
    <3>2. CASE i <= h - k
      <4>1. i \in 1..(h - k) /\ r = f.sb[i]
        BY <1>1, <1>2, <3>1, <3>2
      <4> QED BY <1>2, <2>1, <4>1 DEF Written
    <3>3. CASE h - k < i
      <4> DEFINE d == h + 1 - i
      <4>1. d \in 1..k /\ d \in 1..m /\ h + 1 - d = i
        BY <1>1, <1>2, <3>3
      <4> HIDE DEF d
      <4> QED BY <1>2, <2>1, <3>1, <4>1 DEF Written
    <3> QED BY <1>1, <1>2, <3>2, <3>3
  <2> QED BY <1>1, <2>2, <2>3 DEF Written
<1> QED BY <1>3, <1>4

(* and so does shrinking while the history has room. *)
LEMMA ShrunkKeepsText ==
  ASSUME NEW n \in Positive, NEW m \in Positive, NEW j \in Positive, NEW g \in Grids(n, j), NEW f,
         NEW up \in 0..(j - m), m <= j, Shrunk(g, f, up, j, m), Len(g.sb) + up <= ScrollbackLimit
  PROVE  Written(f) = Written(g)
<1> DEFINE h == Len(g.sb)
<1>1. /\ DOMAIN g.lines = 1..j /\ DOMAIN g.sb = 1..h /\ h \in Nat /\ j \in Nat /\ m \in Nat /\ up \in Nat
  <2>1. DOMAIN g.lines = 1..j /\ g.sb \in Seq(RowsOf(n))
    BY GridFacts
  <2> QED BY <2>1, LenProperties DEF Positive
<1>2. /\ DOMAIN f.lines = 1..m /\ DOMAIN f.sb = 1..(h + up)
      /\ \A i \in 1..m : f.lines[i] = g.lines[up + i]
      /\ \A i \in (up + m + 1)..j : LooksEmpty(g.lines[i])
      /\ \A i \in 1..(h + up) : f.sb[i] = IF i <= h THEN g.sb[i] ELSE g.lines[i - h]
  <2> DEFINE k == Lesser(h + up, ScrollbackLimit)
             at == (h + up) - k
  <2>1. k = h + up /\ at = 0 /\ \A i \in 1..(h + up) : 0 + i = i
    <3>1. h + up <= ScrollbackLimit
      OBVIOUS
    <3> HIDE DEF h
    <3> QED BY <1>1, <3>1, LimitAssumption DEF Lesser
  <2>2. /\ DOMAIN f.lines = 1..m /\ DOMAIN f.sb = 1..k
        /\ \A i \in 1..m : f.lines[i] = g.lines[up + i]
        /\ \A i \in (up + m + 1)..j : LooksEmpty(g.lines[i])
        /\ \A i \in 1..k : f.sb[i] = IF at + i <= h THEN g.sb[at + i] ELSE g.lines[at + i - h]
    BY DEF Shrunk
  <2> HIDE DEF h, k, at
  <2>3. ASSUME NEW i \in 1..(h + up)
        PROVE  f.sb[i] = IF i <= h THEN g.sb[i] ELSE g.lines[i - h]
    <3>1. at + i = i /\ at + i - h = i - h
      BY <1>1, <2>1
    <3>2. f.sb[i] = IF at + i <= h THEN g.sb[at + i] ELSE g.lines[at + i - h]
      BY <2>1, <2>2
    <3> QED BY <3>1, <3>2, Zenon
  <2> QED BY <2>1, <2>2, <2>3
<1> HIDE DEF h
<1>3. ASSUME NEW r \in Written(f)
      PROVE  r \in Written(g)
  <2>1. ~LooksEmpty(r)
    BY DEF Written
  <2>2. CASE \E i \in 1..m : r = f.lines[i]
    <3>1. PICK i \in 1..m : r = f.lines[i]
      BY <2>2
    <3>2. up + i \in 1..j /\ r = g.lines[up + i]
      BY <1>1, <1>2, <3>1
    <3> QED BY <1>1, <2>1, <3>2 DEF Written
  <2>3. CASE \E i \in 1..(h + up) : r = f.sb[i]
    <3>1. PICK i \in 1..(h + up) : r = f.sb[i]
      BY <2>3
    <3>2. CASE i <= h
      <4>1. i \in 1..h /\ r = g.sb[i]
        BY <1>1, <1>2, <3>1, <3>2
      <4> QED BY <1>1, <2>1, <4>1 DEF Written
    <3>3. CASE h < i
      <4>1. i - h \in 1..j /\ r = g.lines[i - h]
        BY <1>1, <1>2, <3>1, <3>3
      <4> QED BY <1>1, <2>1, <4>1 DEF Written
    <3> QED BY <1>1, <3>2, <3>3
  <2> QED BY <1>2, <2>2, <2>3 DEF Written
<1>4. ASSUME NEW r \in Written(g)
      PROVE  r \in Written(f)
  <2>1. ~LooksEmpty(r)
    BY DEF Written
  <2>2. CASE \E i \in 1..j : r = g.lines[i]
    <3>1. PICK i \in 1..j : r = g.lines[i]
      BY <2>2
    <3>2. CASE i <= up
      <4>1. h + i \in 1..(h + up) /\ ~(h + i <= h) /\ (h + i) - h = i
        BY <1>1, <3>2
      <4> QED BY <1>2, <2>1, <3>1, <4>1 DEF Written
    <3>3. CASE up < i /\ i <= up + m
      <4> DEFINE d == i - up
      <4>1. d \in 1..m /\ up + d = i
        BY <1>1, <3>3
      <4> HIDE DEF d
      <4> QED BY <1>2, <2>1, <3>1, <4>1 DEF Written
    <3>4. CASE up + m < i
      <4>1. i \in (up + m + 1)..j
        BY <1>1, <3>4
      <4> QED BY <1>2, <2>1, <3>1, <4>1
    <3> QED BY <1>1, <3>2, <3>3, <3>4
  <2>3. CASE \E i \in 1..h : r = g.sb[i]
    <3>1. PICK i \in 1..h : r = g.sb[i]
      BY <2>3
    <3>2. i \in 1..(h + up) /\ r = f.sb[i]
      BY <1>1, <1>2, <3>1
    <3> QED BY <1>2, <2>1, <3>2 DEF Written
  <2> QED BY <1>1, <2>2, <2>3 DEF Written
<1> QED BY <1>3, <1>4

(* The line r (from 0) of a grid that shrank is where the cursor goes, or in *)
(* the history, or it was empty, or it fell out of the history at once.      *)
LEMMA ShrunkKeepsLine ==
  ASSUME NEW n \in Positive, NEW m \in Positive, NEW j \in Positive, NEW g \in Grids(n, j), NEW f,
         NEW up \in 0..(j - m), m <= j, Shrunk(g, f, up, j, m), NEW r \in 0..(j - 1)
  PROVE  LET row == Lesser(Greater(r + (-up), 0), m - 1)
         IN  \/ f.lines[row + 1] = g.lines[r + 1]
             \/ LooksEmpty(g.lines[r + 1])
             \/ \E i \in DOMAIN f.sb : f.sb[i] = g.lines[r + 1]
             \/ r + ScrollbackLimit < j - m
<1> DEFINE row == Lesser(Greater(r + (-up), 0), m - 1)
           h == Len(g.sb)
           k == Lesser(h + up, ScrollbackLimit)
           at == (h + up) - k
<1>1. /\ h \in Nat /\ j \in Nat /\ m \in Nat /\ m >= 1 /\ up \in Nat /\ r \in Nat /\ r < j
      /\ ScrollbackLimit \in Nat
  <2>1. g.sb \in Seq(RowsOf(n))
    BY GridFacts
  <2> QED BY <2>1, LenProperties, LimitAssumption DEF Positive
<1>2. /\ \A i \in 1..m : f.lines[i] = g.lines[up + i]
      /\ \A i \in (up + m + 1)..j : LooksEmpty(g.lines[i])
      /\ DOMAIN f.sb = 1..k
      /\ \A i \in 1..k : f.sb[i] = IF at + i <= h THEN g.sb[at + i] ELSE g.lines[at + i - h]
  BY DEF Shrunk
<1> HIDE DEF h
<1>3. CASE up <= r /\ r < up + m
  <2>1. row = r - up /\ row + 1 \in 1..m /\ up + (row + 1) = r + 1
    BY <1>1, <1>3 DEF Lesser, Greater
  <2> QED BY <1>2, <2>1
<1>4. CASE up + m <= r
  <2>1. r + 1 \in (up + m + 1)..j
    BY <1>1, <1>4
  <2> QED BY <1>2, <2>1
<1>5. CASE r < up /\ up <= r + ScrollbackLimit
  <2> DEFINE i == (h + r + 1) - at
  <2>1. i \in 1..k /\ at + i = h + r + 1 /\ ~(at + i <= h) /\ (at + i) - h = r + 1 /\ at + i - h = r + 1
    BY <1>1, <1>5 DEF Lesser
  <2> HIDE DEF i, at, k
  <2>2. i \in DOMAIN f.sb /\ f.sb[i] = g.lines[r + 1]
    BY <1>2, <2>1
  <2> QED BY <2>2
<1>6. CASE r < up /\ r + ScrollbackLimit < up
  BY <1>1, <1>6
<1> QED BY <1>1, <1>3, <1>4, <1>5, <1>6

(* The line r of a grid that grew is where the cursor goes. *)
LEMMA GrownKeepsLine ==
  ASSUME NEW n \in Positive, NEW m \in Positive, NEW j \in Positive, NEW g, NEW f,
         NEW k \in 0..(m - j), j < m, Grown(g, f, k, n, j, m), NEW r \in 0..(j - 1)
  PROVE  LET row == Lesser(Greater(r + k, 0), m - 1)
         IN  f.lines[row + 1] = g.lines[r + 1]
<1> DEFINE row == Lesser(Greater(r + k, 0), m - 1)
<1>1. j \in Nat /\ m \in Nat
  BY DEF Positive
<1>2. row + 1 = k + (r + 1) /\ r + 1 \in 1..j
  BY <1>1 DEF Lesser, Greater
<1>3. \A i \in 1..j : f.lines[k + i] = g.lines[i]
  BY DEF Grown
<1> HIDE DEF row
<1>4. f.lines[row + 1] = g.lines[r + 1]
  BY <1>2, <1>3
<1> QED BY <1>4 DEF row

(* What resizing does to the shown grid and the cursor's row. *)
LEMMA ResizedScreen ==
  ASSUME NEW k \in Positive, NEW j \in Positive, NEW h, NEW s \in Live(k, j, h), NEW n, NEW m
  PROVE  LET a == resize_with_cursor(s.grid, n, m, s.cur.row, s.cur.col)
         IN  /\ resize(s, n, m).grid = a.grid
             /\ resize(s, n, m).cur.row = Lesser(Greater(s.cur.row + a.delta, 0), m - 1)
<1> DEFINE a == resize_with_cursor(s.grid, n, m, s.cur.row, s.cur.col)
           cur == ClampTo([row |-> Greater(s.cur.row + a.delta, 0), col |-> s.cur.col], n, m)
<1>1. s \in Screens(k, j)
  BY LiveFacts
<1> HIDE DEF a
<1>2. resize(s, n, m).grid = a.grid /\ resize(s, n, m).cur = cur
  BY <1>1 DEF resize, Screens, a
<1>3. cur.row = Lesser(Greater(s.cur.row + a.delta, 0), m - 1)
  BY DEF ClampTo
<1> HIDE DEF cur
<1> QED BY <1>2, <1>3 DEF a

(* The cursor's line and the written text survive a change of height. *)
LEMMA HeightKeepsText ==
  ASSUME TerminalInv, Resize, RowsOnly
  PROVE  /\ KeepsCursorLine
         /\ Len(screen.grid.sb) + rows(screen) - rows(screen') <= ScrollbackLimit
              => Inked(screen') = Inked(screen)
<1> DEFINE n == cols(screen)
           j == rows(screen)
           m == rows(screen')
           g == screen.grid
           f == screen'.grid
           r == screen.cur.row
           a == resize_with_cursor(g, n, m, r, screen.cur.col)
           row == Lesser(Greater(r + a.delta, 0), m - 1)
<1>1. OnScreen(screen)
  BY DEF Resize
<1>2. n \in Positive /\ j \in Positive /\ screen \in Live(n, j, Rest(screen))
  BY <1>1, ScreenIsLive
<1>3. PICK z \in Sizes : screen' = resize(screen, z[1], z[2])
  BY DEF Resize
<1>4. z[1] = n /\ z[2] = m /\ m \in Positive
  <2> DEFINE x == z[1]
             y == z[2]
  <2>1. x \in Positive /\ y \in Positive
    BY TerminalAssumption
  <2>2. screen' \in Screens(x, y)
    <3> HIDE DEF n, j, m, x, y
    <3>1. screen' = resize(screen, x, y)
      BY <1>3 DEF x, y
    <3> QED BY <1>2, <2>1, <3>1, resizeKeeps
  <2>3. cols(screen') = x /\ rows(screen') = y
    <3> HIDE DEF x, y
    <3> QED BY <2>1, <2>2, ScreenFacts
  <2> QED BY <2>1, <2>3 DEF RowsOnly
<1>5. f = a.grid /\ screen'.cur.row = row
  <2>1. screen' = resize(screen, n, m)
    BY <1>3, <1>4
  <2> HIDE DEF n, j, m
  <2> QED BY <1>2, <2>1, ResizedScreen
<1>6. g \in Grids(n, j) /\ r \in 0..(j - 1) /\ j \in Nat /\ m \in Nat /\ Len(g.sb) \in Nat
  <2> HIDE DEF n, j, m, g, r
  <2>1. screen.grid \in Grids(n, j) /\ screen.cur.row \in 0..j-1
    BY <1>2, LiveFacts
  <2>2. Len(screen.grid.sb) \in Nat
    BY <1>2, <2>1, GridFacts
  <2> QED BY <1>2, <1>4, <2>1, <2>2 DEF Positive, g, r
<1>7. /\ KeepsCursorLine <=> \/ f.lines[row + 1].cells = g.lines[r + 1].cells
                             \/ LooksEmpty(g.lines[r + 1])
                             \/ \E i \in DOMAIN f.sb : f.sb[i].cells = g.lines[r + 1].cells
                             \/ r + ScrollbackLimit < j - m
      /\ Inked(screen) = Written(g) /\ Inked(screen') = Written(f)
  <2> HIDE DEF row
  <2>1. KeepsCursorLine <=> \/ f.lines[row + 1].cells = g.lines[r + 1].cells
                            \/ LooksEmpty(g.lines[r + 1])
                            \/ \E i \in DOMAIN f.sb : f.sb[i].cells = g.lines[r + 1].cells
                            \/ r + ScrollbackLimit < j - m
    BY <1>5 DEF KeepsCursorLine, CursorLine
  <2> QED BY <2>1 DEF Inked, Written
<1> HIDE DEF n, j, m, g, f, r
<1>8. CASE j < m /\ \E k \in 0..(m - j) : a.delta = k /\ Grown(g, a.grid, k, n, j, m)
  <2>1. PICK k \in 0..(m - j) : a.delta = k /\ Grown(g, a.grid, k, n, j, m)
    BY <1>8
  <2> HIDE DEF a
  <2>2. Grown(g, f, k, n, j, m)
    BY <1>5, <2>1
  <2>3. f.lines[row + 1] = g.lines[r + 1]
    <3>1. f.lines[Lesser(Greater(r + k, 0), m - 1) + 1] = g.lines[r + 1]
      BY <1>2, <1>4, <1>6, <1>8, <2>2, GrownKeepsLine
    <3> QED BY <2>1, <3>1
  <2>4. Written(f) = Written(g)
    BY <1>2, <1>4, <1>6, <1>8, <2>2, GrownKeepsText
  <2> HIDE DEF row
  <2> QED BY <1>7, <2>3, <2>4
<1>9. CASE m <= j /\ \E up \in 0..(j - m) : a.delta = -up /\ Shrunk(g, a.grid, up, j, m)
  <2>1. PICK up \in 0..(j - m) : a.delta = -up /\ Shrunk(g, a.grid, up, j, m)
    BY <1>9
  <2> HIDE DEF a
  <2>2. Shrunk(g, f, up, j, m)
    BY <1>5, <2>1
  <2>3. \/ f.lines[row + 1] = g.lines[r + 1]
        \/ LooksEmpty(g.lines[r + 1])
        \/ \E i \in DOMAIN f.sb : f.sb[i] = g.lines[r + 1]
        \/ r + ScrollbackLimit < j - m
    <3>1. LET to == Lesser(Greater(r + (-up), 0), m - 1)
          IN  \/ f.lines[to + 1] = g.lines[r + 1]
              \/ LooksEmpty(g.lines[r + 1])
              \/ \E i \in DOMAIN f.sb : f.sb[i] = g.lines[r + 1]
              \/ r + ScrollbackLimit < j - m
      BY <1>2, <1>4, <1>6, <1>9, <2>2, ShrunkKeepsLine
    <3>2. row = Lesser(Greater(r + (-up), 0), m - 1)
      BY <2>1
    <3> HIDE DEF row
    <3> QED BY <3>1, <3>2
  <2>4. Len(g.sb) + j - m <= ScrollbackLimit => Written(f) = Written(g)
    <3>1. Len(g.sb) + j - m <= ScrollbackLimit => Len(g.sb) + up <= ScrollbackLimit
      BY <1>6, LimitAssumption
    <3> QED BY <1>2, <1>4, <1>6, <1>9, <2>2, <3>1, ShrunkKeepsText
  <2> HIDE DEF row
  <2>5. KeepsCursorLine
    BY <1>7, <2>3
  <2>6. Len(g.sb) + j - m <= ScrollbackLimit => Inked(screen') = Inked(screen)
    BY <1>7, <2>4
  <2> QED BY <2>5, <2>6 DEF g, j, m
<1> QED
  <2>1. \/ j < m /\ \E k \in 0..(m - j) : a.delta = k /\ Grown(g, a.grid, k, n, j, m)
        \/ m <= j /\ \E up \in 0..(j - m) : a.delta = -up /\ Shrunk(g, a.grid, up, j, m)
    BY <1>2, <1>4, <1>6, HeightIs
  <2> QED BY <1>8, <1>9, <2>1

(* Nothing else changes the height, DECCOLM changes the width alone. *)
LEMMA OthersKeepHeight ==
  ASSUME TerminalInv, Next, ~Resize
  PROVE  rows(screen') = rows(screen)
<1>1. ASSUME NEW t, Feed(t), t \in Screens(cols(screen), rows(screen))
      PROVE  rows(screen') = rows(screen)
  BY <1>1, FeedIs
<1>2. CASE \E t \in Live(cols(screen), rows(screen), Rest(screen)) : Feed(t) /\ Plain
  BY <1>1, <1>2 DEF Live
<1> DEFINE n == cols(screen)
           m == rows(screen)
           h == Rest(screen)
<1>3. OnScreen(screen) => n \in Positive /\ m \in Positive /\ screen \in Live(n, m, h)
  BY ScreenIsLive
<1>4. CASE RestoreModes
  <2>1. Feed(restore_dec_modes(screen))
    BY <1>4 DEF RestoreModes
  <2>2. restore_dec_modes(screen) \in Screens(n, m)
    <3>1. OnScreen(screen)
      BY <2>1 DEF Feed
    <3> HIDE DEF n, m, h
    <3> QED BY <1>3, <3>1, restore_dec_modesKeeps, LiveFacts
  <2> QED BY <1>1, <2>1, <2>2
<1>5. CASE EnterAlt
  <2>1. PICK save \in BOOLEAN : Feed(enter_alt_screen(screen, save))
    BY <1>5 DEF EnterAlt
  <2>2. enter_alt_screen(screen, save) \in Screens(n, m)
    <3>1. OnScreen(screen)
      BY <2>1 DEF Feed
    <3> HIDE DEF n, m, h
    <3>2. screen.modes.alt => enter_alt_screen(screen, save) = screen
      BY DEF enter_alt_screen
    <3>3. ~screen.modes.alt
            => enter_alt_screen(screen, save) \in Live(n, m, <<screen.grid, screen.cur, TRUE>>)
      BY <1>3, <3>1, enter_alt_screenKeeps
    <3> QED BY <1>3, <3>1, <3>2, <3>3, LiveFacts
  <2> QED BY <1>1, <2>1, <2>2
<1>6. CASE LeaveAlt
  <2>1. PICK restore \in BOOLEAN : Feed(leave_alt_screen(screen, restore))
    BY <1>6 DEF LeaveAlt
  <2>2. leave_alt_screen(screen, restore) \in Screens(n, m)
    <3>1. OnScreen(screen)
      BY <2>1 DEF Feed
    <3> HIDE DEF n, m, h
    <3>2. ~screen.modes.alt => leave_alt_screen(screen, restore) = screen
      BY DEF leave_alt_screen
    <3>3. screen.modes.alt => leave_alt_screen(screen, restore) \in Screens(n, m)
      BY <1>3, <3>1, leave_alt_screenKeeps
    <3> QED BY <1>3, <3>1, <3>2, <3>3, LiveFacts
  <2> QED BY <1>1, <2>1, <2>2
<1>7. CASE DECSTR
  <2>1. Feed(soft_reset(screen))
    BY <1>7 DEF DECSTR
  <2>2. soft_reset(screen) \in Screens(n, m)
    <3>1. OnScreen(screen)
      BY <2>1 DEF Feed
    <3> HIDE DEF n, m, h
    <3> QED BY <1>3, <3>1, soft_resetKeeps, LiveFacts
  <2> QED BY <1>1, <2>1, <2>2
<1>8. CASE RIS
  <2>1. Feed(new(n, m))
    BY <1>8 DEF RIS, reset
  <2>2. n \in Positive /\ m \in Positive
    BY DEF TerminalInv, Proper
  <2>3. new(n, m) \in Screens(n, m)
    <3> HIDE DEF n, m
    <3> QED BY <2>2, newIs, LiveFacts
  <2> QED BY <1>1, <2>1, <2>3
<1>9. CASE ScrollView
  <2>1. screen \in Screens(n, m)
    BY DEF TerminalInv, Proper
  <2>2. screen'.grid = screen.grid
    BY <1>9, <2>1 DEF ScrollView, scroll_viewport_up, scroll_viewport_down, Screens
  <2> QED BY <2>2 DEF rows
<1> HIDE DEF n, m, h
<1>10. CASE RestoreModes \/ EnterAlt \/ LeaveAlt \/ DECSTR \/ RIS \/ ScrollView
  BY <1>4, <1>5, <1>6, <1>7, <1>8, <1>9, <1>10
<1> QED BY <1>2, <1>10, OutputIsLive, DECCOLMKeeps DEF Next

(* A change of height, and nothing else changes it, tears nothing apart: the *)
(* cursor stays with its text, or the text went to the history, fell out of  *)
(* it or was none, and no written line is lost while the history has room.   *)
THEOREM TerminalResizeKeepsText == Spec => ResizeKeepsText
<1> DEFINE Kept ==
      RowsOnly => /\ KeepsCursorLine
                  /\ Len(screen.grid.sb) + rows(screen) - rows(screen') <= ScrollbackLimit
                       => Inked(screen') = Inked(screen)
<1>1. TerminalInv /\ [Next]_vars => [Kept]_vars
  <2> SUFFICES ASSUME TerminalInv, Next, RowsOnly
               PROVE  Kept
    OBVIOUS
  <2>1. Resize
    BY OthersKeepHeight DEF RowsOnly
  <2> QED BY <2>1, HeightKeepsText
<1>2. TerminalInv /\ [Next]_vars => TerminalInv'
  BY NextKeeps
<1> QED BY <1>1, <1>2, InitHolds, PTL DEF Spec, ResizeKeepsText

----------------------------------------------------------------------------
(* Drawing: what the operators that work within lines leave alone *)

(* f differs from g at most in the cells of line r. *)
Beside(m, g, f, r) ==
  f.sb = g.sb /\ \A i \in 1..m : i # r => f.lines[i].cells = g.lines[i].cells

(* t looks different from s at most in rows that are damaged. *)
Drawn(m, s, t) ==
  /\ s.damage \subseteq t.damage
  /\ \A i \in 1..m : i - 1 \in t.damage \/ t.grid.lines[i].cells = s.grid.lines[i].cells

(* And it has the same history. *)
Covered(m, s, t) == t.grid.sb = s.grid.sb /\ Drawn(m, s, t)

(* Cells written in one line. *)
LEMMA OneLine ==
  ASSUME NEW n \in Positive, NEW m \in Positive, NEW g \in Grids(n, m), NEW r \in 1..m, NEW x
  PROVE  Beside(m, g, [g EXCEPT !.lines[r].cells = x], r)
<1> DEFINE lines == [g.lines EXCEPT ![r] = [g.lines[r] EXCEPT !.cells = x]]
<1>1. [g EXCEPT !.lines[r].cells = x] = [g EXCEPT !.lines = lines]
  OBVIOUS
<1>2. DOMAIN g.lines = 1..m
  BY GridFacts
<1>3. \A i \in 1..m : i # r => lines[i] = g.lines[i]
  BY <1>2
<1> HIDE DEF lines
<1>4. [g EXCEPT !.lines = lines].lines = lines /\ [g EXCEPT !.lines = lines].sb = g.sb
  BY DEF Grids
<1> QED BY <1>1, <1>3, <1>4 DEF Beside

(* One cell written, at any row and column. *)
LEMMA CellMutBeside ==
  ASSUME NEW n \in Positive, NEW m \in Positive, NEW g \in Grids(n, m), NEW r \in 0..m-1, NEW c, NEW x
  PROVE  Beside(m, g, cell_mut(g, r, c, x), r + 1)
<1> DEFINE i == r + 1
           k == ColIndex(g, c)
           f == [g.lines[i].cells EXCEPT ![k] = x]
<1>1. RowIndex(g, r) = i /\ i \in 1..m
  BY GridFacts DEF RowIndex, Lesser
<1> HIDE DEF i
<1>2. cell_mut(g, r, c, x) = [g EXCEPT !.lines[i].cells[k] = x]
  BY <1>1 DEF cell_mut
<1>3. [g EXCEPT !.lines[i].cells[k] = x] = [g EXCEPT !.lines[i].cells = f]
  OBVIOUS
<1> HIDE DEF f, k
<1>4. Beside(m, g, [g EXCEPT !.lines[i].cells = f], i)
  BY <1>1, OneLine
<1> QED BY <1>2, <1>3, <1>4 DEF i

(* A mark changes no cell. *)
LEMMA MarkLeaves ==
  ASSUME NEW n \in Positive, NEW m \in Positive, NEW g \in Grids(n, m), NEW r \in 0..m-1, NEW b
  PROVE  /\ set_continuation(g, r, b).sb = g.sb
         /\ \A i \in 1..m : set_continuation(g, r, b).lines[i].cells = g.lines[i].cells
<1> DEFINE k == r + 1
           lines == [g.lines EXCEPT ![k] = [g.lines[k] EXCEPT !.cont = b]]
<1>1. RowIndex(g, r) = k /\ k \in 1..m /\ g.lines \in [1..m -> RowsOf(n)]
  BY GridFacts DEF RowIndex, Lesser
<1> HIDE DEF k
<1>2. set_continuation(g, r, b) = [g EXCEPT !.lines[k].cont = b]
  BY <1>1 DEF set_continuation
<1>3. [g EXCEPT !.lines[k].cont = b] = [g EXCEPT !.lines = lines]
  OBVIOUS
<1>4. \A i \in 1..m : lines[i].cells = g.lines[i].cells
  <2>1. [g.lines[k] EXCEPT !.cont = b].cells = g.lines[k].cells
    BY <1>1 DEF RowsOf
  <2> QED BY <1>1, <2>1
<1> HIDE DEF lines
<1>5. [g EXCEPT !.lines = lines].lines = lines /\ [g EXCEPT !.lines = lines].sb = g.sb
  BY DEF Grids
<1> QED BY <1>2, <1>3, <1>4, <1>5

(* The functions on one line leave the others alone. *)
LEMMA LineOpsBeside ==
  ASSUME NEW n \in Positive, NEW m \in Positive, NEW g \in Grids(n, m), NEW r \in 0..m-1
  PROVE  /\ \A col, k, bound : /\ Beside(m, g, insert_cells_bounded(g, r, col, k, bound), r + 1)
                               /\ Beside(m, g, delete_cells_bounded(g, r, col, k, bound), r + 1)
         /\ \A col, k : Beside(m, g, erase_chars(g, r, col, k), r + 1)
         /\ \A from, to : /\ Beside(m, g, clear_region(g, r, from, to), r + 1)
                          /\ Beside(m, g, EraseUnprotected(g, r, from, to), r + 1)
<1> DEFINE row == r + 1
<1>1. row \in 1..m
  BY GridFacts
<1>2. Beside(m, g, g, row)
  BY DEF Beside
<1>3. ASSUME NEW f, NEW x, f = g \/ f = [g EXCEPT !.lines[row].cells = x]
      PROVE  Beside(m, g, f, row)
  <2> HIDE DEF row
  <2> QED BY <1>1, <1>2, <1>3, OneLine
<1>4. ASSUME NEW col, NEW k, NEW bound
      PROVE  Beside(m, g, insert_cells_bounded(g, r, col, k, bound), row)
  <2> DEFINE f == insert_cells_bounded(g, r, col, k, bound)
             right_col == Lesser(bound, g.cols)
             q == Lesser(k, right_col - col)
             old == g.lines[row].cells
             x == [i \in DOMAIN old |->
                     IF i <= col \/ i > right_col THEN old[i] ELSE IF i <= col + q THEN Blank ELSE old[i - q]]
  <2>1. f = g \/ f = [g EXCEPT !.lines[row].cells = x]
    BY DEF insert_cells_bounded
  <2> HIDE DEF f, x, row
  <2>2. Beside(m, g, f, row)
    BY <1>3, <2>1
  <2> QED BY <2>2 DEF f
<1>5. ASSUME NEW col, NEW k, NEW bound
      PROVE  Beside(m, g, delete_cells_bounded(g, r, col, k, bound), row)
  <2> DEFINE f == delete_cells_bounded(g, r, col, k, bound)
             right_col == Lesser(bound, g.cols)
             q == Lesser(k, right_col - col)
             old == g.lines[row].cells
             x == [i \in DOMAIN old |->
                     IF i <= col \/ i > right_col THEN old[i]
                     ELSE IF i > right_col - q THEN Blank ELSE old[i + q]]
  <2>1. f = g \/ f = [g EXCEPT !.lines[row].cells = x]
    BY DEF delete_cells_bounded
  <2> HIDE DEF f, x, row
  <2>2. Beside(m, g, f, row)
    BY <1>3, <2>1
  <2> QED BY <2>2 DEF f
<1>6. ASSUME NEW S
      PROVE  Beside(m, g, [g EXCEPT !.lines[row].cells = [i \in DOMAIN @ |-> IF i \in S THEN Blank ELSE @[i]]], row)
  <2> DEFINE f == [g EXCEPT !.lines[row].cells = [i \in DOMAIN @ |-> IF i \in S THEN Blank ELSE @[i]]]
             x == [i \in DOMAIN g.lines[row].cells |-> IF i \in S THEN Blank ELSE g.lines[row].cells[i]]
  <2>1. f = [g EXCEPT !.lines[row].cells = x]
    OBVIOUS
  <2> HIDE DEF f, x, row
  <2>2. Beside(m, g, f, row)
    BY <1>3, <2>1
  <2> QED BY <2>2 DEF f
<1>7. ASSUME NEW col, NEW k
      PROVE  Beside(m, g, erase_chars(g, r, col, k), row)
  <2> DEFINE cells == g.lines[row].cells
             end == Lesser(col + k, g.cols)
             head == IF col > 0 /\ cells[col + 1].w = 0 THEN {col} ELSE {}
             tail == IF end < g.cols /\ end > col /\ cells[end].w = 2 THEN {end + 1} ELSE {}
             S == (col + 1)..end \cup head \cup tail
  <2>1. \/ erase_chars(g, r, col, k) = g
        \/ erase_chars(g, r, col, k)
             = [g EXCEPT !.lines[row].cells = [i \in DOMAIN @ |-> IF i \in S THEN Blank ELSE @[i]]]
    BY DEF erase_chars
  <2> HIDE DEF S, row
  <2> QED BY <1>2, <1>6, <2>1
<1>8. ASSUME NEW from, NEW to
      PROVE  Beside(m, g, clear_region(g, r, from, to), row)
  <2> DEFINE cells == g.lines[row].cells
             right_col == Lesser(to, g.cols - 1)
             head == IF from > 0 /\ from <= right_col /\ cells[from + 1].w = 0 THEN {from} ELSE {}
             tail == IF right_col + 1 < g.cols /\ cells[right_col + 1].w = 2 THEN {right_col + 2} ELSE {}
             S == (from + 1)..(right_col + 1) \cup head \cup tail
  <2>1. clear_region(g, r, from, to)
          = [g EXCEPT !.lines[row].cells = [i \in DOMAIN @ |-> IF i \in S THEN Blank ELSE @[i]]]
    BY DEF clear_region
  <2> HIDE DEF S, row
  <2> QED BY <1>6, <2>1
<1>9. ASSUME NEW from, NEW to
      PROVE  Beside(m, g, EraseUnprotected(g, r, from, to), row)
  <2> DEFINE f == EraseUnprotected(g, r, from, to)
             old == g.lines[row].cells
             x == [i \in DOMAIN old |-> IF from < i /\ i <= to + 1 /\ ~old[i].p THEN Blank ELSE old[i]]
  <2>1. f = [g EXCEPT !.lines[row].cells = x]
    BY DEF EraseUnprotected
  <2> HIDE DEF f, x, row
  <2>2. Beside(m, g, f, row)
    BY <1>3, <2>1
  <2> QED BY <2>2 DEF f
<1> QED BY <1>4, <1>5, <1>7, <1>8, <1>9

(* One after the other. *)
LEMMA DrawnTwice ==
  ASSUME NEW m, NEW s, NEW t, NEW u, Drawn(m, s, t), Drawn(m, t, u)
  PROVE  Drawn(m, s, u)
BY DEF Drawn

(* The same with the history. *)
LEMMA CoveredTwice ==
  ASSUME NEW m, NEW s, NEW t, NEW u, Covered(m, s, t), Covered(m, t, u)
  PROVE  Covered(m, s, u)
BY DrawnTwice DEF Covered

(* Recording damage adds rows of the screen to it and leaves the rest. *)
LEMMA DamageIs ==
  ASSUME NEW n \in Positive, NEW m \in Positive, NEW h, NEW s \in Live(n, m, h), NEW rr
  PROVE  /\ record_damage(s, rr).grid = s.grid
         /\ record_damage(s, rr).damage = s.damage \cup (rr \cap 0..m-1)
<1>1. AllRows(s) = 0..m-1
  BY Bounds DEF AllRows
<1>2. s \in Screens(n, m)
  BY LiveFacts
<1>3. record_damage(s, rr) = [s EXCEPT !.damage = s.damage \cup (rr \cap 0..m-1)]
  BY <1>1 DEF record_damage
<1> DEFINE d == s.damage \cup (rr \cap 0..m-1)
<1> HIDE DEF d
<1>4. [s EXCEPT !.damage = d].grid = s.grid /\ [s EXCEPT !.damage = d].damage = d
  BY <1>2 DEF Screens
<1> QED BY <1>3, <1>4 DEF d

(* Cells written in a line that is damaged. *)
LEMMA LineCovered ==
  ASSUME NEW n \in Positive, NEW m \in Positive, NEW h, NEW s \in Live(n, m, h), NEW r \in 0..m-1,
         NEW t, Beside(m, s.grid, t.grid, r + 1), t.damage = record_damage(s, {r}).damage
  PROVE  Covered(m, s, t)
<1>1. t.damage = s.damage \cup ({r} \cap 0..m-1)
  BY DamageIs
<1>2. r \in t.damage /\ s.damage \subseteq t.damage
  BY <1>1
<1>3. \A i \in 1..m : i = r + 1 => i - 1 = r
  BY DEF Positive
<1> QED BY <1>2, <1>3 DEF Covered, Drawn, Beside

(* Another grid, and the pending wrap forgotten. *)
LEMMA GridIs ==
  ASSUME NEW n \in Positive, NEW m \in Positive, NEW h, NEW s \in Live(n, m, h), NEW g
  PROVE  /\ [s EXCEPT !.grid = g].grid = g /\ [s EXCEPT !.grid = g].damage = s.damage
         /\ Unpend([s EXCEPT !.grid = g]).grid = g /\ Unpend([s EXCEPT !.grid = g]).damage = s.damage
<1>1. s \in Screens(n, m)
  BY LiveFacts
<1> QED BY <1>1 DEF Screens, Unpend

(* Erasing part of a line. *)
LEMMA EraseCellsCovered ==
  ASSUME NEW n \in Positive, NEW m \in Positive, NEW h, NEW s \in Live(n, m, h),
         NEW r \in 0..m-1, NEW from, NEW to, NEW selective
  PROVE  Covered(m, s, EraseCells(s, r, from, to, selective))
<1> DEFINE g == IF selective THEN EraseUnprotected(s.grid, r, from, to)
                ELSE clear_region(s.grid, r, from, to)
           t == record_damage(s, {r})
           u == EraseCells(s, r, from, to, selective)
<1>1. Beside(m, s.grid, g, r + 1)
  BY LiveFacts, LineOpsBeside
<1>2. t \in Live(n, m, h)
  BY DamageKeeps
<1>3. u = [t EXCEPT !.grid = g]
  BY DEF EraseCells, record_damage
<1> HIDE DEF g, u
<1>4. u.grid = g /\ u.damage = t.damage
  <2> HIDE DEF t
  <2> QED BY <1>2, <1>3, GridIs
<1>5. Covered(m, s, u)
  BY <1>1, <1>4, LineCovered
<1> QED BY <1>5 DEF u

(* Erasing whole rows. *)
LEMMA EraseRowsCovered ==
  ASSUME NEW n \in Positive, NEW m \in Positive, NEW h, NEW s \in Live(n, m, h), NEW rr, NEW selective
  PROVE  /\ Covered(m, s, EraseRows(s, rr, selective))
         /\ rr \cap 0..m-1 \subseteq EraseRows(s, rr, selective).damage
<1> DEFINE t == record_damage(s, rr)
           f == [i \in DOMAIN s.grid.lines |->
                   IF i - 1 \notin rr THEN s.grid.lines[i]
                   ELSE IF selective THEN Spared(s.grid.lines[i]) ELSE NewRow(cols(s))]
           g == [s.grid EXCEPT !.lines = f]
           u == EraseRows(s, rr, selective)
<1>1. s.grid \in Grids(n, m) /\ DOMAIN s.grid.lines = 1..m
  BY LiveFacts, GridFacts
<1>2. t \in Live(n, m, h)
  BY DamageKeeps
<1>3. t.grid = s.grid /\ t.damage = s.damage \cup (rr \cap 0..m-1)
  BY DamageIs
<1>4. u = [t EXCEPT !.grid.lines = f]
  BY DEF EraseRows, record_damage
<1>5. \A i \in 1..m : i - 1 \in rr \/ f[i] = s.grid.lines[i]
  BY <1>1
<1> HIDE DEF t, f, u
<1>6. u = [t EXCEPT !.grid = g]
  BY <1>3, <1>4
<1>7. g.sb = s.grid.sb /\ g.lines = f
  BY <1>1 DEF Grids
<1> HIDE DEF g
<1>8. u.grid = g /\ u.damage = s.damage \cup (rr \cap 0..m-1)
  BY <1>2, <1>3, <1>6, GridIs
<1>9. \A i \in 1..m : i - 1 \in 0..m-1
  BY DEF Positive
<1>10. Covered(m, s, u) /\ rr \cap 0..m-1 \subseteq u.damage
  BY <1>5, <1>7, <1>8, <1>9 DEF Covered, Drawn
<1> QED BY <1>10 DEF u

(* ED, EL, DECSED and DECSEL; ED 3 drops the history alone. *)
LEMMA ErasesCovered ==
  ASSUME NEW n \in Positive, NEW m \in Positive, NEW h, NEW s \in Live(n, m, h), NEW selective
  PROVE  /\ \A mode \in {"below", "above", "all"} : Covered(m, s, erase_display(s, mode, selective))
         /\ \A mode \in {"right", "left", "all"} : Covered(m, s, erase_line(s, mode, selective))
         /\ Drawn(m, s, erase_display(s, "scrollback", selective))
<1> DEFINE r == s.cur.row
<1>1. r \in 0..m-1
  BY LiveFacts
<1>2. ASSUME NEW t \in Live(n, m, h), NEW from, NEW to
      PROVE  /\ EraseCells(t, r, from, to, selective) \in Live(n, m, h)
             /\ Covered(m, t, EraseCells(t, r, from, to, selective))
  BY <1>1, EraseCellsKeeps, EraseCellsCovered
<1>3. ASSUME NEW t \in Live(n, m, h), NEW rr
      PROVE  /\ EraseRows(t, rr, selective) \in Live(n, m, h)
             /\ Covered(m, t, EraseRows(t, rr, selective))
  BY EraseRowsKeeps, EraseRowsCovered
<1>4. Covered(m, s, erase_display(s, "below", selective))
  <2> DEFINE t == EraseCells(s, r, s.cur.col, cols(s) - 1, selective)
             u == EraseRows(t, r+1..rows(s)-1, selective)
  <2>1. t \in Live(n, m, h) /\ Covered(m, s, t)
    BY <1>2
  <2>2. erase_display(s, "below", selective) = u
    BY DEF erase_display
  <2> HIDE DEF t
  <2>3. Covered(m, t, u)
    BY <1>3, <2>1
  <2> HIDE DEF u
  <2> QED BY <2>1, <2>2, <2>3, CoveredTwice
<1>5. Covered(m, s, erase_display(s, "above", selective))
  <2> DEFINE t == EraseRows(s, 0..r-1, selective)
             u == EraseCells(t, r, 0, s.cur.col, selective)
  <2>1. t \in Live(n, m, h) /\ Covered(m, s, t)
    BY <1>3
  <2>2. erase_display(s, "above", selective) = u
    BY DEF erase_display
  <2> HIDE DEF t
  <2>3. Covered(m, t, u)
    BY <1>2, <2>1
  <2> HIDE DEF u
  <2> QED BY <2>1, <2>2, <2>3, CoveredTwice
<1>6. Covered(m, s, erase_display(s, "all", selective))
  BY <1>3 DEF erase_display
<1>7. Drawn(m, s, erase_display(s, "scrollback", selective))
  <2> DEFINE g == [s.grid EXCEPT !.sb = <<>>]
             u == erase_display(s, "scrollback", selective)
  <2>1. u = [s EXCEPT !.grid = g]
    BY DEF erase_display
  <2>2. g.lines = s.grid.lines
    BY LiveFacts DEF Grids
  <2> HIDE DEF g, u
  <2>3. u.grid = g /\ u.damage = s.damage
    BY <2>1, GridIs
  <2>4. Drawn(m, s, u)
    BY <2>2, <2>3 DEF Drawn
  <2> QED BY <2>4 DEF u
<1>8. /\ Covered(m, s, erase_line(s, "right", selective))
      /\ Covered(m, s, erase_line(s, "left", selective))
      /\ Covered(m, s, erase_line(s, "all", selective))
  BY <1>2, <1>3 DEF erase_line
<1> QED BY <1>4, <1>5, <1>6, <1>7, <1>8

(* ICH, DCH and ECH. *)
LEMMA EditsCovered ==
  ASSUME NEW n \in Positive, NEW m \in Positive, NEW h, NEW s \in Live(n, m, h), NEW k
  PROVE  /\ Covered(m, s, insert_chars(s, k)) /\ Covered(m, s, delete_chars(s, k))
         /\ Covered(m, s, erase_chars_screen(s, k))
<1> DEFINE r == s.cur.row
           a == insert_cells_bounded(s.grid, r, s.cur.col, k, effective_right(s))
           b == delete_cells_bounded(s.grid, r, s.cur.col, k, effective_right(s))
           c == erase_chars(s.grid, r, s.cur.col, k)
           t == record_damage(s, {r})
<1>1. s.grid \in Grids(n, m) /\ r \in 0..m-1
  BY LiveFacts
<1>2. Beside(m, s.grid, a, r + 1) /\ Beside(m, s.grid, b, r + 1) /\ Beside(m, s.grid, c, r + 1)
  <2> HIDE DEF r
  <2> QED BY <1>1, LineOpsBeside
<1>3. t \in Live(n, m, h)
  BY DamageKeeps
<1>4. /\ insert_chars(s, k) = Unpend([t EXCEPT !.grid = a])
      /\ delete_chars(s, k) = Unpend([t EXCEPT !.grid = b])
      /\ erase_chars_screen(s, k) = Unpend([t EXCEPT !.grid = c])
  BY DEF insert_chars, delete_chars, erase_chars_screen, record_damage, effective_right, cols,
         has_lr_margins
<1> HIDE DEF a, b, c
<1>5. ASSUME NEW g, Beside(m, s.grid, g, r + 1), NEW u, u = Unpend([t EXCEPT !.grid = g])
      PROVE  Covered(m, s, u)
  <2>1. u.grid = g /\ u.damage = t.damage
    <3> HIDE DEF t
    <3> QED BY <1>3, <1>5, GridIs
  <2> QED BY <1>1, <1>5, <2>1, LineCovered
<1> HIDE DEF t, r
<1> QED BY <1>2, <1>4, <1>5

----------------------------------------------------------------------------
(* Settings, and shifts of whole lines *)

(* Neither grid nor damage changed. *)
Quiet(s, t) == t.grid = s.grid /\ t.damage = s.damage

(* What changed neither is drawn and keeps its history. *)
LEMMA QuietCovers ==
  ASSUME NEW m, NEW s, NEW t, Quiet(s, t)
  PROVE  Covered(m, s, t)
BY DEF Quiet, Covered, Drawn

(* Moving the cursor draws nothing. *)
LEMMA AtQuiet ==
  ASSUME NEW n \in Positive, NEW m \in Positive, NEW s \in Screens(n, m), NEW r, NEW c
  PROVE  Quiet(s, At(s, r, c)) /\ Quiet(s, Unpend(s))
BY DEF Quiet, At, Unpend, Screens

(* The functions that move the cursor. *)
LEMMA CursorsQuiet ==
  ASSUME NEW n \in Positive, NEW m \in Positive, NEW s \in Screens(n, m)
  PROVE  /\ Quiet(s, backspace(s)) /\ Quiet(s, carriage_return(s))
         /\ \A k : /\ Quiet(s, tab_forward(s, k)) /\ Quiet(s, tab_backward(s, k))
                   /\ Quiet(s, cursor_up(s, k)) /\ Quiet(s, cursor_down(s, k))
                   /\ Quiet(s, cursor_left(s, k)) /\ Quiet(s, cursor_right(s, k))
         /\ \A r, c : Quiet(s, cursor_position(s, r, c))
<1>1. \A r, c : Quiet(s, At(s, r, c))
  BY AtQuiet
<1>2. Quiet(s, s)
  BY DEF Quiet
<1>3. Quiet(s, backspace(s)) /\ Quiet(s, carriage_return(s))
  BY <1>1, <1>2 DEF backspace, carriage_return
<1>4. ASSUME NEW k
      PROVE  /\ Quiet(s, tab_forward(s, k)) /\ Quiet(s, tab_backward(s, k))
             /\ Quiet(s, cursor_up(s, k)) /\ Quiet(s, cursor_down(s, k))
             /\ Quiet(s, cursor_left(s, k)) /\ Quiet(s, cursor_right(s, k))
  BY <1>1, Zenon DEF tab_forward, tab_backward, cursor_up, cursor_down, cursor_left, cursor_right
<1>5. ASSUME NEW r, NEW c
      PROVE  Quiet(s, cursor_position(s, r, c))
  BY <1>1, Zenon DEF cursor_position
<1> QED BY <1>3, <1>4, <1>5

(* Nor does what sets modes, margins, tab stops and saved cursors. *)
LEMMA SettingsQuiet ==
  ASSUME NEW n \in Positive, NEW m \in Positive, NEW s \in Screens(n, m)
  PROVE  /\ \A low, high : Quiet(s, set_scroll_region(s, low, high)) /\ Quiet(s, set_left_right_margin(s, low, high))
         /\ \A all : Quiet(s, clear_tab_stop(s, all))
         /\ Quiet(s, set_tab_stop(s)) /\ Quiet(s, save_cursor(s)) /\ Quiet(s, restore_cursor(s))
         /\ \A b : Quiet(s, [s EXCEPT !.prot = b])
         /\ \A x, b : Quiet(s, [s EXCEPT !.modes[x] = b])
         /\ \A b : Quiet(s, [s EXCEPT !.modes.margins = b, !.left = 0, !.right = cols(s)])
         /\ Quiet(s, save_dec_modes(s)) /\ Quiet(s, restore_dec_modes(s)) /\ Quiet(s, soft_reset(s))
<1>1. ASSUME NEW low, NEW high
      PROVE  Quiet(s, set_scroll_region(s, low, high)) /\ Quiet(s, set_left_right_margin(s, low, high))
  <2>1. \A t, b : Quiet(s, [s EXCEPT !.top = t, !.bottom = b]) /\ Quiet(s, [s EXCEPT !.left = t, !.right = b])
    BY DEF Quiet, Screens
  <2>2. Quiet(s, s)
    BY DEF Quiet
  <2>3. ASSUME NEW t, NEW b, NEW u, u \in {s, [s EXCEPT !.top = t, !.bottom = b], [s EXCEPT !.left = t, !.right = b]}
        PROVE  Quiet(s, GoHome(u))
    BY <2>3 DEF Quiet, Screens, GoHome, At
  <2> QED BY <2>2, <2>3 DEF set_scroll_region, set_left_right_margin
<1>2. \A all : Quiet(s, clear_tab_stop(s, all))
  BY DEF Quiet, Screens, clear_tab_stop
<1>3. Quiet(s, set_tab_stop(s)) /\ Quiet(s, save_cursor(s))
  BY DEF Quiet, Screens, set_tab_stop, save_cursor
<1>4. Quiet(s, restore_cursor(s))
  <2>1. ASSUME NEW r, NEW c, NEW x, NEW y, NEW z
        PROVE  /\ Quiet(s, [At(s, r, c) EXCEPT !.prot = x])
               /\ Quiet(s, [At(s, r, c) EXCEPT !.modes.origin = x, !.pending = y, !.prot = z])
    BY DEF Quiet, Screens, At
  <2> QED BY <2>1, Zenon DEF restore_cursor
<1>5. ASSUME NEW b
      PROVE  Quiet(s, [s EXCEPT !.prot = b]) /\ Quiet(s, [s EXCEPT !.modes.margins = b, !.left = 0, !.right = cols(s)])
  BY DEF Quiet, Screens
<1>6. ASSUME NEW x, NEW b
      PROVE  Quiet(s, [s EXCEPT !.modes[x] = b])
  BY DEF Quiet, Screens
<1>7. Quiet(s, save_dec_modes(s)) /\ Quiet(s, restore_dec_modes(s))
  BY DEF Quiet, Screens, save_dec_modes, restore_dec_modes
<1>8. Quiet(s, soft_reset(s))
  BY DEF Quiet, Screens, soft_reset
<1> QED BY <1>1, <1>2, <1>3, <1>4, <1>5, <1>6, <1>7, <1>8

(* What moves lines down or takes them out puts none in the history, *)
LEMMA ShiftsKeepHistory ==
  ASSUME NEW n \in Positive, NEW m \in Positive, NEW g \in Grids(n, m)
  PROVE  /\ \A from, to, mid : Splice(g, from, to, mid).sb = g.sb
         /\ \A top, bottom, k : ShiftUp(g, top, bottom, k).sb = g.sb /\ scroll_down(g, top, bottom, k).sb = g.sb
         /\ \A top, bottom, low, high, k : /\ scroll_up_region(g, top, bottom, low, high, k).sb = g.sb
                                           /\ scroll_down_region(g, top, bottom, low, high, k).sb = g.sb
         /\ \A r, k, top, bottom : /\ insert_lines(g, r, k, top, bottom).sb = g.sb
                                   /\ delete_lines(g, r, k, top, bottom).sb = g.sb
<1>1. \A lines : [g EXCEPT !.lines = lines].sb = g.sb
  BY DEF Grids
<1>2. \A from, to, mid : Splice(g, from, to, mid).sb = g.sb
  BY <1>1, Zenon DEF Splice
<1>3. \A top, bottom, k : ShiftUp(g, top, bottom, k).sb = g.sb
  BY <1>2, Zenon DEF ShiftUp
<1>4. \A top, bottom, k : scroll_down(g, top, bottom, k).sb = g.sb
  BY <1>2, Zenon DEF scroll_down
<1>5. \A top, bottom, low, high, k : MoveCells(g, top, bottom, low, high, k).sb = g.sb
  BY <1>1, Zenon DEF MoveCells
<1>6. \A top, bottom, low, high, k : scroll_up_region(g, top, bottom, low, high, k).sb = g.sb
  BY <1>5, Zenon DEF scroll_up_region
<1>7. \A top, bottom, low, high, k : scroll_down_region(g, top, bottom, low, high, k).sb = g.sb
  BY <1>5, Zenon DEF scroll_down_region
<1>8. \A r, k, top, bottom : insert_lines(g, r, k, top, bottom).sb = g.sb
  BY <1>4, Zenon DEF insert_lines
<1>9. \A r, k, top, bottom : delete_lines(g, r, k, top, bottom).sb = g.sb
  BY <1>3, Zenon DEF delete_lines
<1> QED BY <1>2, <1>3, <1>4, <1>6, <1>7, <1>8, <1>9

(* and so it is for the screen. *)
SameHistory(s, t) == t.grid.sb = s.grid.sb

(* Whatever else a function sets, another grid with the same history keeps it. *)
LEMMA GridHistory ==
  ASSUME NEW n \in Positive, NEW m \in Positive, NEW s \in Screens(n, m), NEW g, g.sb = s.grid.sb
  PROVE  /\ SameHistory(s, [s EXCEPT !.grid = g]) /\ SameHistory(s, Unpend([s EXCEPT !.grid = g]))
         /\ \A r, c : SameHistory(s, At([s EXCEPT !.grid = g], r, c))
         /\ \A rr : SameHistory(s, record_damage([s EXCEPT !.grid = g], rr))
         /\ \A r, c : SameHistory(s, At([[s EXCEPT !.grid = g] EXCEPT !.top = r, !.bottom = c], 0, 0))
<1> DEFINE t == [s EXCEPT !.grid = g]
<1>1. t.grid.sb = s.grid.sb /\ Unpend(t).grid.sb = s.grid.sb
  BY DEF Screens, Unpend
<1>2. \A r, c : At(t, r, c).grid.sb = s.grid.sb
  BY DEF Screens, At
<1>3. \A rr : record_damage(t, rr).grid.sb = s.grid.sb
  BY DEF Screens, record_damage
<1>4. \A r, c : At([t EXCEPT !.top = r, !.bottom = c], 0, 0).grid.sb = s.grid.sb
  BY DEF Screens, At
<1> HIDE DEF t
<1>5. /\ SameHistory(s, t) /\ SameHistory(s, Unpend(t))
      /\ \A r, c : SameHistory(s, At(t, r, c))
      /\ \A rr : SameHistory(s, record_damage(t, rr))
      /\ \A r, c : SameHistory(s, At([t EXCEPT !.top = r, !.bottom = c], 0, 0))
  BY <1>1, <1>2, <1>3, <1>4 DEF SameHistory
<1> QED BY <1>5 DEF t

(* Rewriting the cells of the screen is putting such a grid. *)
LEMMA CellsHistory ==
  ASSUME NEW n \in Positive, NEW m \in Positive, NEW s \in Screens(n, m), s.grid \in Grids(n, m), NEW cells
  PROVE  \E g : WithCells(s, cells) = [s EXCEPT !.grid = g] /\ g.sb = s.grid.sb
<1> DEFINE lines == [i \in DOMAIN s.grid.lines |-> [s.grid.lines[i] EXCEPT !.cells = cells[i]]]
           g == [s.grid EXCEPT !.lines = lines]
<1>1. WithCells(s, cells) = [s EXCEPT !.grid.lines = lines]
  BY DEF WithCells
<1> HIDE DEF lines
<1>2. [s EXCEPT !.grid.lines = lines] = [s EXCEPT !.grid = g]
  OBVIOUS
<1>3. g.sb = s.grid.sb
  BY DEF Grids
<1> HIDE DEF g
<1> QED BY <1>1, <1>2, <1>3

(* The functions of the screen that shift or rewrite lines keep the history. *)
LEMMA ShiftsOfScreen ==
  ASSUME NEW n \in Positive, NEW m \in Positive, NEW h, NEW s \in Live(n, m, h)
  PROVE  /\ \A k : /\ SameHistory(s, insert_lines_screen(s, k)) /\ SameHistory(s, delete_lines_screen(s, k))
                   /\ SameHistory(s, scroll_down_screen(s, k))
         /\ SameHistory(s, reverse_index(s)) /\ SameHistory(s, decaln(s))
         /\ \A cells : SameHistory(s, WithCells(s, cells))
<1>1. s \in Screens(n, m) /\ s.grid \in Grids(n, m)
  BY LiveFacts
<1>2. ASSUME NEW k
      PROVE  SameHistory(s, insert_lines_screen(s, k)) /\ SameHistory(s, delete_lines_screen(s, k))
  <2> DEFINE a == IF InRegion(s) THEN insert_lines(s.grid, s.cur.row, k, s.top, s.bottom) ELSE s.grid
             b == IF InRegion(s) THEN delete_lines(s.grid, s.cur.row, k, s.top, s.bottom) ELSE s.grid
  <2>1. a.sb = s.grid.sb /\ b.sb = s.grid.sb
    BY <1>1, ShiftsKeepHistory
  <2>2. /\ insert_lines_screen(s, k) = At([s EXCEPT !.grid = a], s.cur.row, 0)
        /\ delete_lines_screen(s, k) = At([s EXCEPT !.grid = b], s.cur.row, 0)
    BY DEF insert_lines_screen, delete_lines_screen
  <2> HIDE DEF a, b
  <2>3. /\ SameHistory(s, At([s EXCEPT !.grid = a], s.cur.row, 0))
        /\ SameHistory(s, At([s EXCEPT !.grid = b], s.cur.row, 0))
    BY <1>1, <2>1, GridHistory
  <2> QED BY <2>2, <2>3
<1>3. ASSUME NEW k
      PROVE  SameHistory(s, scroll_down_screen(s, k))
  <2> DEFINE g == IF has_lr_margins(s) THEN scroll_down_region(s.grid, s.top, s.bottom, s.left, s.right, k)
                  ELSE scroll_down(s.grid, s.top, s.bottom, k)
  <2>1. g.sb = s.grid.sb
    BY <1>1, ShiftsKeepHistory
  <2>2. scroll_down_screen(s, k) = record_damage([s EXCEPT !.grid = g], s.top..s.bottom-1)
    BY DEF scroll_down_screen
  <2> HIDE DEF g
  <2>3. \A rr : SameHistory(s, record_damage([s EXCEPT !.grid = g], rr))
    BY <1>1, <2>1, GridHistory
  <2> QED BY <2>2, <2>3, Zenon
<1>4. SameHistory(s, reverse_index(s))
  <2> DEFINE g == IF has_lr_margins(s) /\ cursor_in_lr_margins(s)
                  THEN scroll_down_region(s.grid, s.top, s.bottom, s.left, s.right, 1)
                  ELSE scroll_down(s.grid, s.top, s.bottom, 1)
             a == [s EXCEPT !.grid = g]
             b == [s EXCEPT !.cur.row = Greater(@ - 1, 0)]
  <2>1. g.sb = s.grid.sb
    BY <1>1, ShiftsKeepHistory
  <2>2. reverse_index(s) = Unpend(IF s.cur.row = s.top THEN a ELSE b)
    BY DEF reverse_index
  <2> HIDE DEF g
  <2>3. SameHistory(s, Unpend(a))
    BY <1>1, <2>1, GridHistory
  <2>4. SameHistory(s, Unpend(b))
    <3> DEFINE r == Greater(s.cur.row - 1, 0)
    <3>1. \A x : Unpend([s EXCEPT !.cur.row = x]).grid = s.grid
      BY <1>1 DEF Screens, Unpend
    <3> HIDE DEF r
    <3>2. b = [s EXCEPT !.cur.row = r]
      BY DEF r
    <3> HIDE DEF b
    <3> QED BY <3>1, <3>2 DEF SameHistory
  <2> HIDE DEF a, b
  <2> QED BY <2>2, <2>3, <2>4
<1>5. ASSUME NEW cells
      PROVE  SameHistory(s, WithCells(s, cells))
  <2>1. PICK g : WithCells(s, cells) = [s EXCEPT !.grid = g] /\ g.sb = s.grid.sb
    BY <1>1, CellsHistory
  <2>2. SameHistory(s, [s EXCEPT !.grid = g])
    BY <1>1, <2>1, GridHistory
  <2> QED BY <2>1, <2>2
<1>6. SameHistory(s, decaln(s))
  <2> DEFINE cells == [i \in 1..rows(s) |-> [c \in 1..cols(s) |-> Cell("E", 1, FALSE)]]
             low == rows(s)
  <2>1. decaln(s) = At([WithCells(s, cells) EXCEPT !.top = 0, !.bottom = low], 0, 0)
    BY DEF decaln
  <2> HIDE DEF cells, low
  <2>2. PICK g : WithCells(s, cells) = [s EXCEPT !.grid = g] /\ g.sb = s.grid.sb
    BY <1>1, CellsHistory
  <2>3. SameHistory(s, At([[s EXCEPT !.grid = g] EXCEPT !.top = 0, !.bottom = low], 0, 0))
    BY <1>1, <2>2, GridHistory
  <2> QED BY <2>1, <2>2, <2>3
<1> QED BY <1>2, <1>3, <1>4, <1>5, <1>6

----------------------------------------------------------------------------
(* Scrolling up: what the history gains *)

(* Where the lines stand after a part of them was replaced. *)
Spliced(f, g, from, to, m, mid) ==
  /\ \A i \in 1..from : f.lines[i] = g.lines[i]
  /\ \A i \in 1..(to - from) : f.lines[from + i] = mid[i]
  /\ \A i \in (to + 1)..m : f.lines[i] = g.lines[i]

(* Splice does that. *)
LEMMA SpliceIs ==
  ASSUME NEW n \in Positive, NEW m \in Positive, NEW g \in Grids(n, m),
         NEW from \in 0..m, NEW to \in from..m,
         NEW mid \in Seq(RowsOf(n)), Len(mid) = to - from
  PROVE  Spliced(Splice(g, from, to, mid), g, from, to, m, mid)
<1> DEFINE a == SubSeq(g.lines, 1, from)
           b == SubSeq(g.lines, to + 1, m)
           lines == (a \o mid) \o b
           f == [g EXCEPT !.lines = lines]
<1>1. /\ g.lines \in Seq(RowsOf(n)) /\ Len(g.lines) = m /\ m \in Nat /\ from \in Nat /\ to \in Nat
      /\ 0 <= from /\ from <= to /\ to <= m /\ Rows(g) = m
  BY GridFacts
<1>2. Splice(g, from, to, mid) = f
  BY <1>1 DEF Splice
<1>3. a \in Seq(RowsOf(n)) /\ Piece(a, g.lines, 0, from)
  <2>1. /\ SubSeq(g.lines, 0 + 1, from) \in Seq(RowsOf(n))
        /\ Piece(SubSeq(g.lines, 0 + 1, from), g.lines, 0, from - 0)
    BY <1>1, PieceIs
  <2>2. 0 + 1 = 1 /\ from - 0 = from
    BY <1>1
  <2> QED BY <2>1, <2>2
<1>4. b \in Seq(RowsOf(n)) /\ Piece(b, g.lines, to, m - to)
  BY <1>1, PieceIs
<1> DEFINE y == to - from
           z == m - to
<1>5. y \in Nat /\ z \in Nat /\ Len(mid) = y
  BY <1>1
<1>6. Len(a) = from /\ \A i \in 1..from : a[i] = g.lines[i]
  BY <1>1, <1>3 DEF Piece
<1>7. Len(b) = z /\ \A i \in 1..z : b[i] = g.lines[to + i]
  BY <1>4 DEF Piece
<1> HIDE DEF a, b, y, z
<1>8. Joins(lines, a, from, mid, y, b, z)
  BY <1>1, <1>3, <1>4, <1>5, <1>6, <1>7, JoinedIs
<1> HIDE DEF lines
<1>9. f.lines = lines
  BY DEF Grids
<1> HIDE DEF f
<1>10. \A i \in 1..from : lines[i] = g.lines[i]
  BY <1>6, <1>8 DEF Joins
<1>11. \A i \in 1..(to - from) : lines[from + i] = mid[i]
  BY <1>8 DEF Joins, y
<1>12. ASSUME NEW i \in (to + 1)..m
       PROVE  lines[i] = g.lines[i]
  <2>1. i - to \in 1..z /\ from + y + (i - to) = i /\ to + (i - to) = i
    BY <1>1 DEF y, z
  <2>2. lines[from + y + (i - to)] = b[i - to]
    BY <1>8, <2>1 DEF Joins
  <2> QED BY <1>7, <2>1, <2>2
<1>13. Spliced(f, g, from, to, m, mid)
  BY <1>9, <1>10, <1>11, <1>12 DEF Spliced
<1> QED BY <1>2, <1>13

(* A region moved up by k: its last k lines are new, the rest come from below, *)
(* the lines outside stay.                                                     *)
Lifted(f, g, top, bottom, m, k) ==
  /\ \A i \in 1..m : i <= top \/ i > bottom => f.lines[i] = g.lines[i]
  /\ \A i \in (top + 1)..(bottom - k) : f.lines[i] = g.lines[i + k]

(* ShiftUp moves its region up. *)
LEMMA ShiftUpIs ==
  ASSUME NEW n \in Positive, NEW m \in Positive, NEW g \in Grids(n, m),
         NEW top \in 0..m, NEW bottom \in 0..m, top < bottom, NEW count \in Nat
  PROVE  Lifted(ShiftUp(g, top, bottom, count), g, top, bottom, m, Lesser(count, bottom - top))
<1> DEFINE k == Lesser(count, bottom - top)
           f == ShiftUp(g, top, bottom, count)
           a == Region(g, top + k, bottom)
           b == BlankRows(g, k)
           mid == a \o b
<1>1. /\ k \in Nat /\ top + k \in 0..m /\ top + k <= bottom /\ bottom \in top..m
      /\ top \in Nat /\ bottom \in Nat /\ m \in Nat /\ k <= bottom - top
  BY GridFacts DEF Lesser
<1>2. f = Splice(g, top, bottom, mid)
  BY DEF ShiftUp
<1> HIDE DEF k, f
<1>3. /\ a \in Seq(RowsOf(n)) /\ Len(a) = bottom - (top + k)
      /\ \A i \in 1..(bottom - (top + k)) : a[i] = g.lines[(top + k) + i]
  <2> DEFINE from == top + k
  <2>1. from \in Nat /\ from <= bottom /\ bottom <= Len(g.lines) /\ g.lines \in Seq(RowsOf(n))
    <3>1. g.lines \in Seq(RowsOf(n)) /\ Len(g.lines) = m
      BY GridFacts
    <3> QED BY <1>1, <3>1
  <2> HIDE DEF from
  <2>2. Piece(SubSeq(g.lines, from + 1, bottom), g.lines, from, bottom - from)
    BY <1>1, <2>1, PieceIs
  <2>3. SubSeq(g.lines, from + 1, bottom) \in Seq(RowsOf(n))
    BY <1>1, <2>1, PieceIs
  <2> QED BY <2>2, <2>3 DEF Piece, Region, from
<1>4. b \in Seq(RowsOf(n)) /\ Len(b) = k
  BY <1>1, BlankRowsAre
<1> HIDE DEF a, b
<1> DEFINE x == bottom - (top + k)
<1>5. x \in Nat /\ x + k = bottom - top /\ x = bottom - k - top
  BY <1>1
<1>6. Len(a) = x /\ \A i \in 1..x : a[i] = g.lines[(top + k) + i]
  BY <1>3
<1> HIDE DEF x
<1>7. mid \in Seq(RowsOf(n)) /\ Follows(mid, a, x, b, k)
  BY <1>1, <1>3, <1>4, <1>5, <1>6, FollowsIs
<1> HIDE DEF mid
<1>8. Len(mid) = bottom - top /\ \A i \in 1..x : mid[i] = a[i]
  BY <1>5, <1>7 DEF Follows
<1>9. Spliced(f, g, top, bottom, m, mid)
  BY <1>1, <1>2, <1>7, <1>8, SpliceIs
<1>10. ASSUME NEW i \in 1..m, i <= top \/ i > bottom
       PROVE  f.lines[i] = g.lines[i]
  <2>1. i \in 1..top \/ i \in (bottom + 1)..m
    BY <1>1, <1>10
  <2> QED BY <1>9, <2>1 DEF Spliced
<1>11. ASSUME NEW i \in (top + 1)..(bottom - k)
       PROVE  f.lines[i] = g.lines[i + k]
  <2> DEFINE j == i - top
  <2>1. /\ j \in 1..x /\ j \in 1..(bottom - top) /\ top + j = i /\ (top + k) + j = i + k
    BY <1>1, <1>5
  <2> HIDE DEF j
  <2> QED BY <1>6, <1>8, <1>9, <2>1 DEF Spliced
<1>12. Lifted(f, g, top, bottom, m, k)
  BY <1>10, <1>11 DEF Lifted
<1> QED BY <1>12 DEF f, k

(* The i-th row of a grid, the history first.  f's history is g's and the k    *)
(* rows from the top of its lines, the newest of them.                         *)
RowAt(g, i) == IF i <= Len(g.sb) THEN g.sb[i] ELSE g.lines[i - Len(g.sb)]

Extended(g, f, k) ==
  /\ Len(f.sb) = Lesser(Len(g.sb) + k, ScrollbackLimit)
  /\ \A i \in 1..Len(f.sb) : f.sb[i].cells = RowAt(g, ((Len(g.sb) + k) - Len(f.sb)) + i).cells

(* Pushing the rows does that. *)
LEMMA TrimExtends ==
  ASSUME NEW n \in Positive, NEW m \in Positive, NEW g \in Grids(n, m), NEW k \in 0..m,
         NEW f, f.sb = Trim(g.sb \o SubSeq(g.lines, 1, k))
  PROVE  Extended(g, f, k) /\ f.sb \in Seq(RowsOf(n)) /\ Len(f.sb) \in Nat
<1> DEFINE h == Len(g.sb)
           off == SubSeq(g.lines, 1, k)
           q == g.sb \o off
           x == Lesser(h + k, ScrollbackLimit)
<1>1. /\ g.lines \in Seq(RowsOf(n)) /\ Len(g.lines) = m /\ m \in Nat /\ k \in Nat /\ 0 <= k /\ k <= m
      /\ g.sb \in Seq(RowsOf(n)) /\ h \in Nat
  BY GridFacts
<1>2. off \in Seq(RowsOf(n)) /\ Len(off) = k /\ \A i \in 1..k : off[i] = g.lines[i]
  <2>1. /\ SubSeq(g.lines, 0 + 1, k) \in Seq(RowsOf(n))
        /\ Piece(SubSeq(g.lines, 0 + 1, k), g.lines, 0, k - 0)
    BY <1>1, PieceIs
  <2>2. 0 + 1 = 1 /\ k - 0 = k
    BY <1>1
  <2> QED BY <1>1, <2>1, <2>2 DEF Piece
<1> HIDE DEF off
<1>3. q \in Seq(RowsOf(n)) /\ Follows(q, g.sb, h, off, k)
  BY <1>1, <1>2, FollowsIs
<1>4. Len(q) = h + k
  BY <1>3 DEF Follows
<1> HIDE DEF q
<1>5. f.sb \in Seq(RowsOf(n)) /\ Piece(f.sb, q, (h + k) - x, x)
  <2>1. f.sb = Trim(q)
    BY DEF q, off
  <2>2. Trim(q) \in Seq(RowsOf(n)) /\ Piece(Trim(q), q, Len(q) - Lesser(Len(q), ScrollbackLimit), Lesser(Len(q), ScrollbackLimit))
    BY <1>3, TrimIs
  <2>3. Lesser(Len(q), ScrollbackLimit) = x
    BY <1>4
  <2> HIDE DEF x, h
  <2> QED BY <1>4, <2>1, <2>2, <2>3, Zenon
<1>6. x \in Nat /\ x <= h + k /\ (h + k) - x \in Nat
  BY <1>1, LimitAssumption DEF Lesser
<1>7. Len(f.sb) = x /\ \A i \in 1..x : f.sb[i] = q[((h + k) - x) + i]
  BY <1>5 DEF Piece
<1>8. ASSUME NEW j \in 1..(h + k)
      PROVE  q[j] = RowAt(g, j)
  <2>1. CASE j <= h
    <3>1. j \in 1..h
      BY <1>1, <2>1
    <3> QED BY <1>3, <2>1, <3>1 DEF Follows, RowAt
  <2>2. CASE ~(j <= h)
    <3> DEFINE i == j - h
    <3>1. i \in 1..k /\ h + i = j
      BY <1>1, <2>2
    <3>2. q[h + i] = off[i]
      <4> HIDE DEF i
      <4> QED BY <1>3, <3>1 DEF Follows
    <3> QED BY <1>2, <2>2, <3>1, <3>2 DEF RowAt
  <2> QED BY <2>1, <2>2
<1> HIDE DEF x
<1>9. \A i \in 1..x : ((h + k) - x) + i \in 1..(h + k)
  BY <1>1, <1>6
<1>10. \A i \in 1..x : f.sb[i].cells = RowAt(g, ((h + k) - x) + i).cells
  BY <1>7, <1>8, <1>9
<1> HIDE DEF h
<1> QED BY <1>5, <1>6, <1>7, <1>10 DEF Extended, h, x

(* Scrolling up pushes rows only from the top of the screen. *)
LEMMA scroll_upIs ==
  ASSUME NEW n \in Positive, NEW m \in Positive, NEW g \in Grids(n, m),
         NEW top \in 0..m, NEW bottom \in 0..m, top < bottom, NEW count \in Positive
  PROVE  LET f == scroll_up(g, top, bottom, count)
         IN  /\ Lifted(f, g, top, bottom, m, Lesser(count, bottom - top))
             /\ top # 0 => f.sb = g.sb
             /\ top = 0 => Extended(g, f, Lesser(count, bottom))
<1> DEFINE f == scroll_up(g, top, bottom, count)
           e == ShiftUp(g, top, bottom, count)
           k == Lesser(count, bottom)
           off == Region(g, 0, k)
           q == IF top # 0 \/ off = <<>> THEN e.sb ELSE Trim(e.sb \o off)
<1>1. e \in Grids(n, m) /\ Lifted(e, g, top, bottom, m, Lesser(count, bottom - top))
  <2>1. count \in Nat
    BY DEF Positive
  <2> QED BY <2>1, ShiftUpKeeps, ShiftUpIs
<1>2. e.sb = g.sb
  BY ShiftsKeepHistory
<1>3. f = [e EXCEPT !.sb = q]
  BY GridFacts DEF scroll_up
<1>4. k \in 0..m /\ k \in 1..m
  BY GridFacts DEF Lesser, Positive
<1>5. off = SubSeq(g.lines, 1, k)
  BY DEF Region
<1>6. off # <<>>
  <2>1. Len(off) = k
    <3>1. 0 \in 0..m /\ k \in Nat /\ 0 <= k /\ k - 0 = k
      BY <1>4, GridFacts
    <3> HIDE DEF k
    <3> QED BY <1>4, <3>1, RegionIs
  <2> HIDE DEF off, k
  <2> QED BY <1>4, <2>1
<1> HIDE DEF e, k, off
<1>7. f.lines = e.lines /\ f.sb = q
  <2> HIDE DEF f, q
  <2> QED BY <1>1, <1>3 DEF Grids
<1> HIDE DEF f
<1>8. Lifted(f, g, top, bottom, m, Lesser(count, bottom - top))
  BY <1>1, <1>7 DEF Lifted
<1>9. top # 0 => f.sb = g.sb
  BY <1>2, <1>7
<1>10. top = 0 => Extended(g, f, k)
  <2> HAVE top = 0
  <2>1. f.sb = Trim(g.sb \o SubSeq(g.lines, 1, k))
    BY <1>2, <1>5, <1>6, <1>7
  <2> QED BY <1>4, <2>1, TrimExtends
<1> QED BY <1>8, <1>9, <1>10 DEF f, k

(* No kind of scrolling touches a line outside its region. *)
Outside(f, g, top, bottom, m) ==
  \A i \in 1..m : i <= top \/ i > bottom => f.lines[i].cells = g.lines[i].cells

(* The four that scroll. *)
LEMMA ScrollsOutside ==
  ASSUME NEW n \in Positive, NEW m \in Positive, NEW g \in Grids(n, m),
         NEW top \in 0..m, NEW bottom \in 0..m, top < bottom, NEW low, NEW high, NEW count \in Positive
  PROVE  /\ Outside(scroll_up(g, top, bottom, count), g, top, bottom, m)
         /\ Outside(scroll_down(g, top, bottom, count), g, top, bottom, m)
         /\ Outside(scroll_up_region(g, top, bottom, low, high, count), g, top, bottom, m)
         /\ Outside(scroll_down_region(g, top, bottom, low, high, count), g, top, bottom, m)
<1>1. Outside(scroll_up(g, top, bottom, count), g, top, bottom, m)
  <2>1. Lifted(scroll_up(g, top, bottom, count), g, top, bottom, m, Lesser(count, bottom - top))
    BY scroll_upIs
  <2> QED BY <2>1 DEF Lifted, Outside
<1>2. Outside(scroll_down(g, top, bottom, count), g, top, bottom, m)
  <2> DEFINE k == Lesser(count, bottom - top)
             a == BlankRows(g, k)
             b == Region(g, top, bottom - k)
             mid == a \o b
             f == scroll_down(g, top, bottom, count)
  <2>1. k \in Nat /\ bottom - k \in 0..m /\ top <= bottom - k /\ bottom \in top..m /\ top \in 0..m
    BY GridFacts DEF Lesser, Positive
  <2>2. f = Splice(g, top, bottom, mid)
    BY GridFacts DEF scroll_down
  <2> HIDE DEF k, f
  <2>3. a \in Seq(RowsOf(n)) /\ Len(a) = k
    BY <2>1, BlankRowsAre
  <2>4. b \in Seq(RowsOf(n)) /\ Len(b) = (bottom - k) - top
    BY <2>1, RegionIs
  <2> HIDE DEF a, b
  <2>5. k + ((bottom - k) - top) = bottom - top
    BY <2>1
  <2>6. mid \in Seq(RowsOf(n)) /\ Len(mid) = bottom - top
    <3>1. mid \in Seq(RowsOf(n)) /\ Len(mid) = Len(a) + Len(b)
      BY <2>3, <2>4, ConcatProperties
    <3> QED BY <2>3, <2>4, <2>5, <3>1
  <2> HIDE DEF mid
  <2>7. Spliced(f, g, top, bottom, m, mid)
    BY <2>1, <2>2, <2>6, SpliceIs
  <2>8. ASSUME NEW i \in 1..m, i <= top \/ i > bottom
        PROVE  f.lines[i] = g.lines[i]
    <3>1. i \in 1..top \/ i \in (bottom + 1)..m
      BY <2>8
    <3> QED BY <2>7, <3>1 DEF Spliced
  <2> QED BY <2>8 DEF Outside, f
<1>3. ASSUME NEW k
      PROVE  Outside(MoveCells(g, top, bottom, low, high, k), g, top, bottom, m)
  <2> DEFINE lines == [i \in DOMAIN g.lines |->
                         IF top < i /\ i <= bottom
                         THEN [g.lines[i] EXCEPT !.cells = MovedCells(g, i, top, bottom, low, high, k)]
                         ELSE g.lines[i]]
  <2>1. MoveCells(g, top, bottom, low, high, k) = [g EXCEPT !.lines = lines]
    BY DEF MoveCells
  <2>2. \A i \in 1..m : i <= top \/ i > bottom => lines[i] = g.lines[i]
    BY GridFacts
  <2> HIDE DEF lines
  <2>3. [g EXCEPT !.lines = lines].lines = lines
    BY DEF Grids
  <2> QED BY <2>1, <2>2, <2>3 DEF Outside
<1>4. Outside(g, g, top, bottom, m)
  BY DEF Outside
<1> QED BY <1>1, <1>2, <1>3, <1>4 DEF scroll_up_region, scroll_down_region

(* Rows pushed in two goes, the second of one row that stands where it would   *)
(* have stood before the first.                                                *)
LEMMA ExtendedTwice ==
  ASSUME NEW n \in Positive, NEW m \in Positive, NEW g \in Grids(n, m), NEW f \in Grids(n, m), NEW e,
         NEW j \in Nat, Extended(g, f, j), Extended(f, e, 1), f.lines[1].cells = g.lines[j + 1].cells
  PROVE  Extended(g, e, j + 1)
<1> DEFINE h == Len(g.sb)
           x == Len(f.sb)
           y == Len(e.sb)
<1>1. h \in Nat /\ x = Lesser(h + j, ScrollbackLimit) /\ y = Lesser(x + 1, ScrollbackLimit)
  BY GridFacts DEF Extended
<1> HIDE DEF h, x, y
<1>2. y = Lesser(h + (j + 1), ScrollbackLimit) /\ x \in Nat /\ y \in Nat /\ x <= h + j /\ y <= x + 1
  BY <1>1, LimitAssumption DEF Lesser
<1>3. ASSUME NEW i \in 1..y
      PROVE  e.sb[i].cells = RowAt(g, ((h + (j + 1)) - y) + i).cells
  <2> DEFINE k == ((x + 1) - y) + i
  <2>1. e.sb[i].cells = RowAt(f, k).cells
    BY <1>3 DEF Extended, x, y
  <2>2. k \in 1..(x + 1) /\ ((h + (j + 1)) - y) + i = ((h + j) - x) + k
    BY <1>1, <1>2
  <2>3. CASE k <= x
    <3>1. k \in 1..x /\ RowAt(f, k) = f.sb[k]
      BY <1>2, <2>2, <2>3 DEF RowAt, x
    <3>2. f.sb[k].cells = RowAt(g, ((h + j) - x) + k).cells
      <4> HIDE DEF k
      <4> QED BY <3>1 DEF Extended, h, x
    <3> QED BY <2>1, <2>2, <3>1, <3>2
  <2>4. CASE ~(k <= x)
    <3>1. k - x = 1 /\ ((h + j) - x) + k = h + (j + 1) /\ ~(h + (j + 1) <= h) /\ (h + (j + 1)) - h = j + 1
      BY <1>1, <1>2, <2>2, <2>4
    <3>2. RowAt(f, k) = f.lines[1]
      BY <2>4, <3>1 DEF RowAt, x
    <3>3. RowAt(g, h + (j + 1)) = g.lines[j + 1]
      BY <3>1 DEF RowAt, h
    <3> QED BY <2>1, <2>2, <3>1, <3>2, <3>3
  <2> QED BY <2>3, <2>4
<1> QED BY <1>2, <1>3 DEF Extended, h, y, x

(* The same text as if the rows had been pushed. *)
LEMMA ExtendedText ==
  ASSUME NEW n \in Positive, NEW m \in Positive, NEW g \in Grids(n, m), NEW f \in Grids(n, m),
         NEW k \in 0..m, Extended(g, f, k)
  PROVE  Text(f.sb) = Text(Trim(g.sb \o SubSeq(g.lines, 1, k)))
<1> DEFINE e == [sb |-> Trim(g.sb \o SubSeq(g.lines, 1, k))]
<1>1. Extended(g, e, k) /\ e.sb \in Seq(RowsOf(n)) /\ Len(e.sb) \in Nat
  <2>1. e.sb = Trim(g.sb \o SubSeq(g.lines, 1, k))
    OBVIOUS
  <2> HIDE DEF e
  <2> QED BY <2>1, TrimExtends
<1>2. e.sb = Trim(g.sb \o SubSeq(g.lines, 1, k))
  OBVIOUS
<1> HIDE DEF e
<1>3. Len(e.sb) = Len(f.sb) /\ \A i \in 1..Len(f.sb) : f.sb[i].cells = e.sb[i].cells
  BY <1>1 DEF Extended
<1>4. DOMAIN e.sb = 1..Len(e.sb) /\ DOMAIN f.sb = 1..Len(f.sb)
  <2>1. f.sb \in Seq(RowsOf(n))
    BY GridFacts
  <2> QED BY <1>1, <2>1, LenProperties
<1>5. Text(f.sb) = Text(e.sb)
  BY <1>3, <1>4 DEF Text
<1> QED BY <1>2, <1>5

(* Nothing pushed, nothing changed. *)
LEMMA NothingPushed ==
  ASSUME NEW n \in Positive, NEW m \in Positive, NEW g \in Grids(n, m), NEW f, f.sb = g.sb
  PROVE  Extended(g, f, 0)
<1>1. Len(g.sb) \in Nat /\ Len(g.sb) <= ScrollbackLimit
  BY GridFacts
<1>2. Lesser(Len(g.sb) + 0, ScrollbackLimit) = Len(g.sb)
  BY <1>1, LimitAssumption DEF Lesser
<1>3. \A i \in 1..Len(g.sb) : ((Len(g.sb) + 0) - Len(g.sb)) + i = i /\ i <= Len(g.sb)
  BY <1>1
<1> QED BY <1>2, <1>3 DEF Extended, RowAt

(* Region, margins, modes and the character for REP are the same. *)
Framed(s, t) ==
  /\ t.top = s.top /\ t.bottom = s.bottom /\ t.left = s.left /\ t.right = s.right
  /\ t.modes = s.modes /\ t.last = s.last

(* One after the other. *)
LEMMA FramedTwice ==
  ASSUME NEW s, NEW t, NEW u, Framed(s, t), Framed(t, u)
  PROVE  Framed(s, u)
BY DEF Framed

(* The margins are where they were, on a screen of the same width. *)
LEMMA FramedMargins ==
  ASSUME NEW s, NEW t, Framed(s, t), cols(t) = cols(s)
  PROVE  has_lr_margins(t) = has_lr_margins(s) /\ effective_right(t) = effective_right(s)
BY DEF Framed, has_lr_margins, effective_right

(* What changes the grid, the damage or the cursor alone. *)
LEMMA FramedIs ==
  ASSUME NEW n \in Positive, NEW m \in Positive, NEW s \in Screens(n, m)
  PROVE  /\ \A g : Framed(s, [s EXCEPT !.grid = g])
         /\ \A rr : Framed(s, record_damage(s, rr))
         /\ \A r, c : Framed(s, At(s, r, c))
         /\ \A r : Framed(s, [s EXCEPT !.cur.row = r]) /\ Quiet(s, [s EXCEPT !.cur.row = r])
         /\ \A c : Framed(s, [s EXCEPT !.cur.col = c]) /\ Quiet(s, [s EXCEPT !.cur.col = c])
         /\ \A c, b : Framed(s, [s EXCEPT !.pending = b, !.cur.col = c]) /\ Quiet(s, [s EXCEPT !.pending = b, !.cur.col = c])
<1>1. \A g : Framed(s, [s EXCEPT !.grid = g])
  BY DEF Screens, Framed
<1>2. \A rr : Framed(s, record_damage(s, rr))
  BY DEF Screens, Framed, record_damage
<1>3. \A r, c : Framed(s, At(s, r, c))
  BY DEF Screens, Framed, At
<1>4. \A r : Framed(s, [s EXCEPT !.cur.row = r]) /\ Quiet(s, [s EXCEPT !.cur.row = r])
  BY DEF Screens, Framed, Quiet
<1>5. \A c : Framed(s, [s EXCEPT !.cur.col = c]) /\ Quiet(s, [s EXCEPT !.cur.col = c])
  BY DEF Screens, Framed, Quiet
<1>6. \A c, b : Framed(s, [s EXCEPT !.pending = b, !.cur.col = c]) /\ Quiet(s, [s EXCEPT !.pending = b, !.cur.col = c])
  BY DEF Screens, Framed, Quiet
<1> QED BY <1>1, <1>2, <1>3, <1>4, <1>5, <1>6

(* A grid that differs inside the region only, and the region damaged. *)
LEMMA RegionCovered ==
  ASSUME NEW n \in Positive, NEW m \in Positive, NEW h, NEW s \in Live(n, m, h), NEW g \in Grids(n, m),
         Outside(g, s.grid, s.top, s.bottom, m)
  PROVE  LET t == record_damage([s EXCEPT !.grid = g], s.top..s.bottom-1)
         IN  t.grid = g /\ Drawn(m, s, t) /\ Framed(s, t) /\ s.top..s.bottom-1 \subseteq t.damage
<1> DEFINE a == [s EXCEPT !.grid = g]
           d == s.top..s.bottom-1
           t == record_damage(a, d)
<1>1. a.grid = g /\ a.damage = s.damage
  BY GridIs
<1>2. a \in Live(n, m, h) /\ s \in Screens(n, m)
  BY OtherGrid, LiveFacts
<1>3. Framed(s, a)
  BY <1>2, FramedIs
<1>4. s.top \in 0..m /\ s.bottom \in 0..m /\ m \in Nat
  BY <1>2, ScreenFacts
<1> HIDE DEF a
<1>5. t.grid = g /\ t.damage = s.damage \cup (d \cap 0..m-1)
  <2> HIDE DEF d
  <2> QED BY <1>1, <1>2, DamageIs
<1>6. Framed(s, t)
  <2>1. a \in Screens(n, m)
    BY <1>2, LiveFacts
  <2>2. Framed(a, t)
    BY <2>1, FramedIs
  <2> QED BY <1>3, <2>2, FramedTwice
<1> HIDE DEF t
<1>7. d \subseteq 0..m-1
  BY <1>4
<1>8. \A i \in 1..m : i <= s.top \/ i > s.bottom \/ i - 1 \in d
  BY <1>4
<1> HIDE DEF d
<1>9. Drawn(m, s, t)
  BY <1>5, <1>7, <1>8 DEF Drawn, Outside
<1>10. d \subseteq t.damage
  BY <1>5, <1>7
<1> QED BY <1>5, <1>6, <1>9, <1>10 DEF t, a, d

(* Scrolling up: rows leave the top of the screen for the history.            *)
Pushes(f, g, top, bottom, m, k) ==
  IF top # 0 THEN f.sb = g.sb
  ELSE Extended(g, f, Lesser(k, bottom)) /\ Lifted(f, g, top, bottom, m, Lesser(k, bottom - top))

(* Between margins nothing leaves, without them the top rows do. *)
LEMMA UpHistory ==
  ASSUME NEW n \in Positive, NEW m \in Positive, NEW g \in Grids(n, m),
         NEW top \in 0..m, NEW bottom \in 0..m, top < bottom, NEW low, NEW high, NEW k \in Positive
  PROVE  /\ scroll_up_region(g, top, bottom, low, high, k).sb = g.sb
         /\ Pushes(scroll_up(g, top, bottom, k), g, top, bottom, m, k)
<1>1. scroll_up_region(g, top, bottom, low, high, k).sb = g.sb
  BY ShiftsKeepHistory
<1> DEFINE e == scroll_up(g, top, bottom, k)
<1>2. /\ Lifted(e, g, top, bottom, m, Lesser(k, bottom - top))
      /\ top # 0 => e.sb = g.sb
      /\ top = 0 => Extended(g, e, Lesser(k, bottom))
  BY scroll_upIs
<1> HIDE DEF e
<1>3. Pushes(e, g, top, bottom, m, k)
  BY <1>2 DEF Pushes
<1> QED BY <1>1, <1>3 DEF e

(* SU and SD: SU pushes the rows that leave the top of the screen. *)
LEMMA ScreenScrollsAre ==
  ASSUME NEW n \in Positive, NEW m \in Positive, NEW h, NEW s \in Live(n, m, h), NEW k \in Positive
  PROVE  /\ Drawn(m, s, scroll_up_screen(s, k)) /\ Drawn(m, s, scroll_down_screen(s, k))
         /\ \E j \in 0..m : Extended(s.grid, scroll_up_screen(s, k).grid, j)
<1> DEFINE up == IF has_lr_margins(s) THEN scroll_up_region(s.grid, s.top, s.bottom, s.left, s.right, k)
                 ELSE scroll_up(s.grid, s.top, s.bottom, k)
           down == IF has_lr_margins(s) THEN scroll_down_region(s.grid, s.top, s.bottom, s.left, s.right, k)
                   ELSE scroll_down(s.grid, s.top, s.bottom, k)
<1>1. /\ s.grid \in Grids(n, m) /\ s.top \in 0..m /\ s.bottom \in 0..m /\ s.top < s.bottom
      /\ s.left \in Nat /\ s.right \in Nat /\ k \in Nat /\ m \in Nat
  <2>1. s \in Screens(n, m)
    BY LiveFacts
  <2> QED BY <2>1, ScreenFacts, Bounds DEF Positive
<1>2. up \in Grids(n, m) /\ down \in Grids(n, m)
  BY <1>1, scroll_upKeeps, scroll_downKeeps, RegionScrollsKeep
<1>3. Outside(up, s.grid, s.top, s.bottom, m) /\ Outside(down, s.grid, s.top, s.bottom, m)
  BY <1>1, ScrollsOutside
<1>4. \E j \in 0..m : Extended(s.grid, up, j)
  <2>1. \/ up.sb = s.grid.sb
        \/ Extended(s.grid, up, Lesser(k, s.bottom))
    <3> DEFINE a == scroll_up_region(s.grid, s.top, s.bottom, s.left, s.right, k)
               b == scroll_up(s.grid, s.top, s.bottom, k)
    <3>3. \A g \in Grids(n, m), x \in 0..m, y \in 0..m : \A low, high : x < y =>
             /\ scroll_up_region(g, x, y, low, high, k).sb = g.sb
             /\ Pushes(scroll_up(g, x, y, k), g, x, y, m, k)
      BY UpHistory
    <3>1. a.sb = s.grid.sb /\ Pushes(b, s.grid, s.top, s.bottom, m, k)
      BY <1>1, <3>3
    <3>2. up = a \/ up = b
      OBVIOUS
    <3> HIDE DEF a, b, up
    <3> QED BY <3>1, <3>2 DEF Pushes
  <2>2. Lesser(k, s.bottom) \in 0..m /\ 0 \in 0..m
    BY <1>1 DEF Lesser
  <2> HIDE DEF up
  <2>3. up.sb = s.grid.sb => Extended(s.grid, up, 0)
    BY <1>1, NothingPushed
  <2> QED BY <2>1, <2>2, <2>3
<1>5. /\ scroll_up_screen(s, k) = record_damage([s EXCEPT !.grid = up], s.top..s.bottom-1)
      /\ scroll_down_screen(s, k) = record_damage([s EXCEPT !.grid = down], s.top..s.bottom-1)
  BY DEF scroll_up_screen, scroll_down_screen
<1> HIDE DEF up, down
<1>6. scroll_up_screen(s, k).grid = up /\ Drawn(m, s, scroll_up_screen(s, k))
  BY <1>2, <1>3, <1>5, RegionCovered
<1>7. Drawn(m, s, scroll_down_screen(s, k))
  BY <1>2, <1>3, <1>5, RegionCovered
<1> QED BY <1>4, <1>6, <1>7

(* A line feed scrolls the region at its last row, and only there.  Without    *)
(* margins that pushes the top row of the screen, if it is in the region.      *)
LineFed(s, t) ==
  \/ t.grid = s.grid
  \/ t.grid.sb = s.grid.sb /\ (s.top # 0 \/ (has_lr_margins(s) /\ cursor_in_lr_margins(s)))
  \/ /\ s.top = 0 /\ s.cur.row + 1 = s.bottom /\ Extended(s.grid, t.grid, 1)
     /\ ~(has_lr_margins(s) /\ cursor_in_lr_margins(s))
     /\ s.bottom # 1 => t.grid.lines[1].cells = s.grid.lines[2].cells

(* A line feed draws what it damages and scrolls as said. *)
LEMMA linefeedIs ==
  ASSUME NEW n \in Positive, NEW m \in Positive, NEW h, NEW s \in Live(n, m, h)
  PROVE  LET t == linefeed(s)
         IN  /\ Drawn(m, s, t) /\ Framed(s, t) /\ LineFed(s, t)
             /\ IF s.cur.row + 1 = s.bottom THEN s.cur.row \in t.damage ELSE t.grid = s.grid
<1> DEFINE c == has_lr_margins(s) /\ cursor_in_lr_margins(s)
           g == IF c THEN scroll_up_region(s.grid, s.top, s.bottom, s.left, s.right, 1)
                ELSE scroll_up(s.grid, s.top, s.bottom, 1)
           a == record_damage([s EXCEPT !.grid = g], s.top..s.bottom-1)
           b == [s EXCEPT !.cur.row = s.cur.row + 1]
           t == IF s.cur.row + 1 = s.bottom THEN a
                ELSE IF s.cur.row + 1 < rows(s) THEN b ELSE s
           col == IF s.modes.newline THEN 0 ELSE t.cur.col
           v == [t EXCEPT !.pending = FALSE, !.cur.col = col]
<1>1. /\ s \in Screens(n, m) /\ s.cur.row \in 0..m-1 /\ 1 \in Positive
      /\ s.grid \in Grids(n, m) /\ s.top \in 0..m /\ s.bottom \in 0..m /\ s.top < s.bottom
      /\ s.left \in Nat /\ s.right \in Nat /\ m \in Nat
  <2>1. s \in Screens(n, m) /\ s.cur.row \in 0..m-1 /\ 1 \in Positive
    BY LiveFacts DEF Positive
  <2> QED BY <2>1, ScreenFacts, Bounds
<1>2. linefeed(s) = v
  BY DEF linefeed
<1>3. g \in Grids(n, m)
  BY <1>1, scroll_upKeeps, RegionScrollsKeep
<1>4. Outside(g, s.grid, s.top, s.bottom, m)
  BY <1>1, ScrollsOutside
<1>5. CASE s.cur.row + 1 = s.bottom
  <2>1. \/ c /\ g.sb = s.grid.sb
        \/ s.top # 0 /\ g.sb = s.grid.sb
        \/ ~c /\ s.top = 0 /\ Extended(s.grid, g, 1) /\ (s.bottom # 1 => g.lines[1].cells = s.grid.lines[2].cells)
    <3> DEFINE a1 == scroll_up_region(s.grid, s.top, s.bottom, s.left, s.right, 1)
               b1 == scroll_up(s.grid, s.top, s.bottom, 1)
    <3>1. \/ g.sb = s.grid.sb /\ (c \/ s.top # 0)
          \/ /\ ~c /\ s.top = 0 /\ Extended(s.grid, g, Lesser(1, s.bottom))
             /\ Lifted(g, s.grid, s.top, s.bottom, m, Lesser(1, s.bottom - s.top))
      <4>1. a1.sb = s.grid.sb /\ Pushes(b1, s.grid, s.top, s.bottom, m, 1)
        BY <1>1, UpHistory
      <4>2. (c /\ g = a1) \/ (~c /\ g = b1)
        OBVIOUS
      <4> HIDE DEF a1, b1, g, c
      <4> QED BY <4>1, <4>2 DEF Pushes
    <3>2. Lesser(1, s.bottom) = 1 /\ (s.top = 0 => Lesser(1, s.bottom - s.top) = 1)
      BY <1>1 DEF Lesser
    <3>3. s.top = 0 /\ s.bottom # 1 => 1 \in (s.top + 1)..(s.bottom - 1)
      BY <1>1
    <3> HIDE DEF g, c
    <3>4. s.top = 0 /\ s.bottom # 1 /\ Lifted(g, s.grid, s.top, s.bottom, m, 1) => g.lines[1] = s.grid.lines[1 + 1]
      BY <3>3 DEF Lifted
    <3> QED BY <3>1, <3>2, <3>4
  <2>2. s.cur.row \in s.top..s.bottom-1
    BY <1>1, <1>5
  <2> HIDE DEF g
  <2>3. a.grid = g /\ Drawn(m, s, a) /\ Framed(s, a) /\ s.top..s.bottom-1 \subseteq a.damage
    BY <1>3, <1>4, RegionCovered
  <2>4. a \in Screens(n, m)
    <3>1. [s EXCEPT !.grid = g] \in Live(n, m, h)
      BY <1>3, OtherGrid
    <3> DEFINE e == [s EXCEPT !.grid = g]
    <3> HIDE DEF e
    <3>2. record_damage(e, s.top..s.bottom-1) \in Live(n, m, h)
      BY <3>1, DamageKeeps DEF e
    <3> QED BY <3>2, LiveFacts DEF e
  <2>5. t = a
    BY <1>5
  <2> HIDE DEF a, t, col
  <2>6. Quiet(t, v) /\ Framed(t, v)
    BY <2>4, <2>5, FramedIs
  <2> HIDE DEF v
  <2>7. v.grid = g /\ v.damage = a.damage
    BY <2>3, <2>5, <2>6 DEF Quiet
  <2>8. Drawn(m, s, v) /\ s.cur.row \in v.damage
    BY <2>2, <2>3, <2>7 DEF Drawn
  <2>9. Framed(s, v)
    BY <2>3, <2>5, <2>6, FramedTwice
  <2>10. LineFed(s, v)
    BY <1>5, <2>1, <2>7 DEF LineFed
  <2> QED BY <1>2, <1>5, <2>8, <2>9, <2>10
<1>6. CASE s.cur.row + 1 # s.bottom
  <2>1. t = s \/ t = b
    BY <1>6
  <2>2. Quiet(s, t) /\ Framed(s, t)
    <3>1. Quiet(s, b) /\ Framed(s, b)
      BY <1>1, FramedIs
    <3>2. Quiet(s, s) /\ Framed(s, s)
      BY DEF Quiet, Framed
    <3> HIDE DEF b, t
    <3> QED BY <2>1, <3>1, <3>2
  <2>3. t \in Screens(n, m)
    <3>1. s.cur.row + 1 < m => b \in Live(n, m, h)
      <4> HAVE s.cur.row + 1 < m
      <4>1. s.cur.row + 1 \in 0..m-1
        BY <1>1
      <4> QED BY <4>1, OtherRow
    <3>2. rows(s) = m
      BY Bounds
    <3> HIDE DEF b
    <3> QED BY <1>1, <1>6, <3>1, <3>2, LiveFacts
  <2> HIDE DEF t, col
  <2>4. Quiet(t, v) /\ Framed(t, v)
    BY <2>3, FramedIs
  <2> HIDE DEF v
  <2>5. Quiet(s, v) /\ Framed(s, v)
    BY <2>2, <2>4, FramedTwice DEF Quiet
  <2>6. Drawn(m, s, v) /\ v.grid = s.grid /\ LineFed(s, v)
    BY <2>5 DEF Quiet, Drawn, LineFed
  <2> QED BY <1>2, <1>6, <2>5, <2>6
<1> QED BY <1>5, <1>6

----------------------------------------------------------------------------
(* Printing: the wrap, the wide character that does not fit, the cell *)

(* The pushed rows looked the same before. *)
LEMMA ExtendedBefore ==
  ASSUME NEW n \in Positive, NEW m \in Positive, NEW g \in Grids(n, m), NEW f, NEW e, NEW k \in Nat,
         f.sb = g.sb, \A i \in 1..k : f.lines[i].cells = g.lines[i].cells, Extended(f, e, k)
  PROVE  Extended(g, e, k)
<1> DEFINE h == Len(g.sb)
           y == Len(e.sb)
<1>1. h \in Nat /\ y = Lesser(h + k, ScrollbackLimit)
  BY GridFacts DEF Extended
<1>2. \A i \in 1..y : e.sb[i].cells = RowAt(f, ((h + k) - y) + i).cells
  BY DEF Extended
<1> HIDE DEF h, y
<1>3. y \in Nat /\ y <= h + k
  BY <1>1, LimitAssumption DEF Lesser
<1>4. ASSUME NEW i \in 1..y
      PROVE  RowAt(f, ((h + k) - y) + i).cells = RowAt(g, ((h + k) - y) + i).cells
  <2> DEFINE j == ((h + k) - y) + i
  <2>1. j \in 1..(h + k) /\ (~(j <= h) => j - h \in 1..k)
    BY <1>1, <1>3
  <2> HIDE DEF j
  <2>2. RowAt(f, j).cells = RowAt(g, j).cells
    BY <2>1 DEF RowAt, h
  <2> QED BY <2>2 DEF j
<1>5. \A i \in 1..y : e.sb[i].cells = RowAt(g, ((h + k) - y) + i).cells
  BY <1>2, <1>4
<1> QED BY <1>1, <1>5 DEF Extended, h, y

(* A return to the left and a line feed. *)
Returned(s, t) ==
  \/ t.grid = s.grid
  \/ t.grid.sb = s.grid.sb /\ (s.top # 0 \/ has_lr_margins(s))
  \/ /\ s.top = 0 /\ s.cur.row + 1 = s.bottom /\ Extended(s.grid, t.grid, 1)
     /\ has_lr_margins(s) => s.cur.col < s.left
     /\ s.bottom # 1 => t.grid.lines[1].cells = s.grid.lines[2].cells

(* It does so too, wherever the return put the cursor. *)
LEMMA ReturnIs ==
  ASSUME NEW n \in Positive, NEW m \in Positive, NEW h, NEW s \in Live(n, m, h)
  PROVE  LET t == linefeed(carriage_return(s))
         IN  /\ t \in Live(n, m, h) /\ Drawn(m, s, t) /\ Framed(s, t) /\ Returned(s, t)
             /\ IF s.cur.row + 1 = s.bottom THEN s.cur.row \in t.damage ELSE t.grid = s.grid
<1> DEFINE c == IF has_lr_margins(s) /\ s.cur.col >= s.left THEN s.left ELSE 0
           b == carriage_return(s)
           t == linefeed(b)
<1>1. /\ s \in Screens(n, m) /\ s.left < s.right /\ s.left \in Nat /\ s.right \in Nat /\ s.cur.col \in Nat
  <2>1. s \in Screens(n, m) /\ s.cur.col \in Nat
    BY LiveFacts
  <2>2. s.left < s.right
    BY <2>1, ScreenFacts
  <2> QED BY <2>1, <2>2, Bounds
<1>2. b = At(s, s.cur.row, c)
  BY DEF carriage_return
<1>3. b \in Live(n, m, h) /\ Quiet(s, b) /\ Framed(s, b)
  <2>1. Quiet(s, b)
    BY <1>1, CursorsQuiet
  <2>2. Framed(s, At(s, s.cur.row, c))
    <3> HIDE DEF c
    <3> QED BY <1>1, FramedIs
  <2> QED BY <1>2, <2>1, <2>2, carriage_returnKeeps
<1>4. b.cur.row = s.cur.row /\ b.cur.col = c
  <2> HIDE DEF c
  <2>1. At(s, s.cur.row, c).cur = [row |-> s.cur.row, col |-> c]
    BY <1>1 DEF At, Screens
  <2> QED BY <1>2, <2>1
<1>5. cols(b) = cols(s)
  BY <1>3 DEF Quiet, cols
<1>6. has_lr_margins(b) = has_lr_margins(s)
  BY <1>3, <1>5, FramedMargins
<1>7. has_lr_margins(s) /\ s.cur.col >= s.left => cursor_in_lr_margins(b)
  <2> HAVE has_lr_margins(s) /\ s.cur.col >= s.left
  <2>1. b.cur.col = s.left /\ b.left = s.left /\ b.right = s.right
    BY <1>3, <1>4 DEF Framed
  <2> HIDE DEF b, c
  <2> QED BY <1>1, <2>1 DEF cursor_in_lr_margins
<1> HIDE DEF b, c
<1>8. /\ Drawn(m, b, t) /\ Framed(b, t) /\ LineFed(b, t)
      /\ IF b.cur.row + 1 = b.bottom THEN b.cur.row \in t.damage ELSE t.grid = b.grid
  BY <1>3, linefeedIs
<1>9. t \in Live(n, m, h)
  BY <1>3, linefeedKeeps
<1> HIDE DEF t
<1>10. Drawn(m, s, t)
  BY <1>3, <1>8, DrawnTwice, QuietCovers DEF Covered
<1>11. Framed(s, t)
  BY <1>3, <1>8, FramedTwice
<1>12. b.top = s.top /\ b.bottom = s.bottom /\ b.grid = s.grid
  BY <1>3 DEF Framed, Quiet
<1>13. Returned(s, t)
  <2>1. has_lr_margins(s) /\ ~(has_lr_margins(b) /\ cursor_in_lr_margins(b)) => s.cur.col < s.left
    BY <1>1, <1>6, <1>7
  <2> QED BY <1>4, <1>6, <1>8, <1>12, <2>1 DEF LineFed, Returned
<1> QED BY <1>4, <1>8, <1>9, <1>10, <1>11, <1>12, <1>13 DEF t, b

(* A mark set where the cursor is. *)
Marked(n, m, h, s, t) ==
  /\ t \in Live(n, m, h) /\ Covered(m, s, t) /\ Framed(s, t) /\ t.damage = s.damage /\ t.cur = s.cur
  /\ \A i \in 1..m : t.grid.lines[i].cells = s.grid.lines[i].cells

(* Marking a line as continued changes no cell. *)
LEMMA MarkIs ==
  ASSUME NEW n \in Positive, NEW m \in Positive, NEW h, NEW s \in Live(n, m, h), NEW b \in BOOLEAN
  PROVE  Marked(n, m, h, s, [s EXCEPT !.grid = set_continuation(@, s.cur.row, b)])
<1> DEFINE g == set_continuation(s.grid, s.cur.row, b)
           t == [s EXCEPT !.grid = g]
<1>1. s.grid \in Grids(n, m) /\ s.cur.row \in 0..m-1 /\ s \in Screens(n, m)
  BY LiveFacts
<1>2. g.sb = s.grid.sb /\ \A i \in 1..m : g.lines[i].cells = s.grid.lines[i].cells
  BY <1>1, MarkLeaves
<1>3. t \in Live(n, m, h)
  BY MarkKeeps
<1> HIDE DEF g
<1>4. t.grid = g /\ t.damage = s.damage
  BY GridIs
<1>5. Framed(s, t) /\ t.cur = s.cur
  <2>1. t.cur = s.cur
    BY <1>1 DEF Screens
  <2> QED BY <1>1, <2>1, FramedIs
<1> HIDE DEF t
<1>6. Covered(m, s, t)
  BY <1>2, <1>4 DEF Covered, Drawn
<1>7. Marked(n, m, h, s, t)
  BY <1>2, <1>3, <1>4, <1>5, <1>6 DEF Marked
<1> QED BY <1>7 DEF t, g

(* The wrap that was pending: no row leaves the top of the screen, or one does *)
(* and the next takes its place.                                               *)
Wrapped(s, t) ==
  \/ /\ t.grid.sb = s.grid.sb
     /\ s.top # 0 \/ has_lr_margins(s) \/ t.grid.lines[1].cells = s.grid.lines[1].cells
  \/ /\ s.top = 0 /\ Extended(s.grid, t.grid, 1)
     /\ s.bottom # 1 => t.grid.lines[1].cells = s.grid.lines[2].cells

(* The wrap does that. *)
LEMMA WrapPendingIs ==
  ASSUME NEW n \in Positive, NEW m \in Positive, NEW h, NEW s \in Live(n, m, h)
  PROVE  Drawn(m, s, WrapPending(s)) /\ Framed(s, WrapPending(s)) /\ Wrapped(s, WrapPending(s))
<1> DEFINE a == [s EXCEPT !.grid = set_continuation(@, s.cur.row, FALSE)]
           t == linefeed(carriage_return(a))
           u == [t EXCEPT !.grid = set_continuation(@, t.cur.row, TRUE)]
           v == At(s, s.cur.row, effective_right(s) - 1)
<1>1. TRUE \in BOOLEAN /\ FALSE \in BOOLEAN /\ s \in Screens(n, m) /\ s.grid \in Grids(n, m) /\ cols(s) = n
  BY LiveFacts, Bounds
<1>2. /\ a \in Live(n, m, h) /\ Covered(m, s, a) /\ Framed(s, a)
      /\ \A i \in 1..m : a.grid.lines[i].cells = s.grid.lines[i].cells
  <2>1. Marked(n, m, h, s, a)
    BY <1>1, MarkIs
  <2> HIDE DEF a
  <2> QED BY <2>1 DEF Marked
<1> HIDE DEF a
<1>3. t \in Live(n, m, h) /\ Drawn(m, a, t) /\ Framed(a, t) /\ Returned(a, t)
  BY <1>2, ReturnIs
<1> HIDE DEF t
<1>4. /\ Covered(m, t, u) /\ Framed(t, u)
      /\ \A i \in 1..m : u.grid.lines[i].cells = t.grid.lines[i].cells
  <2>1. Marked(n, m, h, t, u)
    BY <1>1, <1>3, MarkIs
  <2> HIDE DEF u
  <2> QED BY <2>1 DEF Marked
<1> HIDE DEF u
<1>5. 1 \in 1..m /\ (s.bottom # 1 => 2 \in 1..m) /\ cols(a) = n
  <2>1. m >= 1 /\ m \in Nat /\ s.bottom \in 0..m /\ s.top \in 0..m /\ s.top < s.bottom
    BY <1>1, ScreenFacts
  <2> QED BY <1>2, <2>1, Bounds
<1>6. Drawn(m, s, u)
  BY <1>2, <1>3, <1>4, DrawnTwice DEF Covered
<1>7. Framed(s, u)
  BY <1>2, <1>3, <1>4, FramedTwice
<1>8. Wrapped(s, u)
  <2>1. a.grid.sb = s.grid.sb /\ u.grid.sb = t.grid.sb
    BY <1>2, <1>4 DEF Covered
  <2>2. a.top = s.top /\ a.bottom = s.bottom /\ has_lr_margins(a) = has_lr_margins(s)
    BY <1>1, <1>2, <1>5, FramedMargins DEF Framed
  <2>3. Extended(a.grid, t.grid, 1) => Extended(s.grid, u.grid, 1)
    <3> HAVE Extended(a.grid, t.grid, 1)
    <3>1. \A i \in 1..1 : a.grid.lines[i].cells = s.grid.lines[i].cells
      BY <1>2, <1>5
    <3>2. Extended(a.grid, u.grid, 1)
      BY <2>1 DEF Extended
    <3> QED BY <1>1, <2>1, <3>1, <3>2, ExtendedBefore
  <2>4. /\ u.grid.lines[1].cells = t.grid.lines[1].cells /\ a.grid.lines[1].cells = s.grid.lines[1].cells
        /\ s.bottom # 1 => a.grid.lines[2].cells = s.grid.lines[2].cells
    BY <1>2, <1>4, <1>5
  <2> QED BY <1>3, <2>1, <2>2, <2>3, <2>4 DEF Returned, Wrapped
<1>9. ASSUME NEW e, Quiet(s, e), Framed(s, e)
      PROVE  Drawn(m, s, e) /\ Wrapped(s, e)
  BY <1>9 DEF Quiet, Drawn, Wrapped
<1>10. Quiet(s, s) /\ Framed(s, s)
  BY DEF Quiet, Framed
<1>11. Quiet(s, v) /\ Framed(s, v)
  BY <1>1, AtQuiet, FramedIs
<1>12. WrapPending(s) \in {s, u, v}
  BY DEF WrapPending, a, t, u
<1> HIDE DEF v
<1> QED BY <1>6, <1>7, <1>8, <1>9, <1>10, <1>11, <1>12

(* Changes in one row, one after the other. *)
LEMMA BesideTwice ==
  ASSUME NEW m, NEW g, NEW f, NEW e, NEW r, Beside(m, g, f, r), Beside(m, f, e, r)
  PROVE  Beside(m, g, e, r)
BY DEF Beside

(* Blanking halves and writing a character stay in the row. *)
LEMMA ClearHalvesBeside ==
  ASSUME NEW n \in Positive, NEW m \in Positive, NEW g \in Grids(n, m), NEW r \in 0..m-1, NEW c \in Nat, NEW w
  PROVE  Beside(m, g, ClearHalves(g, r, c, w), r + 1)
<1> DEFINE Unhalve(a, k) == cell_mut(a, r, k, Cell(" ", 1, cell(a, r, k).p))
           old == cell(g, r, c).w
           g1 == IF old = 2 /\ c + 1 < g.cols THEN Unhalve(g, c + 1) ELSE g
           g2 == IF old = 0 /\ c > 0 /\ cell(g1, r, c - 1).w = 2 THEN Unhalve(g1, c - 1) ELSE g1
           g3 == IF w = 2 /\ c + 2 < g.cols /\ cell(g2, r, c + 1).w = 2 THEN Unhalve(g2, c + 2) ELSE g2
           row == r + 1
<1>1. ASSUME NEW a \in Grids(n, m), NEW k \in Nat
      PROVE  Unhalve(a, k) \in Grids(n, m) /\ Beside(m, a, Unhalve(a, k), row)
  <2>1. r \in Nat
    BY DEF Positive
  <2>2. Unhalve(a, k) \in Grids(n, m)
    BY <2>1, UnhalveKeeps
  <2> DEFINE x == Cell(" ", 1, cell(a, r, k).p)
  <2> HIDE DEF x
  <2>3. Beside(m, a, cell_mut(a, r, k, x), r + 1)
    BY CellMutBeside
  <2> QED BY <2>2, <2>3 DEF x
<1>2. ClearHalves(g, r, c, w) = g3
  BY DEF ClearHalves
<1> HIDE DEF Unhalve
<1>3. c + 1 \in Nat /\ c + 2 \in Nat /\ (c > 0 => c - 1 \in Nat)
  OBVIOUS
<1>4. \A a : Beside(m, a, a, row)
  BY DEF Beside
<1> HIDE DEF row
<1>5. g1 \in Grids(n, m) /\ Beside(m, g, g1, row)
  BY <1>1, <1>3, <1>4
<1> HIDE DEF g1
<1>6. g2 \in Grids(n, m) /\ Beside(m, g1, g2, row)
  BY <1>1, <1>3, <1>4, <1>5
<1> HIDE DEF g2
<1>7. Beside(m, g2, g3, row)
  BY <1>1, <1>3, <1>4, <1>6
<1> HIDE DEF g3
<1>8. Beside(m, g, g3, row)
  BY <1>5, <1>6, <1>7, BesideTwice
<1> QED BY <1>2, <1>8 DEF row

(* A character put at the cursor changes its row, and damages it. *)
LEMMA PutIs ==
  ASSUME NEW n \in Positive, NEW m \in Positive, NEW h, NEW s \in Live(n, m, h),
         NEW c \in Chars, char_width(c) # 0
  PROVE  /\ Beside(m, s.grid, Put(s, c).grid, s.cur.row + 1) /\ Framed(s, Put(s, c))
         /\ Put(s, c).damage = record_damage(s, {s.cur.row}).damage
<1> DEFINE w == char_width(c)
           r == s.cur.row
           k == s.cur.col
           x == Cell(c, w, s.prot)
           y == Cell(" ", 0, s.prot)
           g0 == ClearHalves(s.grid, r, k, w)
           g1 == cell_mut(g0, r, k, x)
           g2 == IF w = 2 /\ k + 1 < g1.cols THEN cell_mut(g1, r, k + 1, y) ELSE g1
           full == k + w >= effective_right(s)
           col == IF full THEN effective_right(s) - 1 ELSE k + w
           a == record_damage(s, {r})
           b == [a EXCEPT !.grid = g2]
           e == full /\ s.modes.autowrap
           t == [b EXCEPT !.cur.col = col, !.pending = e]
<1>1. /\ s \in Screens(n, m) /\ s.grid \in Grids(n, m) /\ r \in 0..m-1 /\ r \in Nat /\ k \in Nat /\ k + 1 \in Nat
      /\ s.prot \in BOOLEAN
  <2>1. k + 1 \in Nat
    BY LiveFacts
  <2> QED BY <2>1, LiveFacts
<1>2. x \in Cells
  <2>1. c \in STRING
    BY TerminalAssumption
  <2>2. w \in 0..2
    BY DEF char_width
  <2> HIDE DEF w
  <2> QED BY <1>1, <2>1, <2>2, CellIs
<1>3. Put(s, c) = t
  BY DEF Put
<1> HIDE DEF w, x, y, r, k
<1>4. g0 \in Grids(n, m) /\ Beside(m, s.grid, g0, r + 1)
  BY <1>1, ClearHalvesKeeps, ClearHalvesBeside
<1> HIDE DEF g0
<1>5. g1 \in Grids(n, m) /\ Beside(m, g0, g1, r + 1)
  BY <1>1, <1>2, <1>4, CellMutKeeps, CellMutBeside
<1> HIDE DEF g1
<1>6. Beside(m, g1, g2, r + 1)
  <2>1. Beside(m, g1, cell_mut(g1, r, k + 1, y), r + 1)
    BY <1>1, <1>5, CellMutBeside
  <2>2. Beside(m, g1, g1, r + 1)
    BY DEF Beside
  <2> QED BY <2>1, <2>2
<1> HIDE DEF g2, col, e
<1>7. Beside(m, s.grid, g2, r + 1)
  BY <1>4, <1>5, <1>6, BesideTwice
<1>8. a \in Screens(n, m) /\ Framed(s, a)
  <2>1. a \in Live(n, m, h)
    BY DamageKeeps
  <2> QED BY <1>1, <2>1, LiveFacts, FramedIs
<1> HIDE DEF a
<1>9. t.grid = g2 /\ t.damage = a.damage /\ Framed(a, t)
  BY <1>8 DEF Screens, Framed
<1> HIDE DEF t
<1>10. Framed(s, t)
  BY <1>8, <1>9, FramedTwice
<1> QED BY <1>3, <1>7, <1>9, <1>10 DEF a, r

(* Different at most in damaged rows and in row r. *)
DrawnBut(m, s, t, r) ==
  /\ s.damage \subseteq t.damage
  /\ \A i \in 1..m : i = r \/ i - 1 \in t.damage \/ t.grid.lines[i].cells = s.grid.lines[i].cells

(* Before or after drawing what is damaged. *)
LEMMA DrawnButOne ==
  ASSUME NEW m, NEW s, NEW t, NEW u, NEW r
  PROVE  /\ Drawn(m, s, t) /\ DrawnBut(m, t, u, r) => DrawnBut(m, s, u, r)
         /\ DrawnBut(m, s, t, r) /\ Drawn(m, t, u) => DrawnBut(m, s, u, r)
BY DEF Drawn, DrawnBut

(* A wide character moved to the next line.  The row it leaves gets a blank    *)
(* that is not reported; that row is pushed only off a region of one line.     *)
Fitted(s, t) ==
  \/ t.grid.sb = s.grid.sb
  \/ s.top = 0 /\ ~has_lr_margins(s) /\ (s.bottom # 1 => Extended(s.grid, t.grid, 1))

(* FitWide does that. *)
LEMMA FitWideIs ==
  ASSUME NEW n \in Positive, NEW m \in Positive, NEW h, NEW s \in Live(n, m, h),
         s.cur.col >= effective_right(s) - 1
  PROVE  /\ DrawnBut(m, s, FitWide(s), s.cur.row + 1) /\ Framed(s, FitWide(s)) /\ Fitted(s, FitWide(s))
<1> DEFINE row == s.cur.row + 1
           g == cell_mut(s.grid, s.cur.row, s.cur.col, Cell(" ", 1, cell(s.grid, s.cur.row, s.cur.col).p))
           a == [s EXCEPT !.grid = g]
           t == linefeed(carriage_return(a))
           u == [t EXCEPT !.grid = set_continuation(@, t.cur.row, TRUE)]
           back == Greater(effective_right(s) - 2, 0)
           c == IF back >= cols(s) THEN 0 ELSE back
           v == [s EXCEPT !.cur.col = c]
<1>1. /\ TRUE \in BOOLEAN /\ s \in Screens(n, m) /\ s.grid \in Grids(n, m)
      /\ s.cur.row \in 0..m-1 /\ s.cur.row \in Nat /\ s.cur.col \in Nat
  BY LiveFacts
<1>2. s.top \in 0..m /\ s.bottom \in 0..m /\ s.top < s.bottom /\ m >= 1 /\ m \in Nat /\ cols(s) = n
  BY <1>1, ScreenFacts
<1>3. FitWide(s) \in {u, v}
  BY DEF FitWide
<1>4. g \in Grids(n, m) /\ Beside(m, s.grid, g, row)
  <2>1. g \in Grids(n, m)
    BY <1>1, UnhalveKeeps
  <2> DEFINE x == Cell(" ", 1, cell(s.grid, s.cur.row, s.cur.col).p)
  <2> HIDE DEF x
  <2>2. Beside(m, s.grid, cell_mut(s.grid, s.cur.row, s.cur.col, x), s.cur.row + 1)
    BY <1>1, CellMutBeside
  <2> QED BY <2>1, <2>2 DEF x
<1> HIDE DEF g
<1>5. a \in Live(n, m, h) /\ a.grid = g /\ a.damage = s.damage /\ Framed(s, a)
  <2>1. a \in Live(n, m, h)
    BY <1>4, OtherGrid
  <2>2. a.grid = g /\ a.damage = s.damage
    BY GridIs
  <2>3. Framed(s, a)
    BY <1>1, FramedIs
  <2> QED BY <2>1, <2>2, <2>3
<1>6. a.cur = s.cur /\ cols(a) = cols(s)
  <2>1. a.cur = s.cur
    BY <1>1 DEF Screens
  <2> QED BY <1>2, <1>5, <2>1, Bounds
<1> HIDE DEF a
<1>7. /\ t \in Live(n, m, h) /\ Drawn(m, a, t) /\ Framed(a, t) /\ Returned(a, t)
      /\ IF a.cur.row + 1 = a.bottom THEN a.cur.row \in t.damage ELSE t.grid = a.grid
  BY <1>5, ReturnIs
<1> HIDE DEF t
<1>8. Marked(n, m, h, t, u)
  BY <1>1, <1>7, MarkIs
<1> HIDE DEF u
<1>9. /\ Covered(m, t, u) /\ Framed(t, u)
      /\ \A i \in 1..m : u.grid.lines[i].cells = t.grid.lines[i].cells
  BY <1>8 DEF Marked
<1>10. Framed(s, u)
  BY <1>5, <1>7, <1>9, FramedTwice
<1>11. DrawnBut(m, s, u, row)
  <2>1. DrawnBut(m, s, a, row)
    <3> HIDE DEF row
    <3> QED BY <1>4, <1>5 DEF DrawnBut, Beside
  <2>2. Drawn(m, a, u)
    BY <1>7, <1>9, DrawnTwice DEF Covered
  <2> QED BY <2>1, <2>2, DrawnButOne
<1>12. Fitted(s, u)
  <2>1. a.grid.sb = s.grid.sb /\ u.grid.sb = t.grid.sb
    BY <1>4, <1>5, <1>9 DEF Covered, Beside
  <2>2. /\ a.top = s.top /\ a.bottom = s.bottom /\ a.left = s.left
        /\ has_lr_margins(a) = has_lr_margins(s)
    BY <1>5, <1>6, FramedMargins DEF Framed
  <2>3. ASSUME has_lr_margins(s)
        PROVE  ~(s.cur.col < s.left)
    <3>1. effective_right(s) = s.right /\ s.left < s.right /\ s.left \in Nat /\ s.right \in Nat
      <4>1. s.left < s.right
        BY <1>1, ScreenFacts
      <4>2. s.left \in Nat /\ s.right \in Nat
        BY Bounds
      <4> QED BY <2>3, <4>1, <4>2 DEF effective_right
    <3> QED BY <1>1, <3>1
  <2>4. ASSUME Extended(a.grid, t.grid, 1), s.cur.row + 1 = s.bottom, s.bottom # 1
        PROVE  Extended(s.grid, u.grid, 1)
    <3>1. 1 \in 1..m /\ 1 # row
      BY <1>1, <1>2, <2>4
    <3>2. a.grid.lines[1].cells = s.grid.lines[1].cells
      <4> HIDE DEF row
      <4> QED BY <1>4, <1>5, <3>1 DEF Beside
    <3>3. \A i \in 1..1 : a.grid.lines[i].cells = s.grid.lines[i].cells
      BY <3>2
    <3>4. Extended(a.grid, u.grid, 1)
      BY <2>1, <2>4 DEF Extended
    <3> QED BY <1>1, <2>1, <3>3, <3>4, ExtendedBefore
  <2>5. \/ t.grid.sb = s.grid.sb
        \/ /\ s.top = 0 /\ s.cur.row + 1 = s.bottom /\ Extended(a.grid, t.grid, 1)
           /\ has_lr_margins(s) => s.cur.col < s.left
    BY <1>6, <1>7, <2>1, <2>2 DEF Returned
  <2> QED BY <2>1, <2>3, <2>4, <2>5 DEF Fitted
<1>13. Quiet(s, v) /\ Framed(s, v)
  <2> HIDE DEF c
  <2> QED BY <1>1, FramedIs
<1> HIDE DEF v
<1>14. DrawnBut(m, s, v, row) /\ Fitted(s, v)
  BY <1>13 DEF Quiet, DrawnBut, Fitted
<1> QED BY <1>3, <1>10, <1>11, <1>12, <1>13, <1>14

(* What printing c makes of a screen: a row it leaves undamaged only if c is   *)
(* wide, the history extended unless a wide character went round a region of   *)
(* one line.                                                                   *)
Printed(m, s, t, c) ==
  /\ t.last = c
  /\ Drawn(m, s, t) \/ (char_width(c) = 2 /\ \E r \in 1..m : DrawnBut(m, s, t, r))
  /\ (s.bottom = 1 /\ char_width(c) = 2) \/ \E k \in 0..m : Extended(s.grid, t.grid, k)

(* The history after a wrap and a wide character's move. *)
LEMMA WrappedFitted ==
  ASSUME NEW n \in Positive, NEW m \in Positive, NEW h, NEW s \in Live(n, m, h), NEW t \in Live(n, m, h), NEW u,
         Framed(s, t), Wrapped(s, t), Fitted(t, u), s.bottom # 1
  PROVE  \E k \in 0..m : Extended(s.grid, u.grid, k)
<1>1. s.grid \in Grids(n, m) /\ t.grid \in Grids(n, m) /\ s \in Screens(n, m)
  BY LiveFacts
<1>2. 0 \in 0..m /\ 1 \in 0..m /\ 1 \in Nat
  BY Bounds
<1>3. s.top = 0 => 2 \in 0..m
  <2>1. s.top \in 0..m /\ s.bottom \in 0..m /\ s.top < s.bottom /\ m \in Nat
    BY <1>1, ScreenFacts
  <2> QED BY <2>1
<1>4. t.top = s.top /\ t.bottom = s.bottom /\ has_lr_margins(t) = has_lr_margins(s)
  <2>1. cols(s) = n /\ cols(t) = n
    BY Bounds
  <2> QED BY <2>1, FramedMargins DEF Framed
<1>5. CASE u.grid.sb = t.grid.sb
  <2>1. ASSUME t.grid.sb = s.grid.sb
        PROVE  Extended(s.grid, u.grid, 0)
    BY <1>1, <1>5, <2>1, NothingPushed
  <2>2. ASSUME Extended(s.grid, t.grid, 1)
        PROVE  Extended(s.grid, u.grid, 1)
    BY <1>5, <2>2 DEF Extended
  <2> QED BY <1>2, <2>1, <2>2 DEF Wrapped
<1>6. CASE s.top = 0 /\ ~has_lr_margins(s) /\ Extended(t.grid, u.grid, 1)
  <2>1. ASSUME t.grid.sb = s.grid.sb, t.grid.lines[1].cells = s.grid.lines[1].cells
        PROVE  Extended(s.grid, u.grid, 1)
    <3>1. \A i \in 1..1 : t.grid.lines[i].cells = s.grid.lines[i].cells
      BY <2>1
    <3> QED BY <1>1, <1>2, <1>6, <2>1, <3>1, ExtendedBefore
  <2>2. ASSUME Extended(s.grid, t.grid, 1), t.grid.lines[1].cells = s.grid.lines[2].cells
        PROVE  Extended(s.grid, u.grid, 2)
    <3>1. 1 + 1 = 2
      OBVIOUS
    <3>2. Extended(s.grid, u.grid, 1 + 1)
      BY <1>1, <1>2, <1>6, <2>2, <3>1, ExtendedTwice
    <3> QED BY <3>1, <3>2
  <2> QED BY <1>2, <1>3, <1>6, <2>1, <2>2 DEF Wrapped
<1>7. u.grid.sb = t.grid.sb \/ (s.top = 0 /\ ~has_lr_margins(s) /\ Extended(t.grid, u.grid, 1))
  BY <1>4 DEF Fitted
<1> QED BY <1>5, <1>6, <1>7

(* Printing one character does that. *)
LEMMA write_charIs ==
  ASSUME NEW n \in Positive, NEW m \in Positive, NEW h, NEW s \in Live(n, m, h), NEW c \in Chars
  PROVE  Printed(m, s, write_char(s, c), c)
<1> DEFINE w == char_width(c)
           s0 == [s EXCEPT !.vp = 0, !.last = c]
           s1 == WrapPending(s0)
           s2 == IF w = 2 /\ s1.cur.col >= effective_right(s1) - 1 THEN FitWide(s1) ELSE s1
           g == insert_cells_bounded(s2.grid, s2.cur.row, s2.cur.col, w, effective_right(s2))
           s3 == IF s2.modes.insert THEN [s2 EXCEPT !.grid = g] ELSE s2
           t == Put(s3, c)
<1>1. write_char(s, c) = IF w = 0 THEN s0 ELSE t
  BY DEF write_char
<1>2. s \in Screens(n, m) /\ 0 \in 0..m /\ 1 \in 0..m
  BY LiveFacts, Bounds
<1>3. s0 \in Live(n, m, h)
  BY OtherLast
<1>4. /\ Quiet(s, s0) /\ s0.last = c
      /\ s0.top = s.top /\ s0.bottom = s.bottom
  BY <1>2 DEF Screens, Quiet
<1> HIDE DEF s0
<1>5. s1 \in Live(n, m, h) /\ Drawn(m, s0, s1) /\ Framed(s0, s1) /\ Wrapped(s0, s1)
  BY <1>3, WrapPendingKeeps, WrapPendingIs
<1> HIDE DEF s1
<1>6. s2 \in Live(n, m, h) /\ Framed(s1, s2)
      /\ \/ w = 2 /\ DrawnBut(m, s1, s2, s1.cur.row + 1) /\ Fitted(s1, s2)
         \/ Drawn(m, s1, s2) /\ s2 = s1
  <2>1. CASE w = 2 /\ s1.cur.col >= effective_right(s1) - 1
    BY <1>5, <2>1, FitWideKeeps, FitWideIs
  <2>2. CASE ~(w = 2 /\ s1.cur.col >= effective_right(s1) - 1)
    <3>1. Drawn(m, s1, s1) /\ Framed(s1, s1)
      BY DEF Drawn, Framed
    <3> QED BY <1>5, <2>2, <3>1
  <2> QED BY <2>1, <2>2
<1> HIDE DEF s2
<1>7. w = 0 => Printed(m, s, s0, c)
  <2> HAVE w = 0
  <2>1. s0.grid.sb = s.grid.sb /\ Drawn(m, s, s0)
    BY <1>4 DEF Quiet, Drawn
  <2>2. Extended(s.grid, s0.grid, 0)
    BY <1>2, <2>1, LiveFacts, NothingPushed
  <2> QED BY <1>2, <1>4, <2>1, <2>2 DEF Printed
<1>8. ASSUME w # 0
      PROVE  Printed(m, s, t, c)
  <2>1. /\ s2.grid \in Grids(n, m) /\ s2.cur.row \in 0..m-1 /\ s2.cur.col \in Nat
        /\ effective_right(s2) \in Nat /\ w \in Nat
    <3>1. effective_right(s2) \in 1..n /\ n \in Nat
      BY <1>6, Bounds
    <3>2. w \in Nat
      BY DEF char_width
    <3>3. effective_right(s2) \in Nat
      BY <3>1
    <3> QED BY <1>6, <3>2, <3>3, LiveFacts
  <2> DEFINE r == s2.cur.row
             e == [s2 EXCEPT !.grid = g]
  <2>2. g \in Grids(n, m) /\ Beside(m, s2.grid, g, r + 1)
    <3> HIDE DEF w
    <3> QED BY <2>1, insert_cellsKeeps, LineOpsBeside
  <2> HIDE DEF g
  <2>3. e \in Live(n, m, h) /\ Framed(s2, e) /\ e.cur = s2.cur /\ Beside(m, s2.grid, e.grid, r + 1)
        /\ e.damage = s2.damage
    <3>1. s2 \in Screens(n, m)
      BY <1>6, LiveFacts
    <3>2. e \in Live(n, m, h)
      BY <1>6, <2>2, OtherGrid
    <3>3. Framed(s2, e)
      BY <3>1, FramedIs
    <3>4. e.cur = s2.cur
      BY <3>1 DEF Screens
    <3>5. e.grid = g /\ e.damage = s2.damage
      BY <1>6, GridIs
    <3> QED BY <2>2, <3>2, <3>3, <3>4, <3>5
  <2> HIDE DEF e
  <2>4. s3 \in Live(n, m, h) /\ Framed(s2, s3) /\ s3.cur = s2.cur /\ Beside(m, s2.grid, s3.grid, r + 1)
        /\ s3.damage = s2.damage
    <3>1. Framed(s2, s2) /\ Beside(m, s2.grid, s2.grid, r + 1)
      BY DEF Framed, Beside
    <3>2. s3 = e \/ s3 = s2
      BY DEF e
    <3> HIDE DEF s3, r
    <3> QED BY <1>6, <2>3, <3>1, <3>2
  <2> HIDE DEF s3
  <2>5. /\ Beside(m, s3.grid, t.grid, s3.cur.row + 1) /\ Framed(s3, t)
        /\ t.damage = record_damage(s3, {s3.cur.row}).damage
    BY <1>8, <2>4, PutIs
  <2> HIDE DEF t
  <2>6. Beside(m, s2.grid, t.grid, r + 1)
    BY <2>4, <2>5, BesideTwice
  <2>7. t.damage = record_damage(s2, {r}).damage
    <3>1. record_damage(s3, {r}).damage = s3.damage \cup ({r} \cap 0..m-1)
      BY <2>4, DamageIs
    <3>2. record_damage(s2, {r}).damage = s2.damage \cup ({r} \cap 0..m-1)
      BY <1>6, DamageIs
    <3> QED BY <2>4, <2>5, <3>1, <3>2
  <2>8. Covered(m, s2, t)
    BY <1>6, <2>1, <2>6, <2>7, LineCovered
  <2>9. t.last = c
    BY <1>4, <1>5, <1>6, <2>4, <2>5 DEF Framed
  <2>10. Drawn(m, s, s1)
    BY <1>4, <1>5, DrawnTwice, QuietCovers DEF Covered
  <2>11. Drawn(m, s, t) \/ (w = 2 /\ \E i \in 1..m : DrawnBut(m, s, t, i))
    <3>1. CASE Drawn(m, s1, s2)
      BY <2>8, <2>10, <3>1, DrawnTwice DEF Covered
    <3>2. CASE w = 2 /\ DrawnBut(m, s1, s2, s1.cur.row + 1)
      <4>1. s1.cur.row + 1 \in 1..m
        BY <1>5, LiveFacts, Bounds
      <4>2. DrawnBut(m, s, t, s1.cur.row + 1)
        BY <2>8, <2>10, <3>2, DrawnButOne DEF Covered
      <4> QED BY <3>2, <4>1, <4>2
    <3> QED BY <1>6, <3>1, <3>2
  <2>12. s.bottom # 1 \/ w # 2 => \E k \in 0..m : Extended(s.grid, t.grid, k)
    <3> HAVE s.bottom # 1 \/ w # 2
    <3>1. \E k \in 0..m : Extended(s0.grid, s2.grid, k)
      <4>1. ASSUME s2 = s1, s1.grid.sb = s0.grid.sb
            PROVE  Extended(s0.grid, s2.grid, 0)
        BY <1>3, <4>1, LiveFacts, NothingPushed
      <4>2. ASSUME s2 = s1, Extended(s0.grid, s1.grid, 1)
            PROVE  Extended(s0.grid, s2.grid, 1)
        BY <4>2
      <4>3. ASSUME s.bottom # 1, Fitted(s1, s2)
            PROVE  \E k \in 0..m : Extended(s0.grid, s2.grid, k)
        BY <1>3, <1>4, <1>5, <4>3, WrappedFitted
      <4> QED BY <1>2, <1>5, <1>6, <4>1, <4>2, <4>3 DEF Wrapped
    <3>2. PICK k \in 0..m : Extended(s0.grid, s2.grid, k)
      BY <3>1
    <3>3. t.grid.sb = s2.grid.sb /\ s0.grid = s.grid
      BY <1>4, <2>8 DEF Covered, Quiet
    <3>4. Extended(s.grid, t.grid, k)
      BY <3>2, <3>3 DEF Extended
    <3> QED BY <3>4
  <2> QED BY <2>9, <2>11, <2>12 DEF Printed
<1> HIDE DEF t, w
<1> QED BY <1>1, <1>7, <1>8

----------------------------------------------------------------------------
(* The steps: what they show and what the history gains *)

(* The two things the theorems say of a step, for the functions without an     *)
(* exception to them.                                                          *)
Shows == screen.vp = 0 => Changed \subseteq damage'

Grows ==
  \E k \in 0..rows(screen) :
    Text(screen'.grid.sb) = Text(Trim(screen.grid.sb \o SubSeq(screen.grid.lines, 1, k)))

(* With the view at the bottom the display shows the lines of the grid. *)
LEMMA BottomView ==
  ASSUME NEW n \in Positive, NEW m \in Positive, NEW s \in Screens(n, m), s.vp = 0, NEW r \in 0..m-1
  PROVE  viewport_row(s, r) = s.grid.lines[r + 1]
<1> DEFINE k == Len(s.grid.sb)
<1>1. k \in Nat /\ m \in Nat /\ Rows(s.grid) = m
  <2>1. s.grid \in Grids(n, m)
    BY ScreenFacts
  <2> QED BY <2>1, GridFacts
<1> HIDE DEF k
<1>2. Greater(k + r - s.vp, 0) = k + r /\ ~(k + r < k) /\ (k + r) - k = r
  BY <1>1 DEF Greater
<1>3. RowIndex(s.grid, r) = r + 1
  BY <1>1 DEF RowIndex, Lesser
<1>4. viewport_row(s, r) = LET v == Greater(k + r - s.vp, 0)
                           IN  IF v < k THEN s.grid.sb[v + 1] ELSE s.grid.lines[RowIndex(s.grid, v - k)]
  BY DEF viewport_row, k
<1> QED BY <1>2, <1>3, <1>4

(* What is seen of a screen that the terminal has taken from its program. *)
LEMMA FeedSeen ==
  ASSUME TerminalInv, NEW t, Feed(t), t \in Screens(cols(screen), rows(screen))
  PROVE  /\ screen'.grid = t.grid /\ damage' = t.damage /\ screen'.last = t.last
         /\ AllRows(screen) \cap AllRows(screen') = 0..rows(screen)-1
         /\ screen.vp = 0 =>
              \A r \in 0..rows(screen)-1 : /\ viewport_row(screen, r) = screen.grid.lines[r + 1]
                                           /\ viewport_row(screen', r) = t.grid.lines[r + 1]
<1> DEFINE n == cols(screen)
           m == rows(screen)
           u == [scroll_viewport_reset(t) EXCEPT !.damage = {}]
<1>1. n \in Positive /\ m \in Positive /\ screen \in Screens(n, m) /\ t \in Screens(n, m)
  BY DEF TerminalInv, Proper
<1>2. screen' = u /\ damage' = t.damage
  BY DEF Feed
<1> HIDE DEF n, m
<1>3. u \in Screens(n, m) /\ u.grid = t.grid
  BY <1>1, TakenIs
<1>4. u.vp = 0 /\ u.last = t.last
  BY <1>1 DEF scroll_viewport_reset, Screens
<1> HIDE DEF u
<1>5. rows(u) = m /\ rows(screen) = m
  BY <1>1, <1>3, ScreenFacts
<1>6. AllRows(screen) \cap AllRows(u) = 0..m-1
  BY <1>5 DEF AllRows
<1>7. ASSUME screen.vp = 0, NEW r \in 0..m-1
      PROVE  viewport_row(screen, r) = screen.grid.lines[r + 1] /\ viewport_row(u, r) = t.grid.lines[r + 1]
  BY <1>1, <1>3, <1>4, <1>7, BottomView
<1>8. screen'.grid = t.grid /\ screen'.last = t.last
  BY <1>2, <1>3, <1>4
<1>9. AllRows(screen) \cap AllRows(screen') = 0..m-1
  BY <1>2, <1>6
<1>10. screen.vp = 0 => \A r \in 0..m-1 : /\ viewport_row(screen, r) = screen.grid.lines[r + 1]
                                          /\ viewport_row(screen', r) = t.grid.lines[r + 1]
  BY <1>2, <1>7
<1> QED BY <1>2, <1>8, <1>9, <1>10 DEF m

(* So what holds of the screen it was given holds of the step. *)
LEMMA FeedShows ==
  ASSUME TerminalInv, NEW t, Feed(t), t \in Screens(cols(screen), rows(screen))
  PROVE  /\ Drawn(rows(screen), screen, t) => Shows
         /\ \A r \in 1..rows(screen) :
              screen.vp = 0 /\ DrawnBut(rows(screen), screen, t, r) => Changed \ damage' \subseteq {r - 1}
<1> DEFINE m == rows(screen)
           Differs(r) == viewport_row(screen, r).cells # viewport_row(screen', r).cells
<1>1. m \in Nat
  BY DEF TerminalInv, Proper, Positive
<1>2. /\ damage' = t.damage /\ AllRows(screen) \cap AllRows(screen') = 0..m-1
      /\ screen.vp = 0 => \A r \in 0..m-1 : /\ viewport_row(screen, r) = screen.grid.lines[r + 1]
                                            /\ viewport_row(screen', r) = t.grid.lines[r + 1]
  BY FeedSeen
<1>3. Changed = {r \in 0..m-1 : Differs(r)}
  BY <1>2 DEF Changed
<1>4. screen.vp = 0 => \A r \in 0..m-1 : Differs(r) => t.grid.lines[r + 1].cells # screen.grid.lines[r + 1].cells
  BY <1>2
<1> HIDE DEF m, Differs
<1>5. ASSUME Drawn(m, screen, t), screen.vp = 0, NEW r \in 0..m-1, Differs(r)
      PROVE  r \in damage'
  <2>1. r + 1 \in 1..m /\ (r + 1) - 1 = r
    BY <1>1
  <2>2. (r + 1) - 1 \in t.damage \/ t.grid.lines[r + 1].cells = screen.grid.lines[r + 1].cells
    BY <1>5, <2>1 DEF Drawn
  <2> QED BY <1>2, <1>4, <1>5, <2>1, <2>2
<1>6. ASSUME NEW x \in 1..m, DrawnBut(m, screen, t, x), screen.vp = 0, NEW r \in 0..m-1, Differs(r), r \notin damage'
      PROVE  r = x - 1
  <2>1. r + 1 \in 1..m /\ (r + 1) - 1 = r
    BY <1>1
  <2>2. r + 1 = x \/ (r + 1) - 1 \in t.damage \/ t.grid.lines[r + 1].cells = screen.grid.lines[r + 1].cells
    BY <1>6, <2>1 DEF DrawnBut
  <2> QED BY <1>2, <1>4, <1>6, <2>1, <2>2
<1>7. Drawn(m, screen, t) => Shows
  BY <1>3, <1>5 DEF Shows
<1>8. \A x \in 1..m : screen.vp = 0 /\ DrawnBut(m, screen, t, x) => Changed \ damage' \subseteq {x - 1}
  BY <1>3, <1>6
<1> QED BY <1>7, <1>8 DEF m

(* The same of the history. *)
LEMMA FeedGrows ==
  ASSUME TerminalInv, NEW t, Feed(t), t \in Screens(cols(screen), rows(screen))
  PROVE  /\ (\E k \in 0..rows(screen) : Extended(screen.grid, t.grid, k)) => Grows
         /\ t.grid.sb = screen.grid.sb => Grows
<1> DEFINE n == cols(screen)
           m == rows(screen)
<1>1. n \in Positive /\ m \in Positive /\ screen.grid \in Grids(n, m) /\ t.grid \in Grids(n, m)
  BY ScreenFacts DEF TerminalInv, Proper
<1>2. screen'.grid = t.grid
  BY FeedSeen
<1>3. 0 \in 0..m
  BY <1>1 DEF Positive
<1> HIDE DEF n, m
<1>4. ASSUME NEW k \in 0..m, Extended(screen.grid, t.grid, k)
      PROVE  Grows
  <2>1. Text(t.grid.sb) = Text(Trim(screen.grid.sb \o SubSeq(screen.grid.lines, 1, k)))
    BY <1>1, <1>4, ExtendedText
  <2> QED BY <1>2, <2>1 DEF Grows, m
<1>5. ASSUME t.grid.sb = screen.grid.sb
      PROVE  Extended(screen.grid, t.grid, 0)
  BY <1>1, <1>5, NothingPushed
<1> QED BY <1>3, <1>4, <1>5 DEF m

(* A function that draws what it damages and leaves the history alone. *)
LEMMA FeedCovered ==
  ASSUME TerminalInv, NEW t, Feed(t), t \in Screens(cols(screen), rows(screen)), Covered(rows(screen), screen, t)
  PROVE  Shows /\ Grows
BY FeedShows, FeedGrows DEF Covered

(* The functions that move the cursor or change a setting, and those that      *)
(* erase or shift cells within their lines.                                    *)
CoveredOutput ==
  \/ MoveCursor \/ PositionCursor \/ CHA \/ VPA \/ Erase \/ SelectiveErase \/ ECH \/ EditChars
  \/ SetMargins \/ TabStops \/ SavedCursor \/ Protect \/ SetMode \/ SetOrigin \/ SetMarginMode \/ SaveModes

(* All of them draw what they damage and none touches the history.             *)
LEMMA CoveredOutputIs ==
  ASSUME TerminalInv, CoveredOutput
  PROVE  Shows /\ Grows
<1> DEFINE n == cols(screen)
           m == rows(screen)
           h == Rest(screen)
<1>1. OnScreen(screen)
  BY DEF CoveredOutput, MoveCursor, PositionCursor, CHA, VPA, Erase, SelectiveErase, EraseIn, ECH, EditChars,
         SetMargins, TabStops, SavedCursor, Protect, SetMode, SetOrigin, SetMarginMode, SaveModes, Feed
<1>2. n \in Positive /\ m \in Positive /\ screen \in Live(n, m, h)
  BY <1>1, ScreenIsLive
<1>3. ASSUME NEW t \in Live(n, m, h), Feed(t), Covered(m, screen, t)
      PROVE  Shows /\ Grows
  <2>1. t \in Screens(n, m)
    BY <1>3 DEF Live
  <2> QED BY <1>3, <2>1, FeedCovered
<1>4. Counts \subseteq Nat /\ 1 \in Nat
  BY TerminalAssumption DEF Positive
<1>5. rows(screen) \in Nat /\ cols(screen) \in Nat /\ screen.cur.row \in Nat /\ screen.cur.col \in Nat
  <2>1. n \in Nat /\ m \in Nat
    BY DEF TerminalInv, Proper, Positive
  <2>2. screen.cur.row \in Nat /\ screen.cur.col \in Nat
    <3> HIDE DEF n, m, h
    <3> QED BY <1>2, LiveFacts
  <2> QED BY <2>1, <2>2
<1> HIDE DEF n, m, h
<1>6. ASSUME NEW t, Feed(t), t \in Live(n, m, h), Quiet(screen, t)
      PROVE  Shows /\ Grows
  <2>1. Covered(m, screen, t)
    BY <1>6, QuietCovers
  <2> QED BY <1>3, <1>6, <2>1
<1>7. screen \in Screens(n, m)
  BY <1>2, LiveFacts
<1>13. CASE MoveCursor
  <2>1. PICK k \in Counts :
          \/ Feed(cursor_up(screen, k)) \/ Feed(cursor_down(screen, k))
          \/ Feed(cursor_right(screen, k)) \/ Feed(cursor_left(screen, k))
          \/ Feed(carriage_return(cursor_down(screen, k)))
          \/ Feed(carriage_return(cursor_up(screen, k)))
          \/ Feed(tab_forward(screen, k)) \/ Feed(tab_backward(screen, k))
    BY <1>13 DEF MoveCursor
  <2>2. /\ cursor_up(screen, k) \in Live(n, m, h) /\ cursor_down(screen, k) \in Live(n, m, h)
        /\ cursor_right(screen, k) \in Live(n, m, h) /\ cursor_left(screen, k) \in Live(n, m, h)
        /\ tab_forward(screen, k) \in Live(n, m, h) /\ tab_backward(screen, k) \in Live(n, m, h)
    BY <1>2, <1>4, CursorsKeep, TabsKeep
  <2>3. /\ carriage_return(cursor_down(screen, k)) \in Live(n, m, h)
        /\ carriage_return(cursor_up(screen, k)) \in Live(n, m, h)
    BY <1>2, <2>2, carriage_returnKeeps
  <2>4. /\ Quiet(screen, cursor_up(screen, k)) /\ Quiet(screen, cursor_down(screen, k))
        /\ Quiet(screen, cursor_right(screen, k)) /\ Quiet(screen, cursor_left(screen, k))
        /\ Quiet(screen, tab_forward(screen, k)) /\ Quiet(screen, tab_backward(screen, k))
    BY <1>2, <1>7, CursorsQuiet
  <2>5. ASSUME NEW t \in Live(n, m, h), Quiet(screen, t)
        PROVE  Quiet(screen, carriage_return(t))
    <3>1. Quiet(t, carriage_return(t))
      BY <1>2, LiveFacts, CursorsQuiet
    <3> QED BY <2>5, <3>1 DEF Quiet
  <2>6. Quiet(screen, carriage_return(cursor_down(screen, k))) /\ Quiet(screen, carriage_return(cursor_up(screen, k)))
    BY <2>2, <2>4, <2>5
  <2> QED BY <1>6, <2>1, <2>2, <2>3, <2>4, <2>6
<1>14. CASE PositionCursor \/ CHA \/ VPA
  <2>1. \E r \in Nat, c \in Nat : Feed(cursor_position(screen, r, c))
    <3>1. CASE PositionCursor
      BY <1>5, <3>1 DEF PositionCursor
    <3>2. CASE CHA
      <4>1. PICK c \in 1..cols(screen)+1 : Feed(cursor_position(screen, screen.cur.row + 1, c))
        BY <3>2 DEF CHA
      <4>2. screen.cur.row + 1 \in Nat /\ c \in Nat
        BY <1>5
      <4> QED BY <4>1, <4>2
    <3>3. CASE VPA
      <4>1. PICK r \in 1..rows(screen)+1 : Feed(cursor_position(screen, r, screen.cur.col + 1))
        BY <3>3 DEF VPA
      <4>2. r \in Nat /\ screen.cur.col + 1 \in Nat
        BY <1>5
      <4> QED BY <4>1, <4>2
    <3> QED BY <1>14, <3>1, <3>2, <3>3
  <2>2. PICK r \in Nat, c \in Nat : Feed(cursor_position(screen, r, c))
    BY <2>1
  <2>3. cursor_position(screen, r, c) \in Live(n, m, h)
    BY <1>2, cursor_positionKeeps
  <2>4. Quiet(screen, cursor_position(screen, r, c))
    BY <1>2, <1>7, CursorsQuiet
  <2> QED BY <1>6, <2>2, <2>3, <2>4
<1>17. ASSUME NEW selective, EraseIn(selective)
       PROVE  Shows /\ Grows
  <2>1. \/ \E mode \in {"below", "above", "all"} : Feed(erase_display(screen, mode, selective))
        \/ \E mode \in {"right", "left", "all"} : Feed(erase_line(screen, mode, selective))
    BY <1>17 DEF EraseIn
  <2>2. /\ \A mode \in {"below", "above", "all", "scrollback"} :
             erase_display(screen, mode, selective) \in Live(n, m, h)
        /\ \A mode \in {"right", "left", "all"} : erase_line(screen, mode, selective) \in Live(n, m, h)
    BY <1>2, ErasesKeep
  <2>3. /\ \A mode \in {"below", "above", "all"} : Covered(m, screen, erase_display(screen, mode, selective))
        /\ \A mode \in {"right", "left", "all"} : Covered(m, screen, erase_line(screen, mode, selective))
    BY <1>2, ErasesCovered
  <2> QED BY <1>3, <2>1, <2>2, <2>3
<1>18. CASE Erase \/ SelectiveErase
  BY <1>17, <1>18 DEF Erase, SelectiveErase
<1>21. CASE ECH \/ EditChars
  <2>1. PICK k \in Counts : \/ Feed(erase_chars_screen(screen, k))
                            \/ Feed(insert_chars(screen, k)) \/ Feed(delete_chars(screen, k))
    BY <1>21 DEF ECH, EditChars
  <2>2. /\ erase_chars_screen(screen, k) \in Live(n, m, h)
        /\ insert_chars(screen, k) \in Live(n, m, h) /\ delete_chars(screen, k) \in Live(n, m, h)
    BY <1>2, <1>4, EditsKeep
  <2>3. /\ Covered(m, screen, erase_chars_screen(screen, k))
        /\ Covered(m, screen, insert_chars(screen, k)) /\ Covered(m, screen, delete_chars(screen, k))
    BY <1>2, EditsCovered
  <2> QED BY <1>3, <2>1, <2>2, <2>3
<1>24. CASE SetMargins
  <2>1. PICK low \in {0, 2}, high \in {0, 3} :
          \/ Feed(set_scroll_region(screen, low, high))
          \/ Feed(set_left_right_margin(screen, low, high))
    BY <1>24 DEF SetMargins
  <2>2. low \in Nat /\ high \in Nat
    OBVIOUS
  <2>3. /\ set_scroll_region(screen, low, high) \in Live(n, m, h)
        /\ set_left_right_margin(screen, low, high) \in Live(n, m, h)
    BY <1>2, <2>2, MarginsKeep
  <2>4. Quiet(screen, set_scroll_region(screen, low, high)) /\ Quiet(screen, set_left_right_margin(screen, low, high))
    BY <1>2, <1>7, SettingsQuiet
  <2> QED BY <1>6, <2>1, <2>3, <2>4
<1>25. CASE TabStops
  <2>1. \/ \E all \in BOOLEAN : Feed(clear_tab_stop(screen, all))
        \/ Feed(set_tab_stop(screen))
    BY <1>25 DEF TabStops
  <2>2. /\ \A all \in BOOLEAN : clear_tab_stop(screen, all) \in Live(n, m, h)
        /\ set_tab_stop(screen) \in Live(n, m, h)
    BY <1>2, StopsKeep
  <2>3. Quiet(screen, set_tab_stop(screen)) /\ \A all : Quiet(screen, clear_tab_stop(screen, all))
    BY <1>2, <1>7, SettingsQuiet
  <2> QED BY <1>6, <2>1, <2>2, <2>3
<1>26. CASE SavedCursor
  <2>1. Feed(save_cursor(screen)) \/ Feed(restore_cursor(screen))
    BY <1>26 DEF SavedCursor
  <2>2. Rest(screen) = h
    BY DEF h
  <2>3. save_cursor(screen) \in Live(n, m, h) /\ restore_cursor(screen) \in Live(n, m, h)
    BY <1>2, <1>7, <2>2, save_cursorKeeps, restore_cursorKeeps
  <2>4. Quiet(screen, save_cursor(screen)) /\ Quiet(screen, restore_cursor(screen))
    BY <1>2, <1>7, SettingsQuiet
  <2> QED BY <1>6, <2>1, <2>3, <2>4
<1>27. CASE Protect
  <2>1. PICK b \in BOOLEAN : Feed([screen EXCEPT !.prot = b])
    BY <1>27 DEF Protect
  <2>2. [screen EXCEPT !.prot = b] \in Live(n, m, h)
    BY <1>2, OtherProt
  <2>3. Quiet(screen, [screen EXCEPT !.prot = b])
    BY <1>2, <1>7, SettingsQuiet
  <2> QED BY <1>6, <2>1, <2>2, <2>3
<1>28. CASE SetMode
  <2>1. PICK x \in {"insert", "newline", "autowrap", "reverse", "allow"}, b \in BOOLEAN :
          Feed([screen EXCEPT !.modes[x] = b])
    BY <1>28 DEF SetMode
  <2>2. [screen EXCEPT !.modes[x] = b] \in Live(n, m, h)
    BY <1>2, ModesKeep
  <2>3. Quiet(screen, [screen EXCEPT !.modes[x] = b])
    BY <1>2, <1>7, SettingsQuiet
  <2> QED BY <1>6, <2>1, <2>2, <2>3
<1>29. CASE SetOrigin
  <2>1. PICK b \in BOOLEAN : Feed(cursor_position([screen EXCEPT !.modes.origin = b], 1, 1))
    BY <1>29 DEF SetOrigin
  <2> DEFINE t == [screen EXCEPT !.modes.origin = b]
  <2>2. t \in Live(n, m, h)
    BY <1>2, OtherOrigin
  <2>3. Feed(cursor_position(t, 1, 1)) /\ t.grid = screen.grid /\ t.damage = screen.damage
    BY <1>7, <2>1 DEF Screens
  <2> HIDE DEF t
  <2>4. cursor_position(t, 1, 1) \in Live(n, m, h)
    BY <1>2, <1>4, <2>2, cursor_positionKeeps
  <2>5. Quiet(t, cursor_position(t, 1, 1))
    BY <1>2, <2>2, LiveFacts, CursorsQuiet
  <2>6. Quiet(screen, cursor_position(t, 1, 1))
    BY <2>3, <2>5 DEF Quiet
  <2> QED BY <1>6, <2>3, <2>4, <2>6
<1>30. CASE SetMarginMode
  <2> DEFINE t == [screen EXCEPT !.modes.margins = TRUE]
             u == [screen EXCEPT !.modes.margins = FALSE, !.left = 0, !.right = cols(screen)]
  <2>1. PICK b \in BOOLEAN : Feed(IF b THEN t ELSE u)
    BY <1>30 DEF SetMarginMode
  <2>2. TRUE \in BOOLEAN
    OBVIOUS
  <2>3. t \in Live(n, m, h) /\ u \in Live(n, m, h)
    BY <1>2, <2>2, ModesKeep, MarginsOffKeeps
  <2>4. Quiet(screen, t) /\ Quiet(screen, u)
    BY <1>7 DEF Quiet, Screens
  <2> HIDE DEF t, u
  <2> QED BY <1>6, <2>1, <2>3, <2>4
<1>31. CASE SaveModes
  <2>1. Feed(save_dec_modes(screen))
    BY <1>31 DEF SaveModes
  <2>2. save_dec_modes(screen) \in Live(n, m, h)
    BY <1>2, save_dec_modesKeeps
  <2>3. Quiet(screen, save_dec_modes(screen))
    BY <1>2, <1>7, SettingsQuiet
  <2> QED BY <1>6, <2>1, <2>2, <2>3
<1> QED
  BY <1>13, <1>14, <1>18, <1>21, <1>24, <1>25, <1>26, <1>27, <1>28, <1>29, <1>30, <1>31 DEF CoveredOutput

(* XTRESTORE and DECSTR change settings only, too; they differ in what else    *)
(* they may change.                                                            *)
LEMMA ResettersAreCovered ==
  ASSUME TerminalInv, RestoreModes \/ DECSTR
  PROVE  Shows /\ Grows
<1> DEFINE n == cols(screen)
           m == rows(screen)
           t == restore_dec_modes(screen)
           u == soft_reset(screen)
<1>1. Feed(t) \/ Feed(u)
  BY DEF RestoreModes, DECSTR
<1>2. OnScreen(screen)
  BY <1>1 DEF Feed
<1>3. n \in Positive /\ m \in Positive /\ screen \in Live(n, m, Rest(screen))
  BY <1>2, ScreenIsLive
<1>4. t \in Screens(n, m) /\ u \in Screens(n, m)
  <2> HIDE DEF n, m
  <2>1. t \in Live(n, m, <<screen.hidden, screen.hidden_cur, t.modes.alt>>)
    BY <1>3, restore_dec_modesKeeps
  <2>2. u \in Live(n, m, <<screen.hidden, screen.hidden_cur, FALSE>>)
    BY <1>3, soft_resetKeeps
  <2> HIDE DEF t, u
  <2> QED BY <1>3, <2>1, <2>2, LiveFacts
<1>5. Quiet(screen, t) /\ Quiet(screen, u)
  <2> HIDE DEF n, m
  <2>1. screen \in Screens(n, m)
    BY <1>3, LiveFacts
  <2> QED BY <1>3, <2>1, SettingsQuiet
<1>6. Covered(m, screen, t) /\ Covered(m, screen, u)
  BY <1>5, QuietCovers
<1> HIDE DEF t, u
<1> QED BY <1>1, <1>4, <1>6, FeedCovered

(* The functions that scroll.                                                  *)
LEMMA ScrollOutputIs ==
  ASSUME TerminalInv, execute_c0 \/ Index \/ NextLine \/ SU \/ SD
  PROVE  Shows /\ Grows
<1> DEFINE n == cols(screen)
           m == rows(screen)
           h == Rest(screen)
<1>1. OnScreen(screen)
  BY DEF execute_c0, Index, NextLine, SU, SD, Feed
<1>2. n \in Positive /\ m \in Positive /\ screen \in Live(n, m, h)
  BY <1>1, ScreenIsLive
<1>3. ASSUME NEW t \in Live(n, m, h), Feed(t), Drawn(m, screen, t),
             \E k \in 0..m : Extended(screen.grid, t.grid, k)
      PROVE  Shows /\ Grows
  <2>1. t \in Screens(n, m)
    BY <1>3 DEF Live
  <2> QED BY <1>3, <2>1, FeedShows, FeedGrows
<1>4. Counts \subseteq Nat /\ Counts \subseteq Positive /\ 1 \in Nat
  BY TerminalAssumption DEF Positive
<1> HIDE DEF n, m, h
<1>5. screen.grid \in Grids(n, m) /\ 0 \in 0..m /\ 1 \in 0..m /\ screen \in Screens(n, m)
  BY <1>2, LiveFacts, Bounds
<1>6. ASSUME NEW t, t.grid.sb = screen.grid.sb
      PROVE  \E k \in 0..m : Extended(screen.grid, t.grid, k)
  BY <1>2, <1>5, <1>6, NothingPushed
<1>7. ASSUME NEW t, Feed(t), t \in Live(n, m, h), Quiet(screen, t)
      PROVE  Shows /\ Grows
  <2>1. Drawn(m, screen, t) /\ t.grid.sb = screen.grid.sb
    BY <1>7, QuietCovers DEF Covered
  <2> QED BY <1>3, <1>6, <1>7, <2>1
<1>8. ASSUME NEW s \in Live(n, m, h), Quiet(screen, s), Feed(linefeed(s))
      PROVE  Shows /\ Grows
  <2> DEFINE t == linefeed(s)
  <2>1. t \in Live(n, m, h) /\ Drawn(m, s, t) /\ LineFed(s, t)
    BY <1>2, linefeedKeeps, linefeedIs
  <2> HIDE DEF t
  <2>2. Drawn(m, screen, t)
    BY <1>8, <2>1 DEF Quiet, Drawn
  <2>3. t.grid.sb = screen.grid.sb \/ Extended(screen.grid, t.grid, 1)
    BY <1>8, <2>1 DEF Quiet, LineFed
  <2>4. \E k \in 0..m : Extended(screen.grid, t.grid, k)
    BY <1>5, <1>6, <2>3
  <2>5. Feed(t)
    BY <1>8 DEF t
  <2> QED BY <1>3, <2>1, <2>2, <2>4, <2>5
<1>9. Quiet(screen, screen)
  BY DEF Quiet
<1>10. /\ backspace(screen) \in Live(n, m, h) /\ tab_forward(screen, 1) \in Live(n, m, h)
       /\ carriage_return(screen) \in Live(n, m, h)
  BY <1>2, <1>4, backspaceKeeps, TabsKeep, carriage_returnKeeps
<1>11. /\ Quiet(screen, backspace(screen)) /\ Quiet(screen, tab_forward(screen, 1))
       /\ Quiet(screen, carriage_return(screen))
  BY <1>2, <1>5, CursorsQuiet
<1>12. CASE execute_c0
  <2>1. \/ Feed(backspace(screen)) \/ Feed(tab_forward(screen, 1))
        \/ Feed(linefeed(screen)) \/ Feed(carriage_return(screen))
    BY <1>12 DEF execute_c0
  <2> QED BY <1>2, <1>7, <1>8, <1>9, <1>10, <1>11, <2>1
<1>13. CASE Index \/ NextLine
  <2>1. Feed(linefeed(screen)) \/ Feed(linefeed(carriage_return(screen)))
    BY <1>13 DEF Index, NextLine
  <2> QED BY <1>2, <1>8, <1>9, <1>10, <1>11, <2>1
<1>14. CASE SU \/ SD
  <2>1. PICK k \in Counts : Feed(scroll_up_screen(screen, k)) \/ Feed(scroll_down_screen(screen, k))
    BY <1>14 DEF SU, SD
  <2>2. k \in Nat /\ k \in Positive
    BY <1>4
  <2>3. /\ scroll_up_screen(screen, k) \in Live(n, m, h) /\ scroll_down_screen(screen, k) \in Live(n, m, h)
    BY <1>2, <2>2, ScreenScrollsKeep
  <2>4. /\ Drawn(m, screen, scroll_up_screen(screen, k)) /\ Drawn(m, screen, scroll_down_screen(screen, k))
        /\ \E j \in 0..m : Extended(screen.grid, scroll_up_screen(screen, k).grid, j)
    BY <1>2, <2>2, ScreenScrollsAre
  <2>5. \E j \in 0..m : Extended(screen.grid, scroll_down_screen(screen, k).grid, j)
    BY <1>2, <1>6, ShiftsOfScreen DEF SameHistory
  <2> QED BY <1>3, <2>1, <2>3, <2>4, <2>5
<1> QED BY <1>12, <1>13, <1>14

(* The functions that record no damage leave the history alone, all but RIS.   *)
LEMMA SilentGrows ==
  ASSUME TerminalInv, IL \/ DL \/ RI \/ Rectangles \/ DECALN
  PROVE  Grows
<1> DEFINE n == cols(screen)
           m == rows(screen)
           h == Rest(screen)
<1>1. OnScreen(screen)
  BY DEF IL, DL, RI, Rectangles, DECALN, Feed
<1>2. n \in Positive /\ m \in Positive /\ screen \in Live(n, m, h)
  BY <1>1, ScreenIsLive
<1>3. ASSUME NEW t, Feed(t), t \in Live(n, m, h), SameHistory(screen, t)
      PROVE  Grows
  <2>1. t \in Screens(n, m)
    BY <1>3 DEF Live
  <2> QED BY <1>3, <2>1, FeedGrows DEF SameHistory
<1>4. Counts \subseteq Nat
  BY TerminalAssumption DEF Positive
<1>5. rows(screen) \in Int
  BY DEF TerminalInv, Proper, Positive
<1> HIDE DEF n, m, h
<1>6. CASE IL \/ DL
  <2>1. PICK k \in Counts : Feed(insert_lines_screen(screen, k)) \/ Feed(delete_lines_screen(screen, k))
    BY <1>6 DEF IL, DL
  <2>2. insert_lines_screen(screen, k) \in Live(n, m, h) /\ delete_lines_screen(screen, k) \in Live(n, m, h)
    BY <1>2, <1>4, LineOpsKeep
  <2>3. SameHistory(screen, insert_lines_screen(screen, k)) /\ SameHistory(screen, delete_lines_screen(screen, k))
    BY <1>2, ShiftsOfScreen
  <2> QED BY <1>3, <2>1, <2>2, <2>3
<1>7. CASE RI \/ DECALN
  <2>1. Feed(reverse_index(screen)) \/ Feed(decaln(screen))
    BY <1>7 DEF RI, DECALN
  <2>2. reverse_index(screen) \in Live(n, m, h) /\ decaln(screen) \in Live(n, m, h)
    BY <1>2, reverse_indexKeeps, decalnKeeps
  <2>3. SameHistory(screen, reverse_index(screen)) /\ SameHistory(screen, decaln(screen))
    BY <1>2, ShiftsOfScreen
  <2> QED BY <1>3, <2>1, <2>2, <2>3
<1>8. CASE Rectangles
  <2>1. PICK t \in 1..2 :
          \/ \E c \in Chars \ Zero : Feed(fill_rect(screen, c, t, 1, rows(screen), 2))
          \/ Feed(selective_erase_rect(screen, t, 1, rows(screen), 2))
          \/ Feed(copy_rect(screen, t, 1, 2, 2, t, 3 - t))
    BY <1>8 DEF Rectangles
  <2>2. t \in Int /\ 3 - t \in Int /\ 1 \in Int /\ 2 \in Int
    OBVIOUS
  <2>3. /\ \A c \in Chars : fill_rect(screen, c, t, 1, rows(screen), 2) \in Live(n, m, h)
        /\ selective_erase_rect(screen, t, 1, rows(screen), 2) \in Live(n, m, h)
    BY <1>2, <1>5, <2>2, RectanglesKeep
  <2>4. copy_rect(screen, t, 1, 2, 2, t, 3 - t) \in Live(n, m, h)
    BY <1>2, <2>2, RectanglesKeep
  <2>5. \A cells : SameHistory(screen, WithCells(screen, cells))
    BY <1>2, ShiftsOfScreen
  <2>6. \A c, l, b, r : SameHistory(screen, fill_rect(screen, c, t, l, b, r))
    BY <2>5 DEF fill_rect
  <2>7. \A l, b, r : SameHistory(screen, selective_erase_rect(screen, t, l, b, r))
    BY <2>5 DEF selective_erase_rect
  <2>8. \A l, b, r, i, c : SameHistory(screen, copy_rect(screen, t, l, b, r, i, c))
    BY <2>5 DEF copy_rect
  <2> QED BY <1>3, <2>1, <2>3, <2>4, <2>6, <2>7, <2>8
<1> QED BY <1>6, <1>7, <1>8

(* The functions that clear the history or exchange the screens draw what they *)
(* damage.                                                                     *)
LEMMA ExchangeShows ==
  ASSUME TerminalInv, EraseScrollback \/ EnterAlt \/ LeaveAlt
  PROVE  Shows
<1> DEFINE n == cols(screen)
           m == rows(screen)
           h == Rest(screen)
<1>1. OnScreen(screen)
  BY DEF EraseScrollback, EnterAlt, LeaveAlt, Feed
<1>2. n \in Positive /\ m \in Positive /\ screen \in Live(n, m, h)
  BY <1>1, ScreenIsLive
<1>3. ASSUME NEW t, Feed(t), t \in Screens(n, m), Drawn(m, screen, t)
      PROVE  Shows
  BY <1>3, FeedShows
<1> HIDE DEF n, m, h
<1>4. ASSUME NEW t, Redrawn(m, screen, t)
      PROVE  Drawn(m, screen, t)
  <2>1. m \in Nat
    BY <1>2 DEF Positive
  <2>2. \A i \in 1..m : i - 1 \in 0..m-1
    BY <2>1
  <2> QED BY <1>4, <2>2 DEF Drawn, Redrawn
<1>5. screen \in Screens(n, m) /\ Drawn(m, screen, screen)
  BY <1>2, LiveFacts DEF Drawn
<1>6. CASE EraseScrollback
  <2>1. Feed(erase_display(screen, "scrollback", FALSE))
    BY <1>6 DEF EraseScrollback
  <2>2. erase_display(screen, "scrollback", FALSE) \in Live(n, m, h)
    BY <1>2, ErasesKeep
  <2>3. Drawn(m, screen, erase_display(screen, "scrollback", FALSE))
    BY <1>2, ErasesCovered
  <2> QED BY <1>2, <1>3, <2>1, <2>2, <2>3, LiveFacts
<1>7. CASE EnterAlt
  <2>1. PICK save \in BOOLEAN : Feed(enter_alt_screen(screen, save))
    BY <1>7 DEF EnterAlt
  <2> DEFINE t == enter_alt_screen(screen, save)
  <2>2. t = screen \/ (t \in Screens(n, m) /\ Redrawn(m, screen, t))
    <3>1. CASE screen.modes.alt
      BY <3>1 DEF enter_alt_screen
    <3>2. CASE ~screen.modes.alt
      <4>1. /\ t \in Live(n, m, <<screen.grid, screen.cur, TRUE>>)
            /\ Redrawn(m, screen, t)
        BY <1>2, <3>2, enter_alt_screenKeeps
      <4> QED BY <4>1 DEF Live
    <3> QED BY <3>1, <3>2
  <2> QED BY <1>3, <1>4, <1>5, <2>1, <2>2
<1>8. CASE LeaveAlt
  <2>1. PICK restore \in BOOLEAN : Feed(leave_alt_screen(screen, restore))
    BY <1>8 DEF LeaveAlt
  <2> DEFINE t == leave_alt_screen(screen, restore)
  <2>2. t = screen \/ (t \in Screens(n, m) /\ Redrawn(m, screen, t))
    <3>1. CASE ~screen.modes.alt
      BY <3>1 DEF leave_alt_screen
    <3>2. CASE screen.modes.alt
      BY <1>2, <3>2, leave_alt_screenKeeps
    <3> QED BY <3>1, <3>2
  <2> QED BY <1>3, <1>4, <1>5, <2>1, <2>2
<1> QED BY <1>6, <1>7, <1>8

(* The user's scrolling and resizing have every row drawn again, and the       *)
(* scrolling leaves the grid alone.                                            *)
LEMMA UserShows ==
  ASSUME TerminalInv, ScrollView \/ Resize
  PROVE  Shows /\ (ScrollView => Grows)
<1>1. Changed \subseteq AllRows(screen) \cap AllRows(screen')
  BY DEF Changed
<1>2. damage' = AllRows(screen) \/ damage' = AllRows(screen')
  BY DEF ScrollView, Resize
<1>3. Shows
  BY <1>1, <1>2 DEF Shows
<1>4. ASSUME ScrollView
      PROVE  Grows
  <2> DEFINE n == cols(screen)
             m == rows(screen)
  <2>1. n \in Positive /\ m \in Positive /\ screen \in Screens(n, m)
    BY DEF TerminalInv, Proper
  <2>2. screen'.grid = screen.grid
    <3>1. PICK v : screen' = [screen EXCEPT !.vp = v]
      BY <1>4 DEF ScrollView, scroll_viewport_up, scroll_viewport_down
    <3> QED BY <2>1, <3>1 DEF Screens
  <2>3. 0 \in 0..m
    BY <2>1 DEF Positive
  <2> HIDE DEF n, m
  <2>4. screen.grid \in Grids(n, m)
    BY <2>1, ScreenFacts
  <2>5. Extended(screen.grid, screen.grid, 0)
    BY <2>1, <2>4, NothingPushed
  <2>6. Text(screen.grid.sb) = Text(Trim(screen.grid.sb \o SubSeq(screen.grid.lines, 1, 0)))
    BY <2>1, <2>3, <2>4, <2>5, ExtendedText
  <2> QED BY <2>2, <2>3, <2>6 DEF Grows, m
<1> QED BY <1>3, <1>4

(* DECCOLM clears every row.                                                   *)
LEMMA DECCOLMShows ==
  ASSUME TerminalInv, DECCOLM
  PROVE  Shows
<1> DEFINE k == cols(screen)
           m == rows(screen)
<1>1. PICK b \in BOOLEAN : Feed(IF screen.modes.allow THEN WithColumns(screen, ColumnsOf[b]) ELSE screen)
  BY DEF DECCOLM
<1>2. OnScreen(screen)
  BY <1>1 DEF Feed
<1>3. k \in Positive /\ m \in Positive /\ screen \in Live(k, m, Rest(screen))
  BY <1>2, ScreenIsLive
<1>4. CASE ~screen.modes.allow
  <2>1. screen \in Screens(k, m) /\ Drawn(m, screen, screen)
    BY <1>3, LiveFacts DEF Drawn
  <2> QED BY <1>1, <1>4, <2>1, FeedShows
<1>5. CASE screen.modes.allow
  <2> DEFINE n == ColumnsOf[b]
             r == resize(screen, n, m)
             e == EraseRows(r, AllRows(r), FALSE)
             t == WithColumns(screen, n)
  <2>1. n \in Positive
    BY TerminalAssumption
  <2>2. damage' = t.damage
    BY <1>1, <1>5 DEF Feed
  <2>3. t = [At(e, 0, 0) EXCEPT !.top = 0, !.bottom = m]
    BY DEF WithColumns, erase_display
  <2> HIDE DEF k, m, n
  <2>4. r \in Live(n, m, Rest(r))
    BY <1>3, <2>1, resizeKeeps DEF Live
  <2>5. AllRows(r) = 0..m-1
    BY <1>3, <2>1, <2>4, LiveFacts, ScreenFacts DEF AllRows
  <2> HIDE DEF r
  <2>6. AllRows(r) \cap 0..m-1 \subseteq e.damage /\ e \in Live(n, m, Rest(r))
    BY <1>3, <2>1, <2>4, EraseRowsCovered, EraseRowsKeeps
  <2> HIDE DEF e, t
  <2>7. t.damage = e.damage
    <3>1. e \in Screens(n, m)
      BY <1>3, <2>1, <2>6, LiveFacts
    <3> QED BY <2>3, <3>1 DEF At, Screens
  <2>8. 0..m-1 \subseteq damage'
    BY <2>2, <2>5, <2>6, <2>7
  <2>9. Changed \subseteq AllRows(screen)
    BY DEF Changed
  <2> QED BY <2>8, <2>9 DEF Shows, AllRows, m
<1> QED BY <1>4, <1>5

(* What printing a character may do besides.                                   *)
LEMMA PrintIs ==
  ASSUME TerminalInv, PrintChar
  PROVE  /\ \/ Shows
            \/ screen.vp # 0
            \/ Cardinality(Changed \ damage') = 1 /\ screen'.last \in Wide
         /\ Grows \/ (screen.bottom = 1 /\ screen'.last \in Wide)
<1> DEFINE n == cols(screen)
           m == rows(screen)
           h == Rest(screen)
<1>1. PICK c \in Chars : Feed(write_char(screen, c))
  BY DEF PrintChar
<1>2. n \in Positive /\ m \in Positive /\ screen \in Live(n, m, h)
  BY <1>1, ScreenIsLive DEF Feed
<1> DEFINE t == write_char(screen, c)
<1>3. t \in Live(n, m, h) /\ Printed(m, screen, t, c)
  <2> HIDE DEF n, m, h
  <2> QED BY <1>2, write_charKeeps, write_charIs
<1>4. Feed(t)
  BY <1>1
<1> HIDE DEF t
<1>5. t \in Screens(n, m)
  BY <1>3 DEF Live
<1>6. screen'.last = t.last
  BY <1>4, <1>5, FeedSeen
<1>7. char_width(c) = 2 => c \in Wide
  BY DEF char_width
<1>8. /\ Drawn(m, screen, t) => Shows
      /\ \A r \in 1..m : screen.vp = 0 /\ DrawnBut(m, screen, t, r) => Changed \ damage' \subseteq {r - 1}
  BY <1>4, <1>5, FeedShows
<1>9. (\E k \in 0..m : Extended(screen.grid, t.grid, k)) => Grows
  BY <1>4, <1>5, FeedGrows
<1> HIDE DEF m
<1>10. Grows \/ (screen.bottom = 1 /\ screen'.last \in Wide)
  BY <1>3, <1>6, <1>7, <1>9 DEF Printed
<1>11. ASSUME NEW r \in 1..m, DrawnBut(m, screen, t, r), screen.vp = 0
       PROVE  Shows \/ Cardinality(Changed \ damage') = 1
  <2>1. Changed \ damage' \subseteq {r - 1}
    BY <1>8, <1>11
  <2>2. CASE Changed \ damage' = {}
    BY <2>2 DEF Shows
  <2>3. CASE Changed \ damage' = {r - 1}
    BY <2>3, FS_Singleton
  <2> QED BY <2>1, <2>2, <2>3
<1> QED BY <1>3, <1>6, <1>7, <1>8, <1>10, <1>11 DEF Printed

(* What a chunk of output or a step of the user changed on the display is      *)
(* reported, so that it is drawn again: but for the functions in Silent, a     *)
(* view that was scrolled back, REP, and the one row a wide character pads.    *)
THEOREM TerminalDamageCoversChange == Spec => DamageCoversChange
<1> DEFINE Reported ==
      \/ Changed \subseteq damage'
      \/ screen.vp # 0 \/ Silent \/ Repeat
      \/ Cardinality(Changed \ damage') = 1 /\ screen'.last \in Wide /\ PrintChar
<1>1. TerminalInv /\ [Next]_vars => [Reported]_vars
  <2> SUFFICES ASSUME TerminalInv, Next, screen.vp = 0, ~Silent, ~Repeat
               PROVE  Reported
    OBVIOUS
  <2>1. Shows => Reported
    BY DEF Shows
  <2>2. CASE PrintChar
    BY <2>1, <2>2, PrintIs
  <2> HIDE DEF Reported
  <2>3. ASSUME ~PrintChar
        PROVE  Shows
    <3>1. \/ CoveredOutput \/ execute_c0 \/ Index \/ NextLine \/ SU \/ SD \/ RestoreModes \/ DECSTR
          \/ EraseScrollback \/ EnterAlt \/ LeaveAlt \/ ScrollView \/ Resize \/ DECCOLM
      BY <2>3 DEF Next, Silent, CoveredOutput
    <3> QED BY <3>1, CoveredOutputIs, ScrollOutputIs, ResettersAreCovered, ExchangeShows, UserShows,
           DECCOLMShows
  <2> QED BY <2>1, <2>2, <2>3
<1>2. TerminalInv /\ [Next]_vars => TerminalInv'
  BY NextKeeps
<1> QED BY <1>1, <1>2, InitHolds, PTL DEF Spec, DamageCoversChange

(* The history grows by the rows that leave the screen at its top, in their    *)
(* order and with the text they had before the step, and loses none but the    *)
(* oldest: however many a function scrolls, and through a wrap and the move of *)
(* a wide character to the next line in one step.                              *)
THEOREM TerminalHistoryAppendOnly == Spec => HistoryAppendOnly
<1> DEFINE Appended ==
      \/ \E k \in 0..rows(screen) :
           Text(screen'.grid.sb) = Text(Trim(screen.grid.sb \o SubSeq(screen.grid.lines, 1, k)))
      \/ EraseScrollback \/ Resize \/ DECCOLM \/ RIS \/ EnterAlt \/ LeaveAlt \/ Repeat
      \/ screen.bottom = 1 /\ screen'.last \in Wide /\ PrintChar
<1>1. TerminalInv /\ [Next]_vars => [Appended]_vars
  <2> SUFFICES ASSUME TerminalInv, Next,
                      ~EraseScrollback, ~Resize, ~DECCOLM, ~RIS, ~EnterAlt, ~LeaveAlt, ~Repeat
               PROVE  Appended
    OBVIOUS
  <2>1. Grows => Appended
    BY DEF Grows
  <2>2. CASE PrintChar
    BY <2>1, <2>2, PrintIs
  <2> HIDE DEF Appended
  <2>3. ASSUME ~PrintChar
        PROVE  Grows
    <3>1. \/ CoveredOutput \/ execute_c0 \/ Index \/ NextLine \/ SU \/ SD \/ RestoreModes \/ DECSTR
          \/ IL \/ DL \/ RI \/ Rectangles \/ DECALN \/ ScrollView
      BY <2>3 DEF Next, CoveredOutput
    <3> QED BY <3>1, CoveredOutputIs, ScrollOutputIs, ResettersAreCovered, SilentGrows, UserShows
  <2> QED BY <2>1, <2>2, <2>3
<1>2. TerminalInv /\ [Next]_vars => TerminalInv'
  BY NextKeeps
<1> QED BY <1>1, <1>2, InitHolds, PTL DEF Spec, HistoryAppendOnly

----------------------------------------------------------------------------
(* Wide characters: which operators keep their halves together *)

(* In a row of n cells every left half has its right half, and the other way. *)
Paired(n, x) ==
  \A i \in 1..n : /\ x[i].w = 2 => i < n /\ x[i + 1].w = 0
                  /\ x[i].w = 0 => i > 1 /\ x[i - 1].w = 2

(* In every line of a grid, too. *)
AllPaired(n, m, g) == \A i \in 1..m : Paired(n, g.lines[i].cells)

(* That is the property of a screen. *)
LEMMA WholeIs ==
  ASSUME NEW n \in Positive, NEW m \in Positive, NEW s \in Screens(n, m)
  PROVE  Whole(s) <=> AllPaired(n, m, s.grid)
<1>1. s.grid \in Grids(n, m)
  BY ScreenFacts
<1>2. DOMAIN s.grid.lines = 1..m
  BY <1>1, GridFacts
<1>3. ASSUME NEW i \in 1..m
      PROVE  WholeRow(s.grid.lines[i]) <=> Paired(n, s.grid.lines[i].cells)
  <2> DEFINE row == s.grid.lines[i]
  <2>1. Len(row.cells) = n /\ DOMAIN row.cells = 1..n
    <3>1. row \in RowsOf(n)
      BY <1>1, GridFacts
    <3> HIDE DEF row
    <3> QED BY <3>1, RowFacts
  <2> QED BY <2>1 DEF WholeRow, Paired
<1> QED BY <1>2, <1>3 DEF Whole, AllPaired

(* The cells of one line. *)
LEMMA LineCells ==
  ASSUME NEW n \in Positive, NEW m \in Positive, NEW g \in Grids(n, m), NEW i \in 1..m
  PROVE  g.lines[i].cells \in [1..n -> Cells] /\ DOMAIN g.lines[i].cells = 1..n
<1>1. g.lines[i] \in RowsOf(n)
  BY GridFacts
<1> QED BY <1>1, RowFacts

(* A blank row has no halves. *)
LEMMA BlankIsPaired ==
  ASSUME NEW n \in Positive
  PROVE  Paired(n, NewRow(n).cells)
<1>1. Blank.w = 1
  BY DEF Blank, Cell
<1>2. \A i \in 1..n : NewRow(n).cells[i].w = 1
  BY <1>1 DEF NewRow, BlankCells
<1> QED BY <1>2 DEF Paired

(* The columns from .. end - 1 blanked, and with them the half that either *)
(* end cuts off.                                                           *)
Cut(n, x, from, end) ==
  ((from + 1)..end)
    \cup (IF from > 0 /\ x[from + 1].w = 0 THEN {from} ELSE {})
    \cup (IF end < n /\ x[end].w = 2 THEN {end + 1} ELSE {})

CutOut(n, x, y, from, end) ==
  \A i \in 1..n : y[i].w = IF i \in Cut(n, x, from, end) THEN 1 ELSE x[i].w

(* What remains is paired. *)
LEMMA CutIsPaired ==
  ASSUME NEW n \in Positive, NEW x, Paired(n, x), NEW from \in 0..n-1, NEW end \in (from + 1)..n,
         NEW y, CutOut(n, x, y, from, end)
  PROVE  Paired(n, y)
<1>1. n \in Nat /\ n >= 1 /\ from \in Nat /\ end \in Nat /\ from < end /\ end <= n
  BY DEF Positive
<1> DEFINE In(i) == i \in Cut(n, x, from, end)
<1>2. \A i \in 1..n : In(i) <=> \/ from < i /\ i <= end
                                \/ i = from /\ x[from + 1].w = 0
                                \/ i = end + 1 /\ x[end].w = 2
  BY <1>1 DEF Cut
<1> HIDE DEF In
<1>3. \A i \in 1..n : y[i].w = IF In(i) THEN 1 ELSE x[i].w
  BY DEF In, CutOut
<1>4. ASSUME NEW i \in 1..n, y[i].w = 2
      PROVE  i < n /\ y[i + 1].w = 0
  <2>1. ~In(i) /\ x[i].w = 2
    BY <1>3, <1>4
  <2>2. i < n /\ x[i + 1].w = 0
    BY <2>1 DEF Paired
  <2>3. i + 1 \in 1..n
    BY <2>2, <1>1
  <2>4. ~In(i + 1)
    <3>1. CASE from < i + 1 /\ i + 1 <= end
      BY <1>1, <1>2, <2>1, <2>2, <3>1
    <3>2. CASE i + 1 = from /\ x[from + 1].w = 0
      <4>1. from \in 1..n /\ from + 1 \in 1..n /\ (from + 1) - 1 = from
        BY <1>1, <3>2
      <4>2. x[from].w = 2
        BY <3>2, <4>1 DEF Paired
      <4> QED BY <2>2, <3>2, <4>2
    <3>3. CASE i + 1 = end + 1 /\ x[end].w = 2
      BY <1>1, <1>2, <2>1, <3>3
    <3> QED BY <1>2, <2>3, <3>1, <3>2, <3>3
  <2> QED BY <1>3, <2>2, <2>3, <2>4
<1>5. ASSUME NEW i \in 1..n, y[i].w = 0
      PROVE  i > 1 /\ y[i - 1].w = 2
  <2>1. ~In(i) /\ x[i].w = 0
    BY <1>3, <1>5
  <2>2. i > 1 /\ x[i - 1].w = 2
    BY <2>1 DEF Paired
  <2>3. i - 1 \in 1..n
    BY <2>2, <1>1
  <2>4. ~In(i - 1)
    <3>1. CASE from < i - 1 /\ i - 1 <= end
      <4>1. i - 1 = end
        BY <1>1, <1>2, <2>1, <3>1
      <4> QED BY <1>1, <1>2, <2>1, <2>2, <4>1
    <3>2. CASE i - 1 = from /\ x[from + 1].w = 0
      BY <1>1, <1>2, <2>1, <3>2
    <3>3. CASE i - 1 = end + 1 /\ x[end].w = 2
      <4>1. end \in 1..n
        BY <1>1
      <4>2. x[end + 1].w = 0
        BY <3>3, <4>1 DEF Paired
      <4> QED BY <2>2, <3>3, <4>2
    <3> QED BY <1>2, <2>3, <3>1, <3>2, <3>3
  <2> QED BY <1>3, <2>2, <2>3, <2>4
<1> QED BY <1>4, <1>5 DEF Paired

(* The widths of a row x with a character of width w at position p: its right *)
(* half follows it, and a half of another that it cuts is a space.            *)
WidthAt(x, p, w, i) ==
  IF i = p THEN w
  ELSE IF w = 2 /\ i = p + 1 THEN 0
  ELSE IF \/ x[p].w = 2 /\ i = p + 1
          \/ x[p].w = 0 /\ i = p - 1
          \/ w = 2 /\ i = p + 2 /\ x[p + 1].w = 2
       THEN 1
  ELSE x[i].w

PutIn(n, x, y, p, w) == \A i \in 1..n : y[i].w = WidthAt(x, p, w, i)

(* Such a row is paired if there is room for the right half. *)
LEMMA PutIsPaired ==
  ASSUME NEW n \in Positive, NEW x, Paired(n, x), NEW p \in 1..n, NEW w \in 1..2, w = 2 => p < n,
         NEW y, PutIn(n, x, y, p, w)
  PROVE  Paired(n, y)
<1>1. n \in Nat /\ p \in Nat /\ (w = 1 \/ w = 2)
  BY DEF Positive
<1>2. \A i \in 1..n : /\ x[i].w = 2 => i < n /\ x[i + 1].w = 0
                      /\ x[i].w = 0 => i > 1 /\ x[i - 1].w = 2
  BY DEF Paired
<1>3. ASSUME NEW i \in 1..n, y[i].w = 2
      PROVE  i < n /\ y[i + 1].w = 0
  <2>1. CASE i = p
    <3>1. w = 2 /\ i < n /\ i + 1 \in 1..n
      BY <1>1, <1>3, <2>1 DEF WidthAt, PutIn
    <3> QED BY <1>1, <2>1, <3>1 DEF WidthAt, PutIn
  <2>2. CASE i # p
    <3>1. x[i].w = 2 /\ ~(w = 2 /\ i = p + 1) /\ ~(x[p].w = 0 /\ i = p - 1)
      BY <1>1, <1>3, <2>2 DEF WidthAt, PutIn
    <3>2. i < n /\ x[i + 1].w = 0 /\ i + 1 \in 1..n
      BY <1>1, <1>2, <3>1
    <3>3. i + 1 # p
      BY <1>1, <3>1, <3>2
    <3>4. i + 1 = p + 1 => FALSE
      BY <1>1, <2>2
    <3>5. ~(w = 2 /\ i + 1 = p + 2)
      BY <1>1, <3>1
    <3>6. i + 1 = p - 1 => x[p].w # 0
      <4> SUFFICES ASSUME i + 1 = p - 1, x[p].w = 0
                   PROVE  FALSE
        OBVIOUS
      <4>1. x[p - 1].w = 2
        BY <1>2
      <4> QED BY <3>2, <4>1
    <3>7. y[i + 1].w = x[i + 1].w
      BY <1>1, <3>2, <3>3, <3>4, <3>5, <3>6 DEF WidthAt, PutIn
    <3> QED BY <3>2, <3>7
  <2> QED BY <2>1, <2>2
<1>4. ASSUME NEW i \in 1..n, y[i].w = 0
      PROVE  i > 1 /\ y[i - 1].w = 2
  <2>1. i # p
    BY <1>1, <1>4 DEF WidthAt, PutIn
  <2>2. CASE w = 2 /\ i = p + 1
    <3>1. i > 1 /\ i - 1 = p
      BY <1>1, <2>2
    <3> QED BY <2>2, <3>1 DEF WidthAt, PutIn
  <2>3. CASE ~(w = 2 /\ i = p + 1)
    <3>1. /\ x[i].w = 0
          /\ ~(x[p].w = 2 /\ i = p + 1) /\ ~(w = 2 /\ i = p + 2 /\ x[p + 1].w = 2)
      BY <1>1, <1>4, <2>1, <2>3 DEF WidthAt, PutIn
    <3>2. i > 1 /\ x[i - 1].w = 2 /\ i - 1 \in 1..n
      BY <1>1, <1>2, <3>1
    <3>3. i - 1 # p
      BY <1>1, <3>1, <3>2
    <3>4. ~(x[p].w = 2 /\ i - 1 = p + 1)
      <4> SUFFICES ASSUME x[p].w = 2, i - 1 = p + 1
                   PROVE  FALSE
        OBVIOUS
      <4>1. x[p + 1].w = 0
        BY <1>2
      <4> QED BY <3>2, <4>1
    <3>5. ~(w = 2 /\ i - 1 = p + 1)
      <4> SUFFICES ASSUME w = 2, i - 1 = p + 1
                   PROVE  FALSE
        OBVIOUS
      <4>1. i = p + 2
        BY <1>1
      <4> QED BY <3>1, <3>2, <4>1
    <3>6. i - 1 # p - 1
      BY <1>1, <2>1
    <3>7. ~(w = 2 /\ i - 1 = p + 2 /\ x[p + 1].w = 2)
      <4> SUFFICES ASSUME i - 1 = p + 2, x[p + 1].w = 2
                   PROVE  FALSE
        OBVIOUS
      <4>1. p + 1 \in 1..n /\ (p + 1) + 1 = p + 2
        BY <1>1
      <4>2. x[p + 2].w = 0
        BY <1>2, <4>1
      <4> QED BY <3>2, <4>2
    <3>8. y[i - 1].w = x[i - 1].w
      BY <1>1, <3>2, <3>3, <3>4, <3>5, <3>6, <3>7 DEF WidthAt, PutIn
    <3> QED BY <3>2, <3>8
  <2> QED BY <2>2, <2>3
<1> QED BY <1>3, <1>4 DEF Paired

(* Paired cells written in one line. *)
LEMMA LineIsPaired ==
  ASSUME NEW n \in Positive, NEW m \in Positive, NEW g \in Grids(n, m), AllPaired(n, m, g),
         NEW r \in 1..m, NEW f, Paired(n, f)
  PROVE  AllPaired(n, m, [g EXCEPT !.lines[r].cells = f])
<1> DEFINE lines == [g.lines EXCEPT ![r] = [g.lines[r] EXCEPT !.cells = f]]
<1>1. [g EXCEPT !.lines[r].cells = f] = [g EXCEPT !.lines = lines]
  OBVIOUS
<1>2. g.lines \in [1..m -> RowsOf(n)]
  BY GridFacts
<1>3. \A i \in 1..m : lines[i].cells = IF i = r THEN f ELSE g.lines[i].cells
  BY <1>2 DEF RowsOf
<1> HIDE DEF lines
<1>4. [g EXCEPT !.lines = lines].lines = lines
  BY DEF Grids
<1> QED BY <1>1, <1>3, <1>4 DEF AllPaired

(* A cut of one line that takes the halves at its ends along. *)
LEMMA BlankedIsPaired ==
  ASSUME NEW n \in Positive, NEW m \in Positive, NEW g \in Grids(n, m), AllPaired(n, m, g),
         NEW r \in 1..m, NEW from \in 0..n-1, NEW end \in (from + 1)..n,
         NEW S, S = Cut(n, g.lines[r].cells, from, end)
  PROVE  AllPaired(n, m, [g EXCEPT !.lines[r].cells = [i \in DOMAIN @ |-> IF i \in S THEN Blank ELSE @[i]]])
<1> DEFINE old == g.lines[r].cells
           f == [i \in DOMAIN old |-> IF i \in S THEN Blank ELSE old[i]]
<1>1. DOMAIN old = 1..n /\ Paired(n, old)
  BY LineCells DEF AllPaired
<1>2. Blank.w = 1
  BY DEF Blank, Cell
<1>3. CutOut(n, old, f, from, end)
  BY <1>1, <1>2 DEF CutOut
<1>4. Paired(n, f)
  <2> HIDE DEF f, old
  <2> QED BY <1>1, <1>3, CutIsPaired
<1>5. [g EXCEPT !.lines[r].cells = [i \in DOMAIN @ |-> IF i \in S THEN Blank ELSE @[i]]]
        = [g EXCEPT !.lines[r].cells = f]
  OBVIOUS
<1> HIDE DEF f
<1> QED BY <1>4, <1>5, LineIsPaired

(* Clearing columns of a line. *)
LEMMA clear_regionIsPaired ==
  ASSUME NEW n \in Positive, NEW m \in Positive, NEW g \in Grids(n, m), AllPaired(n, m, g),
         NEW r \in 0..m-1, NEW from \in 0..n-1, NEW to \in from..n-1
  PROVE  AllPaired(n, m, clear_region(g, r, from, to))
<1> DEFINE row == r + 1
           cells == g.lines[row].cells
           right_col == Lesser(to, g.cols - 1)
           head == IF from > 0 /\ from <= right_col /\ cells[from + 1].w = 0 THEN {from} ELSE {}
           tail == IF right_col + 1 < g.cols /\ cells[right_col + 1].w = 2 THEN {right_col + 2} ELSE {}
           S == (from + 1)..(right_col + 1) \cup head \cup tail
           end == to + 1
<1>1. row \in 1..m /\ g.cols = n /\ n \in Nat /\ from \in Nat /\ to \in Nat /\ from <= to /\ to <= n - 1
  BY GridFacts
<1>2. clear_region(g, r, from, to)
        = [g EXCEPT !.lines[row].cells = [i \in DOMAIN @ |-> IF i \in S THEN Blank ELSE @[i]]]
  BY DEF clear_region
<1>3. right_col = to
  BY <1>1 DEF Lesser
<1>4. end \in (from + 1)..n /\ (end < n <=> right_col + 1 < g.cols) /\ end + 1 = right_col + 2
  BY <1>1, <1>3
<1>5. S = Cut(n, cells, from, end)
  <2> HIDE DEF cells
  <2> QED BY <1>1, <1>3, <1>4 DEF Cut
<1> HIDE DEF S, row, end
<1> QED BY <1>1, <1>2, <1>4, <1>5, BlankedIsPaired

(* Erasing characters of a line. *)
LEMMA erase_charsIsPaired ==
  ASSUME NEW n \in Positive, NEW m \in Positive, NEW g \in Grids(n, m), AllPaired(n, m, g),
         NEW r \in 0..m-1, NEW col \in 0..n-1, NEW count \in Positive
  PROVE  AllPaired(n, m, erase_chars(g, r, col, count))
<1> DEFINE row == r + 1
           cells == g.lines[row].cells
           end == Lesser(col + count, g.cols)
           head == IF col > 0 /\ cells[col + 1].w = 0 THEN {col} ELSE {}
           tail == IF end < g.cols /\ end > col /\ cells[end].w = 2 THEN {end + 1} ELSE {}
           S == (col + 1)..end \cup head \cup tail
<1>1. /\ row \in 1..m /\ g.cols = n /\ n \in Nat /\ col \in Nat /\ col < n /\ count \in Nat /\ count >= 1
      /\ r < Rows(g) /\ r \in Nat /\ Rows(g) \in Nat
  BY GridFacts DEF Positive
<1>2. erase_chars(g, r, col, count)
           = [g EXCEPT !.lines[row].cells = [i \in DOMAIN @ |-> IF i \in S THEN Blank ELSE @[i]]]
  <2>1. ~(r >= Rows(g) \/ col >= g.cols)
    BY <1>1
  <2> QED BY <2>1 DEF erase_chars
<1>3. end \in (col + 1)..n /\ end > col
  BY <1>1 DEF Lesser
<1>4. S = Cut(n, cells, col, end)
  <2> HIDE DEF cells, end
  <2> QED BY <1>1, <1>3 DEF Cut
<1> HIDE DEF S, row, end
<1> QED BY <1>1, <1>2, <1>3, <1>4, BlankedIsPaired

(* Every line of f is a line of g or blank. *)
Comes(n, m, g, f) ==
  \A i \in 1..m : \/ f.lines[i].cells = NewRow(n).cells
                  \/ \E j \in 1..m : f.lines[i].cells = g.lines[j].cells

(* Moving lines about tears no character apart. *)
LEMMA ComesIsPaired ==
  ASSUME NEW n \in Positive, NEW m, NEW g, NEW f, Comes(n, m, g, f), AllPaired(n, m, g)
  PROVE  AllPaired(n, m, f)
BY BlankIsPaired DEF Comes, AllPaired

(* Scrolling up moves lines about. *)
LEMMA ShiftUpComes ==
  ASSUME NEW n \in Positive, NEW m \in Positive, NEW g \in Grids(n, m),
         NEW top \in 0..m, NEW bottom \in 0..m, top < bottom, NEW count \in Nat
  PROVE  Comes(n, m, g, ShiftUp(g, top, bottom, count))
<1> DEFINE k == Lesser(count, bottom - top)
           f == ShiftUp(g, top, bottom, count)
           a == Region(g, top + k, bottom)
           b == BlankRows(g, k)
           mid == a \o b
           z == bottom - (top + k)
<1>1. /\ k \in Nat /\ top + k \in 0..m /\ top + k <= bottom /\ bottom \in top..m
      /\ top \in Nat /\ bottom \in Nat /\ m \in Nat /\ k <= bottom - top /\ z \in Nat /\ z + k = bottom - top
  BY GridFacts DEF Lesser
<1>2. f = Splice(g, top, bottom, mid)
  BY DEF ShiftUp
<1>3. \A i \in 1..m : i <= top \/ i > bottom => f.lines[i] = g.lines[i]
  BY ShiftUpIs DEF Lifted
<1>4. \A i \in (top + 1)..(bottom - k) : f.lines[i] = g.lines[i + k]
  BY ShiftUpIs DEF Lifted
<1>5. \A i \in 1..k : b[i] = NewRow(n)
  BY GridFacts DEF BlankRows
<1> HIDE DEF k, f
<1>6. b \in Seq(RowsOf(n)) /\ Len(b) = k
  BY <1>1, BlankRowsAre
<1>7. a \in Seq(RowsOf(n)) /\ Len(a) = z
  <2>1. /\ Region(g, top + k, bottom) \in Seq(RowsOf(n))
        /\ Len(Region(g, top + k, bottom)) = IF top + k <= bottom THEN bottom - (top + k) ELSE 0
    BY <1>1, RegionIs
  <2> QED BY <1>1, <2>1
<1> HIDE DEF a, b, z
<1>8. mid \in Seq(RowsOf(n)) /\ Len(mid) = bottom - top
  BY <1>1, <1>6, <1>7, ConcatLen
<1>9. \A i \in 1..k : mid[z + i] = b[i]
  <2>1. \A i \in 1..Len(a) + Len(b) : mid[i] = IF i <= Len(a) THEN a[i] ELSE b[i - Len(a)]
    BY <1>6, <1>7, ConcatProperties
  <2> HIDE DEF mid
  <2> TAKE i \in 1..k
  <2>2. z + i \in 1..z + k /\ ~(z + i <= z) /\ (z + i) - z = i
    BY <1>1
  <2> QED BY <1>6, <1>7, <2>1, <2>2
<1> HIDE DEF mid
<1>10. Spliced(f, g, top, bottom, m, mid)
  BY <1>1, <1>2, <1>8, SpliceIs
<1>11. ASSUME NEW i \in (bottom - k + 1)..bottom
       PROVE  f.lines[i] = NewRow(n)
  <2> DEFINE j == i - (bottom - k)
  <2>1. j \in 1..k /\ z + j \in 1..(bottom - top) /\ top + (z + j) = i
    BY <1>1 DEF z
  <2> HIDE DEF j
  <2>2. f.lines[top + (z + j)] = mid[z + j]
    BY <1>10, <2>1 DEF Spliced
  <2> QED BY <1>5, <1>9, <2>1, <2>2
<1>12. ASSUME NEW i \in 1..m
       PROVE  f.lines[i] = NewRow(n) \/ \E j \in 1..m : f.lines[i] = g.lines[j]
  <2>1. CASE i <= top \/ i > bottom
    BY <1>3, <2>1
  <2>2. CASE i \in (top + 1)..(bottom - k)
    <3>1. i + k \in 1..m
      BY <1>1, <2>2
    <3> QED BY <1>4, <2>2, <3>1
  <2>3. CASE i \in (bottom - k + 1)..bottom
    BY <1>11, <2>3
  <2> QED BY <1>1, <2>1, <2>2, <2>3
<1> QED BY <1>12 DEF Comes, f

(* Without margins a line feed does nothing else to the grid. *)
LEMMA linefeedComes ==
  ASSUME NEW n \in Positive, NEW m \in Positive, NEW h, NEW s \in Live(n, m, h), ~has_lr_margins(s)
  PROVE  /\ Comes(n, m, s.grid, linefeed(s).grid)
         /\ s.cur.col = 0 => linefeed(s).cur.col = 0
<1> DEFINE g == scroll_up(s.grid, s.top, s.bottom, 1)
           a == record_damage([s EXCEPT !.grid = g], s.top..s.bottom-1)
           b == [s EXCEPT !.cur.row = s.cur.row + 1]
           t == IF s.cur.row + 1 = s.bottom THEN a
                ELSE IF s.cur.row + 1 < rows(s) THEN b ELSE s
           col == IF s.modes.newline THEN 0 ELSE t.cur.col
           v == [t EXCEPT !.pending = FALSE, !.cur.col = col]
<1>1. /\ s \in Screens(n, m) /\ s.grid \in Grids(n, m)
      /\ s.top \in 0..m /\ s.bottom \in 0..m /\ s.top < s.bottom
  <2>1. s \in Screens(n, m)
    BY LiveFacts
  <2> QED BY <2>1, ScreenFacts
<1>2. linefeed(s) = v
  BY DEF linefeed
<1>3. Comes(n, m, s.grid, g)
  <2> DEFINE e == ShiftUp(s.grid, s.top, s.bottom, 1)
  <2>1. Comes(n, m, s.grid, e) /\ e \in Grids(n, m)
    BY <1>1, ShiftUpComes, ShiftUpKeeps
  <2>2. g.lines = e.lines
    <3>1. ~(s.bottom <= s.top)
      BY <1>1, GridFacts
    <3>2. \E q : g = [e EXCEPT !.sb = q]
      BY <3>1 DEF scroll_up
    <3> HIDE DEF e, g
    <3> QED BY <2>1, <3>2 DEF Grids
  <2> HIDE DEF e, g
  <2> QED BY <2>1, <2>2 DEF Comes
<1>4. Comes(n, m, s.grid, s.grid)
  BY DEF Comes
<1> HIDE DEF g
<1>5. t.grid \in {g, s.grid} /\ t.cur.col = s.cur.col
  <2>1. a.grid = g /\ a.cur.col = s.cur.col
    BY <1>1 DEF Screens, record_damage
  <2>2. b.grid = s.grid /\ b.cur.col = s.cur.col
    BY <1>1 DEF Screens
  <2> HIDE DEF a, b
  <2> QED BY <2>1, <2>2
<1>6. t \in Screens(n, m)
  <2>1. a \in Screens(n, m)
    <3>1. [s EXCEPT !.grid = g] \in Live(n, m, h)
      <4>1. g \in Grids(n, m)
        BY <1>1, scroll_upKeeps DEF g
      <4> QED BY <4>1, OtherGrid
    <3> DEFINE e == [s EXCEPT !.grid = g]
    <3> HIDE DEF e
    <3>2. record_damage(e, s.top..s.bottom-1) \in Live(n, m, h)
      BY <3>1, DamageKeeps DEF e
    <3> QED BY <3>2, LiveFacts DEF e
  <2>2. b \in Screens(n, m)
    <3>1. s.cur.row + 1 \in Nat
      BY LiveFacts
    <3> QED BY <1>1, <3>1 DEF Screens
  <2> HIDE DEF a, b
  <2> QED BY <1>1, <2>1, <2>2
<1> HIDE DEF t, col
<1>7. v.grid = t.grid /\ v.cur.col = col
  BY <1>6 DEF Screens
<1> HIDE DEF v
<1> QED BY <1>2, <1>3, <1>4, <1>5, <1>7 DEF col

(* A return to the first column and a line feed. *)
LEMMA ReturnComes ==
  ASSUME NEW n \in Positive, NEW m \in Positive, NEW h, NEW s \in Live(n, m, h), ~has_lr_margins(s)
  PROVE  LET t == linefeed(carriage_return(s))
         IN  /\ t \in Live(n, m, h) /\ Framed(s, t)
             /\ Comes(n, m, s.grid, t.grid) /\ t.cur.col = 0
<1> DEFINE b == carriage_return(s)
           t == linefeed(b)
<1>1. s \in Screens(n, m)
  BY LiveFacts
<1>2. b = At(s, s.cur.row, 0)
  BY DEF carriage_return
<1>3. b \in Live(n, m, h)
  BY carriage_returnKeeps
<1>4. Framed(s, b) /\ b.grid = s.grid /\ b.cur.col = 0
  <2>1. Framed(s, At(s, s.cur.row, 0))
    BY <1>1, FramedIs
  <2>2. At(s, s.cur.row, 0).grid = s.grid /\ At(s, s.cur.row, 0).cur = [row |-> s.cur.row, col |-> 0]
    BY <1>1 DEF At, Screens
  <2> QED BY <1>2, <2>1, <2>2
<1> HIDE DEF b
<1>5. ~has_lr_margins(b)
  <2>1. cols(b) = cols(s)
    BY <1>4 DEF cols
  <2> QED BY <1>4, <2>1, FramedMargins
<1>6. Comes(n, m, b.grid, t.grid) /\ t.cur.col = 0
  BY <1>3, <1>4, <1>5, linefeedComes
<1>7. t \in Live(n, m, h) /\ Framed(b, t)
  BY <1>3, linefeedKeeps, linefeedIs
<1>8. Framed(s, t)
  BY <1>4, <1>7, FramedTwice
<1> HIDE DEF t
<1> QED BY <1>4, <1>6, <1>7, <1>8 DEF t, b

(* Marking a line as continued touches no cell. *)
LEMMA MarkComes ==
  ASSUME NEW n, NEW m, NEW h, NEW s, NEW t, Marked(n, m, h, s, t)
  PROVE  Comes(n, m, s.grid, t.grid)
BY DEF Comes, Marked

(* The pending wrap goes to the first column of a line, or with autowrap off *)
(* stays in its line; nothing is written.                                    *)
LEMMA WrapPendingIsPaired ==
  ASSUME NEW n \in Positive, NEW m \in Positive, NEW h, NEW s \in Live(n, m, h), ~has_lr_margins(s),
         AllPaired(n, m, s.grid)
  PROVE  LET t == WrapPending(s)
         IN  /\ AllPaired(n, m, t.grid)
             /\ t.cur.col = 0 \/ (t.grid = s.grid /\ ((t.cur = s.cur /\ ~s.pending) \/ ~s.modes.autowrap))
<1> DEFINE a == [s EXCEPT !.grid = set_continuation(@, s.cur.row, FALSE)]
           t == linefeed(carriage_return(a))
           u == [t EXCEPT !.grid = set_continuation(@, t.cur.row, TRUE)]
           v == At(s, s.cur.row, effective_right(s) - 1)
<1>1. TRUE \in BOOLEAN /\ FALSE \in BOOLEAN /\ s \in Screens(n, m) /\ cols(s) = n
  BY LiveFacts, Bounds
<1>2. Marked(n, m, h, s, a)
  BY <1>1, MarkIs
<1> HIDE DEF a
<1>3. a \in Live(n, m, h) /\ Framed(s, a) /\ AllPaired(n, m, a.grid)
  BY <1>2, MarkComes, ComesIsPaired DEF Marked
<1>4. ~has_lr_margins(a)
  <2>1. cols(a) = n
    BY <1>3, Bounds
  <2> QED BY <1>1, <1>3, <2>1, FramedMargins
<1>5. t \in Live(n, m, h) /\ AllPaired(n, m, t.grid) /\ t.cur.col = 0
  BY <1>3, <1>4, ReturnComes, ComesIsPaired
<1> HIDE DEF t
<1>6. Marked(n, m, h, t, u)
  BY <1>1, <1>5, MarkIs
<1> HIDE DEF u
<1>7. AllPaired(n, m, u.grid) /\ u.cur.col = 0
  BY <1>5, <1>6, MarkComes, ComesIsPaired DEF Marked
<1>8. v.grid = s.grid
  BY <1>1 DEF At, Screens
<1>9. \/ WrapPending(s) = s /\ ~s.pending
      \/ WrapPending(s) = u
      \/ WrapPending(s) = v /\ ~s.modes.autowrap
  BY DEF WrapPending, a, t, u
<1> HIDE DEF v
<1> QED BY <1>7, <1>8, <1>9

(* What a cell written in a row is, and how it is read. *)
LEMMA CellMutIs ==
  ASSUME NEW n \in Positive, NEW m \in Positive, NEW g \in Grids(n, m),
         NEW r \in 0..m-1, NEW k \in 0..n-1, NEW x
  PROVE  /\ cell(g, r, k) = g.lines[r + 1].cells[k + 1]
         /\ \A i \in 1..n : cell_mut(g, r, k, x).lines[r + 1].cells[i]
                              = IF i = k + 1 THEN x ELSE g.lines[r + 1].cells[i]
<1> DEFINE i == r + 1
           j == k + 1
           f == [g.lines[i].cells EXCEPT ![j] = x]
           lines == [g.lines EXCEPT ![i] = [g.lines[i] EXCEPT !.cells = f]]
<1>1. RowIndex(g, r) = i /\ i \in 1..m /\ ColIndex(g, k) = j /\ j \in 1..n
  BY GridFacts DEF RowIndex, ColIndex, Lesser
<1> HIDE DEF i, j
<1>2. cell(g, r, k) = g.lines[i].cells[j]
  BY <1>1 DEF cell
<1>3. cell_mut(g, r, k, x) = [g EXCEPT !.lines[i].cells[j] = x]
  BY <1>1 DEF cell_mut
<1>4. [g EXCEPT !.lines[i].cells[j] = x] = [g EXCEPT !.lines = lines]
  OBVIOUS
<1>5. lines[i].cells = f
  <2>1. g.lines \in [1..m -> RowsOf(n)]
    BY GridFacts
  <2> HIDE DEF f
  <2> QED BY <1>1, <2>1 DEF RowsOf
<1>6. \A c \in 1..n : f[c] = IF c = j THEN x ELSE g.lines[i].cells[c]
  <2>1. DOMAIN g.lines[i].cells = 1..n
    BY <1>1, LineCells
  <2> QED BY <1>1, <2>1
<1> HIDE DEF lines, f
<1>7. [g EXCEPT !.lines = lines].lines = lines
  BY DEF Grids
<1>8. cell_mut(g, r, k, x).lines[i].cells = f
  BY <1>3, <1>4, <1>5, <1>7
<1> QED BY <1>2, <1>6, <1>8 DEF i, j

(* One row changed to a paired one. *)
LEMMA RowIsPaired ==
  ASSUME NEW n, NEW m, NEW g, NEW f, NEW r, AllPaired(n, m, g), Beside(m, g, f, r), Paired(n, f.lines[r].cells)
  PROVE  AllPaired(n, m, f)
BY DEF AllPaired, Beside

(* A wide character that does not fit moves on, to where it does. *)
LEMMA FitWideIsPaired ==
  ASSUME NEW n \in Positive, NEW m \in Positive, NEW h, NEW s \in Live(n, m, h), ~has_lr_margins(s), n # 1,
         AllPaired(n, m, s.grid), s.cur.col = n - 1,
         s.modes.autowrap => cell(s.grid, s.cur.row, s.cur.col).w # 0
  PROVE  AllPaired(n, m, FitWide(s).grid) /\ FitWide(s).cur.col < n - 1
<1> DEFINE r == s.cur.row
           k == s.cur.col
           y == Cell(" ", 1, cell(s.grid, r, k).p)
           g == cell_mut(s.grid, r, k, y)
           a == [s EXCEPT !.grid = g]
           t == linefeed(carriage_return(a))
           u == [t EXCEPT !.grid = set_continuation(@, t.cur.row, TRUE)]
           back == Greater(effective_right(s) - 2, 0)
           c == IF back >= cols(s) THEN 0 ELSE back
           v == [s EXCEPT !.cur.col = c]
<1>1. /\ TRUE \in BOOLEAN /\ s \in Screens(n, m) /\ s.grid \in Grids(n, m) /\ cols(s) = n
      /\ n \in Nat /\ n >= 2 /\ r \in 0..m-1 /\ k \in 0..n-1 /\ r \in Nat /\ k \in Nat
  <2>1. s \in Screens(n, m) /\ s.grid \in Grids(n, m) /\ r \in 0..m-1 /\ k \in 0..n-1 /\ r \in Nat /\ k \in Nat
    BY LiveFacts
  <2> HIDE DEF r, k
  <2>2. n \in Nat /\ n >= 2 /\ cols(s) = n
    <3>1. n \in Nat /\ n >= 1 /\ cols(s) = n
      BY <2>1, ScreenFacts
    <3> QED BY <3>1
  <2> QED BY <2>1, <2>2
<1>2. CASE ~s.modes.autowrap
  <2>1. FitWide(s) = v
    BY <1>2 DEF FitWide
  <2>2. effective_right(s) = n
    BY <1>1 DEF effective_right
  <2>3. c = n - 2
    BY <1>1, <2>2 DEF Greater
  <2> HIDE DEF c
  <2>4. v.grid = s.grid /\ v.cur.col = c
    BY <1>1 DEF Screens
  <2> HIDE DEF v
  <2> QED BY <1>1, <2>1, <2>3, <2>4
<1>3. CASE s.modes.autowrap
  <2>1. FitWide(s) = u
    BY <1>3 DEF FitWide
  <2> DEFINE x == s.grid.lines[r + 1].cells
             z == g.lines[r + 1].cells
             p == k + 1
  <2>2. r + 1 \in 1..m /\ p = n /\ p \in 1..n /\ 1 \in 1..2
    BY <1>1
  <2>3. cell(s.grid, r, k) = x[p] /\ \A i \in 1..n : z[i] = IF i = p THEN y ELSE x[i]
    <3> HIDE DEF r, k, y
    <3> QED BY <1>1, CellMutIs
  <2>4. Paired(n, x)
    BY <2>2 DEF AllPaired
  <2>5. x[p].w # 0
    BY <1>3, <2>3
  <2>6. y.w = 1
    BY DEF Cell
  <2>7. Beside(m, s.grid, g, r + 1) /\ g \in Grids(n, m)
    <3>1. Beside(m, s.grid, g, r + 1)
      <4> HIDE DEF r, k, y
      <4> QED BY <1>1, CellMutBeside
    <3> QED BY <1>1, <3>1, UnhalveKeeps
  <2> HIDE DEF x, z, p, y, g, r, k
  <2>8. x[p].w # 2
    BY <1>1, <2>2, <2>4 DEF Paired
  <2>9. PutIn(n, x, z, p, 1)
    BY <2>3, <2>5, <2>6, <2>8 DEF PutIn, WidthAt
  <2>10. Paired(n, z)
    BY <1>1, <2>2, <2>4, <2>9, PutIsPaired
  <2>11. AllPaired(n, m, g)
    BY <2>7, <2>10, RowIsPaired DEF z
  <2>12. a \in Live(n, m, h) /\ a.grid = g /\ Framed(s, a)
    <3>1. a \in Live(n, m, h)
      BY <2>7, OtherGrid
    <3>2. a.grid = g
      BY GridIs
    <3>3. Framed(s, a)
      BY <1>1, FramedIs
    <3> QED BY <3>1, <3>2, <3>3
  <2> HIDE DEF a
  <2>13. ~has_lr_margins(a)
    <3>1. cols(a) = n
      BY <2>12, Bounds
    <3> QED BY <1>1, <2>12, <3>1, FramedMargins
  <2>14. t \in Live(n, m, h) /\ AllPaired(n, m, t.grid) /\ t.cur.col = 0
    BY <2>11, <2>12, <2>13, ReturnComes, ComesIsPaired
  <2> HIDE DEF t
  <2>15. Marked(n, m, h, t, u)
    BY <1>1, <2>14, MarkIs
  <2> HIDE DEF u
  <2>16. AllPaired(n, m, u.grid) /\ u.cur.col = 0
    BY <2>14, <2>15, MarkComes, ComesIsPaired DEF Marked
  <2> QED BY <1>1, <2>1, <2>16
<1> QED BY <1>2, <1>3

(* The widths that blanking the halves leaves, beside the cells written next. *)
LEMMA ClearHalvesIs ==
  ASSUME NEW n \in Positive, NEW m \in Positive, NEW g \in Grids(n, m), AllPaired(n, m, g),
         NEW r \in 0..m-1, NEW c \in 0..n-1, NEW w \in 1..2, w = 2 => c + 1 < n
  PROVE  \A i \in 1..n :
           i # c + 1 /\ ~(w = 2 /\ i = c + 2) =>
             ClearHalves(g, r, c, w).lines[r + 1].cells[i].w = WidthAt(g.lines[r + 1].cells, c + 1, w, i)
<1> DEFINE Unhalve(a, k) == cell_mut(a, r, k, Cell(" ", 1, cell(a, r, k).p))
           Row(a) == a.lines[r + 1].cells
           old == cell(g, r, c).w
           g1 == IF old = 2 /\ c + 1 < g.cols THEN Unhalve(g, c + 1) ELSE g
           g2 == IF old = 0 /\ c > 0 /\ cell(g1, r, c - 1).w = 2 THEN Unhalve(g1, c - 1) ELSE g1
           g3 == IF w = 2 /\ c + 2 < g.cols /\ cell(g2, r, c + 1).w = 2 THEN Unhalve(g2, c + 2) ELSE g2
           p == c + 1
           x == Row(g)
<1>1. /\ n \in Nat /\ c \in Nat /\ r \in Nat /\ g.cols = n /\ r + 1 \in 1..m /\ p \in 1..n /\ c < n
      /\ c + 2 = p + 1 /\ c - 1 = p - 2 /\ (w = 1 \/ w = 2)
  BY GridFacts
<1>2. ASSUME NEW a \in Grids(n, m), NEW k \in 0..n-1
      PROVE  /\ cell(a, r, k) = Row(a)[k + 1] /\ Unhalve(a, k) \in Grids(n, m)
             /\ \A i \in 1..n : Row(Unhalve(a, k))[i].w = IF i = k + 1 THEN 1 ELSE Row(a)[i].w
  <2> DEFINE y == Cell(" ", 1, cell(a, r, k).p)
  <2>1. y.w = 1
    BY DEF Cell
  <2>2. Unhalve(a, k) \in Grids(n, m)
    <3>1. k \in Nat
      BY <1>1
    <3> QED BY <1>1, <3>1, UnhalveKeeps
  <2> HIDE DEF y
  <2>3. /\ cell(a, r, k) = a.lines[r + 1].cells[k + 1]
        /\ \A i \in 1..n : cell_mut(a, r, k, y).lines[r + 1].cells[i]
                             = IF i = k + 1 THEN y ELSE a.lines[r + 1].cells[i]
    BY CellMutIs
  <2>4. Unhalve(a, k) = cell_mut(a, r, k, y)
    BY DEF y
  <2> QED BY <2>1, <2>2, <2>3, <2>4
<1>3. ClearHalves(g, r, c, w) = g3
  BY DEF ClearHalves
<1>4. Paired(n, x)
  BY <1>1 DEF AllPaired
<1> HIDE DEF Unhalve, Row
<1>5. old = x[p].w
  BY <1>2
<1> HIDE DEF old
<1>6. /\ x[p].w = 2 => p < n /\ x[p + 1].w = 0
      /\ x[p].w = 0 => p > 1 /\ x[p - 1].w = 2
  BY <1>1, <1>4 DEF Paired
<1>7. g1 \in Grids(n, m)
      /\ \A i \in 1..n : Row(g1)[i].w = IF x[p].w = 2 /\ i = p + 1 THEN 1 ELSE x[i].w
  <2>1. CASE x[p].w = 2
    <3>1. c + 1 < g.cols /\ c + 1 \in 0..n-1
      BY <1>1, <1>6, <2>1
    <3>2. g1 = Unhalve(g, c + 1)
      BY <1>5, <2>1, <3>1
    <3> HIDE DEF g1
    <3> QED BY <1>2, <2>1, <3>1, <3>2 DEF x
  <2>2. CASE x[p].w # 2
    <3>1. g1 = g
      BY <1>5, <2>2
    <3> QED BY <2>2, <3>1 DEF x
  <2> QED BY <2>1, <2>2
<1> HIDE DEF g1
<1>8. g2 \in Grids(n, m)
      /\ \A i \in 1..n : Row(g2)[i].w = IF x[p].w = 0 /\ i = p - 1 THEN 1 ELSE Row(g1)[i].w
  <2>1. CASE x[p].w = 0
    <3>1. c > 0 /\ c - 1 \in 0..n-1 /\ (c - 1) + 1 = p - 1 /\ p - 1 \in 1..n
      BY <1>1, <1>6, <2>1
    <3>2. cell(g1, r, c - 1).w = 2
      BY <1>2, <1>6, <1>7, <2>1, <3>1
    <3>3. g2 = Unhalve(g1, c - 1)
      BY <1>5, <2>1, <3>1, <3>2
    <3> HIDE DEF g2
    <3> QED BY <1>2, <1>7, <2>1, <3>1, <3>3
  <2>2. CASE x[p].w # 0
    <3>1. g2 = g1
      BY <1>5, <2>2
    <3> QED BY <1>7, <2>2, <3>1
  <2> QED BY <2>1, <2>2
<1> HIDE DEF g2
<1>9. w = 2 => p + 1 \in 1..n /\ c + 1 \in 0..n-1 /\ (c + 1) + 1 = p + 1
  BY <1>1
<1>10. w = 2 => (cell(g2, r, c + 1).w = 2 <=> x[p + 1].w = 2)
  <2> HAVE w = 2
  <2>1. cell(g2, r, c + 1) = Row(g2)[p + 1]
    BY <1>2, <1>8, <1>9
  <2>2. Row(g2)[p + 1].w = Row(g1)[p + 1].w
    BY <1>1, <1>8, <1>9
  <2>3. Row(g1)[p + 1].w = IF x[p].w = 2 THEN 1 ELSE x[p + 1].w
    BY <1>7, <1>9
  <2> QED BY <1>6, <2>1, <2>2, <2>3
<1>11. \A i \in 1..n : Row(g3)[i].w = IF w = 2 /\ x[p + 1].w = 2 /\ i = p + 2 THEN 1 ELSE Row(g2)[i].w
  <2>1. CASE w = 2 /\ x[p + 1].w = 2
    <3>1. c + 2 < g.cols /\ c + 2 \in 0..n-1 /\ (c + 2) + 1 = p + 2
      <4>1. p + 1 < n
        BY <1>4, <1>9, <2>1 DEF Paired
      <4> QED BY <1>1, <4>1
    <3>2. g3 = Unhalve(g2, c + 2)
      BY <1>10, <2>1, <3>1
    <3> HIDE DEF g3
    <3> QED BY <1>2, <1>8, <2>1, <3>1, <3>2
  <2>2. CASE ~(w = 2 /\ x[p + 1].w = 2)
    <3>1. g3 = g2
      BY <1>10, <2>2
    <3> QED BY <2>2, <3>1
  <2> QED BY <2>1, <2>2
<1> HIDE DEF g3, x
<1>12. \A i \in 1..n : i # p /\ ~(w = 2 /\ i = p + 1) => Row(g3)[i].w = WidthAt(x, p, w, i)
  BY <1>1, <1>7, <1>8, <1>11 DEF WidthAt
<1>13. \A i \in 1..n : i # c + 1 /\ ~(w = 2 /\ i = c + 2) => Row(g3)[i].w = WidthAt(x, c + 1, w, i)
  BY <1>1, <1>12
<1> HIDE DEF p
<1> QED BY <1>3, <1>13 DEF Row, x

(* A character put where there is room for it. *)
LEMMA PutKeepsPairs ==
  ASSUME NEW n \in Positive, NEW m \in Positive, NEW h, NEW s \in Live(n, m, h), AllPaired(n, m, s.grid),
         NEW c \in Chars, char_width(c) # 0, char_width(c) = 2 => s.cur.col < n - 1
  PROVE  AllPaired(n, m, Put(s, c).grid)
<1> DEFINE w == char_width(c)
           r == s.cur.row
           k == s.cur.col
           p == k + 1
           x == Cell(c, w, s.prot)
           y == Cell(" ", 0, s.prot)
           g0 == ClearHalves(s.grid, r, k, w)
           g1 == cell_mut(g0, r, k, x)
           g2 == IF w = 2 /\ k + 1 < g1.cols THEN cell_mut(g1, r, k + 1, y) ELSE g1
           Row(a) == a.lines[r + 1].cells
           old == Row(s.grid)
<1>1. w \in 1..2 /\ x.w = w /\ y.w = 0
  BY DEF char_width, Cell
<1>2. /\ s.grid \in Grids(n, m) /\ r \in 0..m-1 /\ k \in 0..n-1 /\ r \in Nat /\ k \in Nat /\ n \in Nat
      /\ s.prot \in BOOLEAN /\ p \in 1..n /\ r + 1 \in 1..m
  <2>1. /\ s.grid \in Grids(n, m) /\ r \in 0..m-1 /\ k \in 0..n-1 /\ r \in Nat /\ k \in Nat /\ s.prot \in BOOLEAN
    BY LiveFacts
  <2>2. n \in Nat /\ m \in Nat
    BY DEF Positive
  <2> HIDE DEF r, k
  <2> QED BY <2>1, <2>2
<1>3. x \in Cells /\ y \in Cells
  <2>1. c \in STRING
    BY TerminalAssumption
  <2> HIDE DEF w
  <2>2. w \in 0..2 /\ 0 \in 0..2
    <3>1. w \in 1..2
      BY <1>1
    <3> QED BY <3>1
  <2>3. x \in Cells
    BY <1>2, <2>1, <2>2, CellIs
  <2> QED BY <1>2, <2>2, <2>3, SpaceIsCell
<1>4. w = 2 => k + 1 < n
  BY <1>2
<1>5. Put(s, c).grid = g2
  <2> DEFINE full == k + w >= effective_right(s)
             col == IF full THEN effective_right(s) - 1 ELSE k + w
             a == record_damage(s, {r})
             b == [a EXCEPT !.grid = g2]
             e == full /\ s.modes.autowrap
             t == [b EXCEPT !.cur.col = col, !.pending = e]
  <2>1. Put(s, c) = t
    BY DEF Put
  <2> HIDE DEF g2, col, e
  <2>2. a \in Screens(n, m)
    <3>1. a \in Live(n, m, h)
      BY DamageKeeps
    <3> QED BY <3>1, LiveFacts
  <2> HIDE DEF a
  <2>3. t.grid = g2
    BY <2>2 DEF Screens
  <2> QED BY <2>1, <2>3
<1>6. Paired(n, old)
  BY <1>2 DEF AllPaired
<1> HIDE DEF w, r, k, x, y
<1>7. /\ g0 \in Grids(n, m) /\ Beside(m, s.grid, g0, r + 1)
      /\ \A i \in 1..n : i # k + 1 /\ ~(w = 2 /\ i = k + 2) => Row(g0)[i].w = WidthAt(old, k + 1, w, i)
  <2>1. g0 \in Grids(n, m) /\ Beside(m, s.grid, g0, r + 1)
    BY <1>2, ClearHalvesKeeps, ClearHalvesBeside
  <2>2. \A i \in 1..n : i # k + 1 /\ ~(w = 2 /\ i = k + 2) => Row(g0)[i].w = WidthAt(old, k + 1, w, i)
    BY <1>1, <1>2, <1>4, ClearHalvesIs
  <2> QED BY <2>1, <2>2
<1> HIDE DEF g0
<1>8. /\ g1 \in Grids(n, m) /\ Beside(m, g0, g1, r + 1)
      /\ \A i \in 1..n : Row(g1)[i] = IF i = k + 1 THEN x ELSE Row(g0)[i]
  <2>1. g1 \in Grids(n, m) /\ Beside(m, g0, g1, r + 1)
    BY <1>2, <1>3, <1>7, CellMutKeeps, CellMutBeside
  <2>2. \A i \in 1..n : Row(g1)[i] = IF i = k + 1 THEN x ELSE Row(g0)[i]
    BY <1>2, <1>7, CellMutIs
  <2> QED BY <2>1, <2>2
<1> HIDE DEF g1
<1>9. /\ Beside(m, g1, g2, r + 1)
      /\ \A i \in 1..n : Row(g2)[i] = IF w = 2 /\ i = k + 2 THEN y ELSE Row(g1)[i]
  <2>1. CASE w = 2
    <3>1. k + 1 < g1.cols /\ k + 1 \in 0..n-1 /\ (k + 1) + 1 = k + 2
      BY <1>2, <1>4, <1>8, <2>1, GridFacts
    <3>2. g2 = cell_mut(g1, r, k + 1, y)
      BY <2>1, <3>1
    <3> DEFINE j == k + 1
    <3>3. j \in 0..n-1 /\ j + 1 = k + 2 /\ g2 = cell_mut(g1, r, j, y)
      BY <3>1, <3>2
    <3> HIDE DEF g2, j
    <3>4. Beside(m, g1, g2, r + 1)
      BY <1>2, <1>8, <3>3, CellMutBeside
    <3>5. \A i \in 1..n : Row(g2)[i] = IF i = j + 1 THEN y ELSE Row(g1)[i]
      BY <1>2, <1>8, <3>3, CellMutIs
    <3> QED BY <2>1, <3>3, <3>4, <3>5
  <2>2. CASE w # 2
    BY <2>2 DEF Beside
  <2> QED BY <2>1, <2>2
<1> HIDE DEF g2, Row, old
<1>10. PutIn(n, old, Row(g2), p, w)
  <2> SUFFICES ASSUME NEW i \in 1..n
               PROVE  Row(g2)[i].w = WidthAt(old, p, w, i)
    BY DEF PutIn
  <2>1. CASE i = k + 1
    <3>1. Row(g2)[i] = x
      BY <1>2, <1>8, <1>9, <2>1
    <3> QED BY <1>1, <2>1, <3>1 DEF WidthAt
  <2>2. CASE w = 2 /\ i = k + 2
    <3>1. Row(g2)[i] = y /\ i = p + 1 /\ i # p
      BY <1>2, <1>9, <2>2
    <3> QED BY <1>1, <2>2, <3>1 DEF WidthAt
  <2>3. CASE i # k + 1 /\ ~(w = 2 /\ i = k + 2)
    BY <1>7, <1>8, <1>9, <2>3
  <2> QED BY <2>1, <2>2, <2>3
<1>11. w = 2 => p < n
  BY <1>4
<1> HIDE DEF p
<1>12. Paired(n, Row(g2))
  BY <1>1, <1>2, <1>6, <1>10, <1>11, PutIsPaired
<1>13. Beside(m, s.grid, g2, r + 1)
  BY <1>7, <1>8, <1>9, BesideTwice
<1>14. AllPaired(n, m, g2)
  BY <1>12, <1>13, RowIsPaired DEF Row
<1> QED BY <1>5, <1>14

(* Printing: the wrap, the move of a wide character, the cell. *)
LEMMA write_charIsPaired ==
  ASSUME NEW n \in Positive, NEW m \in Positive, NEW h, NEW s \in Live(n, m, h), NEW c \in Chars,
         ~has_lr_margins(s), ~s.modes.insert, n # 1, AllPaired(n, m, s.grid),
         s.cur.col = n - 1 /\ char_width(c) = 2 /\ s.modes.autowrap /\ ~s.pending
           => cell(s.grid, s.cur.row, s.cur.col).w # 0
  PROVE  AllPaired(n, m, write_char(s, c).grid)
<1> DEFINE w == char_width(c)
           s0 == [s EXCEPT !.vp = 0, !.last = c]
           s1 == WrapPending(s0)
           s2 == IF w = 2 /\ s1.cur.col >= effective_right(s1) - 1 THEN FitWide(s1) ELSE s1
           g == insert_cells_bounded(s2.grid, s2.cur.row, s2.cur.col, w, effective_right(s2))
           s3 == IF s2.modes.insert THEN [s2 EXCEPT !.grid = g] ELSE s2
<1>1. s \in Screens(n, m) /\ cols(s) = n
  BY LiveFacts, Bounds
<1>2. s0 \in Live(n, m, h)
  BY OtherLast
<1>3. /\ s0.grid = s.grid /\ s0.cur = s.cur /\ s0.modes = s.modes /\ s0.pending = s.pending
      /\ s0.left = s.left /\ s0.right = s.right
  BY <1>1 DEF Screens
<1>4. write_char(s, c) = IF w = 0 THEN s0 ELSE Put(s3, c)
  BY DEF write_char
<1> HIDE DEF s0, w
<1>5. ~has_lr_margins(s0)
  BY <1>3 DEF has_lr_margins, cols
<1>6. /\ s1 \in Live(n, m, h) /\ Framed(s0, s1) /\ AllPaired(n, m, s1.grid)
      /\ s1.cur.col = 0 \/ (s1.grid = s.grid /\ ((s1.cur = s.cur /\ ~s.pending) \/ ~s.modes.autowrap))
  BY <1>2, <1>3, <1>5, WrapPendingKeeps, WrapPendingIs, WrapPendingIsPaired
<1> HIDE DEF s1
<1>7. cols(s1) = n /\ cols(s0) = n /\ n \in Nat /\ n >= 1 /\ s1.cur.col \in 0..n-1
  <2>1. cols(s1) = n /\ cols(s0) = n /\ n \in Nat
    BY <1>2, <1>6, Bounds
  <2>2. s1.cur.col \in 0..n-1
    BY <1>6, LiveFacts
  <2> QED BY <2>1, <2>2
<1>8. ~has_lr_margins(s1) /\ effective_right(s1) = n /\ s1.modes = s.modes
  <2>1. ~has_lr_margins(s1)
    BY <1>5, <1>6, <1>7, FramedMargins
  <2> QED BY <1>3, <1>6, <1>7, <2>1 DEF effective_right, Framed
<1>9. /\ s2 \in Live(n, m, h) /\ AllPaired(n, m, s2.grid) /\ s2.modes = s.modes
      /\ w = 2 => s2.cur.col < n - 1
  <2>1. CASE w = 2 /\ s1.cur.col >= n - 1
    <3>1. s2 = FitWide(s1) /\ s1.cur.col = n - 1
      BY <1>7, <1>8, <2>1
    <3>2. s1.modes.autowrap => cell(s1.grid, s1.cur.row, s1.cur.col).w # 0
      <4> HAVE s1.modes.autowrap
      <4>1. s1.cur.col # 0
        BY <1>7, <3>1
      <4> QED BY <1>6, <1>8, <2>1, <3>1, <4>1 DEF w
    <3>3. FitWide(s1) \in Live(n, m, h) /\ Framed(s1, FitWide(s1))
      <4>1. s1.cur.col >= effective_right(s1) - 1
        BY <1>8, <2>1
      <4> QED BY <1>6, <4>1, FitWideKeeps, FitWideIs
    <3>4. AllPaired(n, m, FitWide(s1).grid) /\ FitWide(s1).cur.col < n - 1
      BY <1>6, <1>8, <3>1, <3>2, FitWideIsPaired
    <3> HIDE DEF s2
    <3> QED BY <1>8, <3>1, <3>3, <3>4 DEF Framed
  <2>2. CASE ~(w = 2 /\ s1.cur.col >= n - 1)
    <3>1. s2 = s1
      BY <1>8, <2>2
    <3> QED BY <1>6, <1>7, <1>8, <2>2, <3>1
  <2> QED BY <2>1, <2>2
<1> HIDE DEF s2
<1>10. s3 = s2
  BY <1>9
<1> HIDE DEF s3
<1>11. w # 0 => AllPaired(n, m, Put(s3, c).grid)
  BY <1>9, <1>10, PutKeepsPairs DEF w
<1> QED BY <1>3, <1>4, <1>11

(* Erasing cells of a line, and whole lines. *)
LEMMA ErasesArePaired ==
  ASSUME NEW n \in Positive, NEW m \in Positive, NEW h, NEW s \in Live(n, m, h), AllPaired(n, m, s.grid)
  PROVE  /\ \A r \in 0..m-1, from \in 0..n-1, to \in 0..n-1 :
              from <= to => AllPaired(n, m, EraseCells(s, r, from, to, FALSE).grid)
         /\ \A rr : AllPaired(n, m, EraseRows(s, rr, FALSE).grid)
<1>1. s.grid \in Grids(n, m) /\ n \in Nat /\ m \in Nat
  BY LiveFacts DEF Positive
<1>2. ASSUME NEW r \in 0..m-1, NEW from \in 0..n-1, NEW to \in 0..n-1, from <= to
      PROVE  AllPaired(n, m, EraseCells(s, r, from, to, FALSE).grid)
  <2> DEFINE g == clear_region(s.grid, r, from, to)
             t == record_damage(s, {r})
             u == EraseCells(s, r, from, to, FALSE)
  <2>1. to \in from..n-1
    BY <1>1, <1>2
  <2>2. AllPaired(n, m, g)
    BY <1>1, <2>1, clear_regionIsPaired
  <2>3. t \in Live(n, m, h)
    BY DamageKeeps
  <2>4. u = [t EXCEPT !.grid = g]
    BY DEF EraseCells, record_damage
  <2> HIDE DEF t, u, g
  <2>5. u.grid = g
    BY <2>3, <2>4, GridIs
  <2>6. AllPaired(n, m, u.grid)
    BY <2>2, <2>5
  <2> QED BY <2>6 DEF u
<1>3. ASSUME NEW rr
      PROVE  AllPaired(n, m, EraseRows(s, rr, FALSE).grid)
  <2> DEFINE t == record_damage(s, rr)
             f == [i \in DOMAIN s.grid.lines |->
                     IF i - 1 \notin rr THEN s.grid.lines[i] ELSE NewRow(cols(s))]
             g == [s.grid EXCEPT !.lines = f]
             u == EraseRows(s, rr, FALSE)
  <2>1. DOMAIN s.grid.lines = 1..m /\ cols(s) = n
    BY <1>1, GridFacts, Bounds
  <2>2. t \in Live(n, m, h) /\ t.grid = s.grid
    BY DamageKeeps, DamageIs
  <2>3. u = [t EXCEPT !.grid.lines = f]
    BY DEF EraseRows, record_damage
  <2>4. \A i \in 1..m : f[i] = s.grid.lines[i] \/ f[i] = NewRow(n)
    BY <2>1
  <2> HIDE DEF t, f, u
  <2>5. u = [t EXCEPT !.grid = g]
    BY <2>2, <2>3
  <2>6. g.lines = f
    BY <1>1 DEF Grids
  <2> HIDE DEF g
  <2>7. u.grid = g
    BY <2>2, <2>5, GridIs
  <2>8. Comes(n, m, s.grid, u.grid)
    BY <2>4, <2>6, <2>7 DEF Comes
  <2>9. AllPaired(n, m, u.grid)
    BY <2>8, ComesIsPaired
  <2> QED BY <2>9 DEF u
<1> QED BY <1>2, <1>3

(* ED, EL and ECH. *)
LEMMA ErasureIsPaired ==
  ASSUME NEW n \in Positive, NEW m \in Positive, NEW h, NEW s \in Live(n, m, h), AllPaired(n, m, s.grid)
  PROVE  /\ \A mode \in {"below", "above", "all"} : AllPaired(n, m, erase_display(s, mode, FALSE).grid)
         /\ \A mode \in {"right", "left", "all"} : AllPaired(n, m, erase_line(s, mode, FALSE).grid)
         /\ \A k \in Counts : AllPaired(n, m, erase_chars_screen(s, k).grid)
<1> DEFINE r == s.cur.row
           c == s.cur.col
<1>1. r \in 0..m-1 /\ c \in 0..n-1 /\ cols(s) = n /\ n \in Nat /\ 0 \in 0..n-1 /\ n - 1 \in 0..n-1
      /\ c <= n - 1 /\ 0 <= c
  <2>1. r \in 0..m-1 /\ c \in 0..n-1
    BY LiveFacts
  <2>2. cols(s) = n /\ n \in Nat /\ 0 \in 0..n-1 /\ n - 1 \in 0..n-1
    BY Bounds
  <2> HIDE DEF r, c
  <2> QED BY <2>1, <2>2
<1>2. ASSUME NEW t \in Live(n, m, h), AllPaired(n, m, t.grid)
      PROVE  /\ \A from \in 0..n-1, to \in 0..n-1 :
                  from <= to => /\ EraseCells(t, r, from, to, FALSE) \in Live(n, m, h)
                                /\ AllPaired(n, m, EraseCells(t, r, from, to, FALSE).grid)
             /\ \A rr : /\ EraseRows(t, rr, FALSE) \in Live(n, m, h)
                        /\ AllPaired(n, m, EraseRows(t, rr, FALSE).grid)
  <2>1. ASSUME NEW from \in 0..n-1, NEW to \in 0..n-1, from <= to
        PROVE  /\ EraseCells(t, r, from, to, FALSE) \in Live(n, m, h)
               /\ AllPaired(n, m, EraseCells(t, r, from, to, FALSE).grid)
    BY <1>1, <1>2, <2>1, EraseCellsKeeps, ErasesArePaired
  <2>2. ASSUME NEW rr
        PROVE  /\ EraseRows(t, rr, FALSE) \in Live(n, m, h)
               /\ AllPaired(n, m, EraseRows(t, rr, FALSE).grid)
    BY <1>2, EraseRowsKeeps, ErasesArePaired
  <2> QED BY <2>1, <2>2
<1>3. AllPaired(n, m, erase_display(s, "below", FALSE).grid)
  <2> DEFINE t == EraseCells(s, r, c, n - 1, FALSE)
  <2>1. t \in Live(n, m, h) /\ AllPaired(n, m, t.grid)
    BY <1>1, <1>2
  <2>2. erase_display(s, "below", FALSE) = EraseRows(t, r+1..rows(s)-1, FALSE)
    BY <1>1 DEF erase_display
  <2> HIDE DEF t
  <2> QED BY <1>2, <2>1, <2>2
<1>4. AllPaired(n, m, erase_display(s, "above", FALSE).grid)
  <2> DEFINE t == EraseRows(s, 0..r-1, FALSE)
  <2>1. t \in Live(n, m, h) /\ AllPaired(n, m, t.grid)
    BY <1>2
  <2>2. erase_display(s, "above", FALSE) = EraseCells(t, r, 0, c, FALSE)
    BY DEF erase_display
  <2> HIDE DEF t
  <2> QED BY <1>1, <1>2, <2>1, <2>2
<1>5. AllPaired(n, m, erase_display(s, "all", FALSE).grid)
  BY <1>2 DEF erase_display
<1>6. AllPaired(n, m, erase_line(s, "right", FALSE).grid)
  BY <1>1, <1>2 DEF erase_line
<1>7. AllPaired(n, m, erase_line(s, "left", FALSE).grid)
  BY <1>1, <1>2 DEF erase_line
<1>8. AllPaired(n, m, erase_line(s, "all", FALSE).grid)
  BY <1>2 DEF erase_line
<1>9. ASSUME NEW k \in Counts
      PROVE  AllPaired(n, m, erase_chars_screen(s, k).grid)
  <2> DEFINE g == erase_chars(s.grid, r, c, k)
             t == record_damage(s, {r})
             u == erase_chars_screen(s, k)
  <2>1. k \in Positive /\ s.grid \in Grids(n, m)
    BY TerminalAssumption, LiveFacts
  <2>2. AllPaired(n, m, g)
    <3> HIDE DEF r, c
    <3> QED BY <1>1, <2>1, erase_charsIsPaired
  <2>3. t \in Live(n, m, h) /\ t.grid = s.grid
    BY DamageKeeps, DamageIs
  <2>4. u = Unpend([t EXCEPT !.grid = g])
    BY DEF erase_chars_screen, record_damage
  <2> HIDE DEF t, g, u
  <2>5. u.grid = g
    BY <2>3, <2>4, GridIs
  <2>6. AllPaired(n, m, u.grid)
    BY <2>2, <2>5
  <2> QED BY <2>6 DEF u
<1> QED BY <1>3, <1>4, <1>5, <1>6, <1>7, <1>8, <1>9

(* A chunk that keeps the characters of a whole screen whole. *)
LEMMA FeedIsWhole ==
  ASSUME TerminalInv, NEW t, Feed(t), t \in Screens(cols(screen), rows(screen)),
         AllPaired(cols(screen), rows(screen), t.grid)
  PROVE  Whole(screen')
<1> DEFINE n == cols(screen)
           m == rows(screen)
           u == [scroll_viewport_reset(t) EXCEPT !.damage = {}]
<1>1. n \in Positive /\ m \in Positive
  BY DEF TerminalInv, Proper
<1>2. screen' = u
  BY DEF Feed
<1> HIDE DEF n, m
<1>3. t \in Screens(n, m) /\ AllPaired(n, m, t.grid)
  BY DEF n, m
<1>4. u \in Screens(n, m) /\ u.grid = t.grid
  BY <1>1, <1>3, TakenIs
<1> HIDE DEF u
<1>5. Whole(u)
  BY <1>1, <1>3, <1>4, WholeIs
<1> QED BY <1>2, <1>5

(* Printing and erasing leave no half of a wide character behind, through the  *)
(* wrap, the move of a character that does not fit and the halves that a cut   *)
(* leaves at its ends, with the exceptions that the property names.            *)
THEOREM TerminalGlyphsStayWhole == Spec => GlyphsStayWhole
<1> DEFINE Kept ==
      \/ Whole(screen) => Whole(screen')
      \/ screen.modes.insert \/ has_lr_margins(screen) \/ cols(screen) = 1
      \/ /\ PrintChar /\ screen'.last \in Wide /\ Overprints /\ screen.cur.col = cols(screen) - 1
         /\ screen.modes.autowrap /\ ~screen.pending
      \/ ~(PrintChar \/ Erase \/ ECH)
<1>1. TerminalInv /\ [Next]_vars => [Kept]_vars
  <2> DEFINE n == cols(screen)
             m == rows(screen)
             h == Rest(screen)
  <2> SUFFICES ASSUME TerminalInv, Whole(screen), ~screen.modes.insert, ~has_lr_margins(screen), n # 1,
                      PrintChar \/ Erase \/ ECH,
                      ~(/\ PrintChar /\ screen'.last \in Wide /\ Overprints /\ screen.cur.col = n - 1
                        /\ screen.modes.autowrap /\ ~screen.pending)
               PROVE  Whole(screen')
    OBVIOUS
  <2>1. OnScreen(screen)
    BY DEF PrintChar, Erase, EraseIn, ECH, Feed
  <2>2. n \in Positive /\ m \in Positive /\ screen \in Live(n, m, h)
    BY <2>1, ScreenIsLive
  <2>3. ASSUME NEW t, Feed(t), t \in Live(n, m, h), AllPaired(n, m, t.grid)
        PROVE  Whole(screen')
    <3>1. t \in Screens(n, m)
      BY <2>3 DEF Live
    <3> QED BY <2>3, <3>1, FeedIsWhole
  <2> HIDE DEF n, m, h
  <2>4. AllPaired(n, m, screen.grid)
    BY <2>2, LiveFacts, WholeIs
  <2>5. CASE PrintChar
    <3>1. PICK c \in Chars : Feed(write_char(screen, c))
      BY <2>5 DEF PrintChar
    <3> DEFINE t == write_char(screen, c)
    <3>2. t \in Live(n, m, h) /\ t.last = c
      BY <2>2, write_charKeeps, write_charIs DEF Printed
    <3>3. screen'.last = c
      <4>1. Feed(t) /\ t \in Screens(n, m)
        BY <3>1, <3>2 DEF Live
      <4> HIDE DEF t
      <4>2. screen'.last = t.last
        BY <4>1, FeedSeen DEF n, m
      <4> QED BY <3>2, <4>2
    <3>4. screen.cur.col = n - 1 /\ char_width(c) = 2 /\ screen.modes.autowrap /\ ~screen.pending
            => cell(screen.grid, screen.cur.row, screen.cur.col).w # 0
      <4>1. char_width(c) = 2 => c \in Wide
        BY DEF char_width
      <4> QED BY <2>5, <3>3, <4>1 DEF Overprints
    <3>5. write_char(screen, c) \in Live(n, m, h) /\ AllPaired(n, m, write_char(screen, c).grid)
      BY <2>2, <2>4, <3>4, write_charKeeps, write_charIsPaired
    <3> QED BY <2>3, <3>1, <3>5
  <2>6. CASE Erase
    <3>1. \/ \E mode \in {"below", "above", "all"} : Feed(erase_display(screen, mode, FALSE))
          \/ \E mode \in {"right", "left", "all"} : Feed(erase_line(screen, mode, FALSE))
      BY <2>6 DEF Erase, EraseIn
    <3>2. ASSUME NEW mode \in {"below", "above", "all"}, Feed(erase_display(screen, mode, FALSE))
          PROVE  Whole(screen')
      <4>1. erase_display(screen, mode, FALSE) \in Live(n, m, h)
        BY <2>2, ErasesKeep
      <4>2. AllPaired(n, m, erase_display(screen, mode, FALSE).grid)
        BY <2>2, <2>4, ErasureIsPaired
      <4> QED BY <2>3, <3>2, <4>1, <4>2
    <3>3. ASSUME NEW mode \in {"right", "left", "all"}, Feed(erase_line(screen, mode, FALSE))
          PROVE  Whole(screen')
      <4>1. erase_line(screen, mode, FALSE) \in Live(n, m, h)
        BY <2>2, ErasesKeep
      <4>2. AllPaired(n, m, erase_line(screen, mode, FALSE).grid)
        BY <2>2, <2>4, ErasureIsPaired
      <4> QED BY <2>3, <3>3, <4>1, <4>2
    <3> QED BY <3>1, <3>2, <3>3
  <2>7. CASE ECH
    <3>1. PICK k \in Counts : Feed(erase_chars_screen(screen, k))
      BY <2>7 DEF ECH
    <3>2. k \in Positive
      BY TerminalAssumption
    <3>3. erase_chars_screen(screen, k) \in Live(n, m, h)
      BY <2>2, <3>2, EditsKeep DEF Positive
    <3>4. AllPaired(n, m, erase_chars_screen(screen, k).grid)
      BY <2>2, <2>4, ErasureIsPaired
    <3> QED BY <2>3, <3>1, <3>3, <3>4
  <2> QED BY <2>5, <2>6, <2>7
<1>2. TerminalInv /\ [Next]_vars => TerminalInv'
  BY NextKeeps
<1> QED BY <1>1, <1>2, InitHolds, PTL DEF Spec, GlyphsStayWhole
=============================================================================
