------------------------------ MODULE Selection ------------------------------
(***************************************************************************)
(* Text selection (crates/emux-term/src/selection.rs).  A point has an     *)
(* absolute row, 0 the oldest line kept, the lines on the screen after     *)
(* those scrolled off.  A text is a sequence of characters; lines are the  *)
(* texts of all rows, padded to the width of the screen.                   *)
(***************************************************************************)
EXTENDS Integers, Sequences, SequencesExt

SelectionMode == {"Normal", "Rectangular"}

Point(row, col) == [row |-> row, col |-> col]

Least(a, b) == IF a < b THEN a ELSE b
Most(a, b) == IF a > b THEN a ELSE b

(* Selection::start and extend. *)
SelectFrom(point, mode) == [start |-> point, end |-> point, mode |-> mode]
Extend(sel, point) == [sel EXCEPT !.end = point]

Before(p, q) == p.row < q.row \/ (p.row = q.row /\ p.col <= q.col)

ordered(sel) ==
  IF Before(sel.start, sel.end) THEN [begin |-> sel.start, end |-> sel.end]
                                ELSE [begin |-> sel.end, end |-> sel.start]

Left(sel) == Least(sel.start.col, sel.end.col)
Right(sel) == Most(sel.start.col, sel.end.col)

contains(sel, row, col) ==
  LET o == ordered(sel) IN
  /\ row \in o.begin.row .. o.end.row
  /\ \/ /\ sel.mode = "Normal"
        /\ row = o.begin.row => col >= o.begin.col
        /\ row = o.end.row => col <= o.end.col
     \/ sel.mode = "Rectangular" /\ col \in Left(sel) .. Right(sel)

TrimEnd(text) ==
  LET inked == {i \in DOMAIN text : text[i] # " "}
  IN  SubSeq(text, 1, IF inked = {} THEN 0 ELSE CHOOSE i \in inked : \A j \in inked : j <= i)

row_full_text(lines, row) == IF row < Len(lines) THEN lines[row + 1] ELSE <<>>

(* The columns of the row that are taken, the last one included. *)
LastColumn(sel, row, text) ==
  CASE sel.mode = "Rectangular" -> Right(sel)
    [] sel.mode = "Normal" /\ row = ordered(sel).end.row -> ordered(sel).end.col
    [] OTHER -> Len(text) - 1

(* Mutant: only the row the selection ends in is cut on its left. *)
FirstColumn_of_last_row(sel, row) ==
  CASE sel.mode = "Rectangular" -> Left(sel)
    [] sel.mode = "Normal" /\ row = ordered(sel).end.row -> ordered(sel).begin.col
    [] OTHER -> 0

FirstColumn(sel, row) ==
  CASE sel.mode = "Rectangular" -> Left(sel)
    [] sel.mode = "Normal" /\ row = ordered(sel).begin.row -> ordered(sel).begin.col
    [] OTHER -> 0

RowOfText(sel, lines, row) ==
  LET text == row_full_text(lines, row)
  IN  TrimEnd(SubSeq(text, FirstColumn(sel, row) + 1, Least(LastColumn(sel, row, text) + 1, Len(text))))

(* One text for each row, which the code joins with newlines. *)
get_text(sel, lines) ==
  LET o == ordered(sel)
  IN  [i \in 1 .. o.end.row - o.begin.row + 1 |-> RowOfText(sel, lines, o.begin.row + i - 1)]
=============================================================================
