---------------------------- MODULE MCTerminal ----------------------------
(***************************************************************************)
(* Instance of Terminal: screens of 3 x 3 that a program has painted, with *)
(* two lines of history, in several states of cursor, region and margins.  *)
(***************************************************************************)
EXTENDS Terminal

Narrow(c) == Cell(c, 1, FALSE)
Row3(x, y, z) == [cells |-> <<x, y, z>>, cont |-> FALSE]

PaintedGrid ==
  [NewGrid(3, 3) EXCEPT
     !.lines = <<Row3(Narrow("x"), Narrow("y"), Cell("p", 1, TRUE)),
                 Row3(Narrow("a"), Cell("W", 2, FALSE), Cell(" ", 0, FALSE)),
                 [Row3(Narrow("b"), Blank, Blank) EXCEPT !.cont = TRUE]>>,
     !.sb = <<Row3(Narrow("1"), Blank, Blank), Row3(Narrow("2"), Blank, Blank)>>]

Screen3(r, c, pending, t, l) ==
  [new(3, 3) EXCEPT !.grid = PaintedGrid, !.cur = [row |-> r, col |-> c],
                    !.pending = pending, !.top = t,
                    !.modes.margins = l # 0, !.left = l]

MCPainted ==
  {Screen3(2, 2, TRUE, 0, 0), [Screen3(1, 2, FALSE, 1, 0) EXCEPT !.modes.allow = TRUE],
   Screen3(0, 1, FALSE, 1, 1)}

\* The second screen of Painted has mode 40 set.
MCColumnsOf == [b \in BOOLEAN |-> IF b THEN 4 ELSE 2]

MCSizes == {<<3, 2>>, <<3, 5>>, <<2, 3>>, <<4, 2>>}
=============================================================================
