--------------------------------- MODULE Grid ---------------------------------
(***************************************************************************)
(* What BasicGrid.cpp keeps of a grid, as operators on a record: the rows  *)
(* and columns of the grid, which rows are selected (m_sel), the cursor    *)
(* and the window on the rows (view().row_range and fit_count).            *)
(* Rows and columns count from 0, as in the source.  The program asks for  *)
(* one row at a time, so count is 1 throughout.  The window begins at the  *)
(* row top and has room for fit rows; it always has all the columns.  What *)
(* is queued for rendering is left out.                                    *)
(***************************************************************************)
EXTENDS Integers, Sequences, SequencesExt

Clamped(x, low, high) ==
    IF x < low THEN low ELSE IF x > high THEN high ELSE x

AtLeast0(x) == IF x < 0 THEN 0 ELSE x

\* Mutant: one row too many is skipped.
AdjustedBeyond(g) ==
    CASE g.top > g.cursor.row -> [g EXCEPT !.top = g.cursor.row]
      [] g.top + g.fit <= g.cursor.row -> [g EXCEPT !.top = g.cursor.row - g.fit]
      [] OTHER -> g

\* adjust_view: the least scrolling that shows the cursor.  (Where no row fits
\* the window begins after the cursor.)
Adjusted(g) ==
    CASE g.top + g.fit <= g.cursor.row -> [g EXCEPT !.top = g.cursor.row - (g.fit - 1)]
      [] g.top > g.cursor.row -> [g EXCEPT !.top = g.cursor.row]
      [] OTHER -> g

\* set_cursor
SetCursor(g, col, row) ==
    LET cursor == [col |-> Clamped(col, 0, AtLeast0(g.cols - 1)),
                   row |-> Clamped(row, 0, AtLeast0(g.rows - 1))]
    IN IF cursor = g.cursor THEN g ELSE Adjusted([g EXCEPT !.cursor = cursor])

\* The constructor and make: the cursor is at (-1, -1) until it is set.
NewGrid(cols, rows, fit) ==
    SetCursor([cols |-> cols, rows |-> rows, sel |-> [k \in 1..rows |-> FALSE],
               cursor |-> [col |-> -1, row |-> -1], top |-> 0, fit |-> fit], 0, 0)

\* reflow_impl: another number of rows fits.
Reflowed(g, fit) == Adjusted([g EXCEPT !.fit = fit])

\* Mutant: the cursor stays where it was.
ResizedOnly(g, rows) ==
    [g EXCEPT !.rows = rows,
              !.sel = [k \in 1..rows |-> IF k \in DOMAIN @ THEN @[k] ELSE FALSE]]

\* resize_grid, to as many columns.
Resize(g, rows) ==
    [SetCursor([g EXCEPT !.rows = rows,
                    !.sel = [k \in 1..rows |-> IF k \in DOMAIN @ THEN @[k] ELSE FALSE]],
               0, 0) EXCEPT !.top = 0]

\* content_action with select, unselect and select_toggle.
SelectAll(g, enable) == [g EXCEPT !.sel = [k \in DOMAIN @ |-> enable]]
SelectToggle(g, row) ==
    [g EXCEPT !.sel = [k \in DOMAIN @ |-> IF k = row + 1 THEN ~@[k] ELSE @[k]]]

\* The row content_action inserts at.
InsertRow(g, after) ==
    Clamped(IF after THEN g.cursor.row + 1 ELSE g.cursor.row, 0, g.rows)

\* Mutant: only a row above the cursor moves it.
InsertedAbove(g, row) ==
    LET with == [g EXCEPT !.rows = @ + 1, !.sel = InsertAt(@, row + 1, FALSE)]
        col == g.cursor.col
    IN Adjusted(CASE with.rows = 1 -> SetCursor(with, col, 0)
                  [] with.rows # 1 /\ row < g.cursor.row ->
                        SetCursor(with, col, g.cursor.row + 1)
                  [] OTHER -> with)

\* content_action with insert_before, after content_insert.
Inserted(g, row) ==
    LET with == [g EXCEPT !.rows = @ + 1, !.sel = InsertAt(@, row + 1, FALSE)]
        col == g.cursor.col
    IN Adjusted(CASE with.rows = 1 -> SetCursor(with, col, 0)
                  [] with.rows # 1 /\ row <= g.cursor.row ->
                        SetCursor(with, col, g.cursor.row + 1)
                  [] OTHER -> with)

\* Mutant: the selection of the rows below does not move up.
WithoutRowStale(g, row) == [g EXCEPT !.rows = @ - 1]

\* One row leaves in content_action with erase or erase_selected.
WithoutRow(g, row) == [g EXCEPT !.rows = @ - 1, !.sel = RemoveAt(@, row + 1)]

\* The end of content_action with erase or erase_selected.
CursorClamped(g) == Adjusted(SetCursor(g, g.cursor.col, g.cursor.row))

GridOK(g) ==
    /\ g \in [cols : Nat \ {0}, rows : Nat, sel : Seq(BOOLEAN),
              cursor : [col : Nat, row : Nat], top : Nat, fit : Nat]
    /\ g.cursor.col < g.cols
    /\ g.cursor.row <= AtLeast0(g.rows - 1)
=============================================================================
