------------------------------ MODULE BasicGrid ------------------------------
(***************************************************************************)
(* The BasicGrid that a TableSchemaEditor and a TableGrid each are, with   *)
(* the keys that BasicGrid::handle_event_impl takes before either looks at *)
(* them.  What such a key leaves alone besides the grid is for the module  *)
(* that extends this one to say.                                           *)
(***************************************************************************)
EXTENDS Integers, Sequences, SequencesExt

CONSTANT
    Names           \* names of rows, besides those the program gives

VARIABLE
    grid            \* the BasicGrid

G == INSTANCE Grid

\* The name the program gives to a row that is added to n rows.
NewName(n) == <<"new", n>>

Move(col, row) == grid' = G!SetCursor(grid, grid.cursor.col + col, grid.cursor.row + row)

\* Arrows, home and end, and pages, by how far they step.
Steps ==
    {<<0, -1>>, <<0, 1>>, <<-1, 0>>, <<1, 0>>,
     <<0, -grid.cursor.row>>, <<0, grid.rows - 1 - grid.cursor.row>>,
     <<0, -grid.fit - 1>>, <<0, G!AtLeast0(grid.fit - 1)>>}

Select(enable) == grid' = G!SelectAll(grid, enable)

ToggleSelect == grid' = G!SelectToggle(grid, grid.cursor.row)

GridKey ==
    \/ \E step \in Steps : Move(step[1], step[2])
    \/ \E enable \in BOOLEAN : Select(enable)
    \/ ToggleSelect
=============================================================================
