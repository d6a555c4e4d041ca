----------------------------- MODULE SchemaEditor -----------------------------
(***************************************************************************)
(* The editor of a table's columns (TableSchemaEditor.cpp) on the grid of  *)
(* BasicGrid.cpp.  Each key the editor handles is an action.  A row holds  *)
(* a column as the schema has it, the column as edited, and which of its   *)
(* cells are marked as modified.  A row that was inserted has no column in *)
(* the schema; one that was erased is kept, and marked, until it is        *)
(* restored.  The text of the open field is whatever was typed when it is  *)
(* accepted.                                                               *)
(***************************************************************************)
EXTENDS BasicGrid

CONSTANTS
    LastType,       \* value types are 0..LastType
    Integer,        \* the one that can be signed, if it is one of these
    LastSize,       \* sizes are 0..LastSize
    FitCount,       \* how many rows the window has room for
    MaxColumns,     \* bound: columns of the schema
    MaxRows         \* bound: rows of the grid

ASSUME SchemaEditorAssumption ==
    /\ LastType \in Nat /\ LastSize \in Nat /\ Integer \in Nat
    /\ FitCount \in Nat /\ MaxColumns \in Nat /\ MaxRows \in Nat

VARIABLES
    schema,         \* the columns of m_table's schema
    data,           \* m_data
    control         \* whether the editor has input control: the field is open

vars == <<schema, data, grid, control>>

NoIndex == -1       \* ~0u
NoName == <<>>

CellNames == Names \cup {NoName} \cup {NewName(n) : n \in 0..MaxRows}
Columns ==
    [index : {NoIndex} \cup 0..MaxColumns - 1, name : CellNames,
     type : 0..LastType, size : 0..LastSize, signed : BOOLEAN]
Cells == {"name", "type", "size", "signed"}
NoColumn ==
    [index |-> NoIndex, name |-> NoName, type |-> 0, size |-> 0, signed |-> FALSE]

IsInserted(d) == d.orig.index = NoIndex
IsDeleted(d) == d.orig.index # NoIndex /\ d.edit.index = NoIndex

TypeOK ==
    /\ schema \in Seq(Columns)
    /\ data \in Seq([orig : Columns, edit : Columns, modified : SUBSET Cells])
    /\ G!GridOK(grid)
    /\ control \in BOOLEAN

RowsOf(columns) ==
    [k \in DOMAIN columns |->
        [orig |-> columns[k], edit |-> columns[k], modified |-> {}]]

\* The schemas to begin with: columns of the last type, signed or not.
Schemas ==
    UNION {[1..n -> [index : {0}, name : Names, type : {LastType}, size : {0},
                     signed : {LastType = Integer, FALSE}]] : n \in 0..MaxColumns}

\* make() resets the editor of a table.
Init ==
    /\ \E columns \in Schemas :
        schema = [k \in DOMAIN columns |-> [columns[k] EXCEPT !.index = k - 1]]
    /\ data = RowsOf(schema)
    /\ grid = G!NewGrid(5, Len(schema), FitCount)
    /\ control = FALSE

Row == data[grid.cursor.row + 1]

-----------------------------------------------------------------------------
(* The keys.                                                               *)

GridKeys == ~control /\ GridKey /\ UNCHANGED <<schema, data, control>>

Insert(after) ==
    /\ ~control
    /\ Len(data) < MaxRows
    /\ LET row == G!InsertRow(grid, after)
           new == [orig |-> NoColumn, modified |-> {},
                   edit |-> [NoColumn EXCEPT !.name = NewName(Len(data))]]
       IN /\ data' = InsertAt(data, row + 1, new)
          /\ grid' = G!Inserted(grid, row)
    /\ UNCHANGED <<schema, control>>

Reset ==
    /\ ~control
    /\ data' = RowsOf(schema)
    /\ grid' = G!SelectAll(G!Resize(grid, Len(schema)), FALSE)
    /\ UNCHANGED <<schema, control>>

OpenField ==
    /\ ~control /\ data # <<>> /\ ~IsDeleted(Row) /\ grid.cursor.col = 1
    /\ control' = TRUE
    /\ UNCHANGED <<schema, data, grid>>

\* modified.set(bit, differs)
Marked(modified, cell, differs) ==
    IF differs THEN modified \cup {cell} ELSE modified \ {cell}

\* The cell at the cursor takes its next value; the name is not stepped.
Stepped(edit, col) ==
    CASE col = 2 -> [edit EXCEPT !.type = (@ + 1) % (LastType + 1)]
      [] col = 3 -> [edit EXCEPT !.size = (@ + 1) % (LastSize + 1)]
      [] col = 4 -> [edit EXCEPT !.signed = ~@]
      [] OTHER -> edit

CellAt(col) == <<"index", "name", "type", "size", "signed">>[col + 1]

\* Mutant: the sign that is dropped stays unmarked.
StepValueUnmarked(d, col) ==
    LET cell == CellAt(col)
        next == Stepped(d.edit, col)
        marked == Marked(d.modified, cell, next[cell] # d.orig[cell])
    IN IF next.type # Integer /\ next.signed
       THEN [d EXCEPT !.edit = [next EXCEPT !.signed = FALSE], !.modified = marked]
       ELSE [d EXCEPT !.edit = next, !.modified = marked]

\* cursor_step_value(false) on the row d; only an integer stays signed.
StepValue(d, col) ==
    LET cell == CellAt(col)
        next == Stepped(d.edit, col)
        marked == Marked(d.modified, cell, next[cell] # d.orig[cell])
    IN IF next.type # Integer /\ next.signed
       THEN [d EXCEPT !.edit = [next EXCEPT !.signed = FALSE],
                      !.modified = Marked(marked, "signed", d.orig.signed)]
       ELSE [d EXCEPT !.edit = next, !.modified = marked]

StepCell ==
    /\ ~control /\ data # <<>> /\ ~IsDeleted(Row)
    /\ grid.cursor.col \in {2, 3, 4}
    /\ data' = [data EXCEPT ![grid.cursor.row + 1] = StepValue(@, grid.cursor.col)]
    /\ UNCHANGED <<schema, grid, control>>

\* Mutant: a column of the schema goes the way of an inserted one.
ErasedForGood(s, row) ==
    [s EXCEPT !.data = RemoveAt(@, row + 1), !.grid = G!WithoutRow(@, row)]

\* content_erase, and the row leaves the grid with its selection if it returns
\* true.  A column of the schema stays as a row marked as deleted.
Erased(s, row) ==
    LET d == s.data[row + 1] IN
    IF IsInserted(d)
    THEN [s EXCEPT !.data = RemoveAt(@, row + 1), !.grid = G!WithoutRow(@, row)]
    ELSE [s EXCEPT !.data[row + 1].edit = [d.orig EXCEPT !.index = NoIndex],
                   !.grid.sel[row + 1] = FALSE]

\* Mutant: the row that takes the place of an erased one is passed over.
EraseTurnSkipping(s) ==
    IF s.index >= s.grid.rows THEN s
    ELSE [(IF s.grid.sel[s.index + 1] THEN Erased(s, s.index) ELSE s)
             EXCEPT !.index = s.index + 1]

\* A turn of the loop of erase_selected: the index advances unless a row left.
EraseTurn(s) ==
    LET after == IF s.grid.sel[s.index + 1] THEN Erased(s, s.index) ELSE s
    IN IF after.grid.rows < s.grid.rows THEN after
       ELSE [after EXCEPT !.index = @ + 1]

\* The loop takes as many turns as there were rows.
EraseLoop(s) ==
    LET turns[n \in 0..s.grid.rows] == IF n = 0 THEN s ELSE EraseTurn(turns[n - 1])
    IN turns[s.grid.rows]

\* The state the erasing operations work on.
Working == [data |-> data, grid |-> grid, index |-> 0]

EraseSelected ==
    /\ ~control /\ data # <<>>
    /\ LET s == EraseLoop(Working) IN
       data' = s.data /\ grid' = G!CursorClamped(s.grid)
    /\ UNCHANGED <<schema, control>>

EraseCursorAndSelected ==
    /\ ~control /\ data # <<>>
    /\ LET one == Erased(Working, grid.cursor.row)
           s == EraseLoop([one EXCEPT !.grid = G!CursorClamped(@)])
       IN data' = s.data /\ grid' = G!CursorClamped(s.grid)
    /\ UNCHANGED <<schema, control>>

Restore ==
    /\ ~control /\ data # <<>> /\ ~IsInserted(Row)
    /\ data' = [data EXCEPT ![grid.cursor.row + 1] =
                   [@ EXCEPT !.edit = Row.orig, !.modified = {}]]
    /\ UNCHANGED <<schema, grid, control>>

-----------------------------------------------------------------------------
(* The keys of the open field.                                             *)

\* An empty name is not taken.
AcceptField(name) ==
    /\ control
    /\ data' = IF name = NoName THEN data
               ELSE [data EXCEPT ![grid.cursor.row + 1] =
                   [Row EXCEPT !.edit.name = name,
                               !.modified = Marked(Row.modified, CellAt(grid.cursor.col),
                                                   name # Row.orig.name)]]
    /\ control' = FALSE
    /\ UNCHANGED <<schema, grid>>

CancelField ==
    /\ control
    /\ control' = FALSE
    /\ UNCHANGED <<schema, data, grid>>

Next ==
    \/ GridKeys
    \/ \E after \in BOOLEAN : Insert(after)
    \/ Reset \/ OpenField \/ StepCell
    \/ EraseSelected \/ EraseCursorAndSelected \/ Restore
    \/ \E name \in Names \cup {NoName} : AcceptField(name)
    \/ control /\ AcceptField(Row.edit.name)
    \/ CancelField

Spec == Init /\ [][Next]_vars

-----------------------------------------------------------------------------
(* Properties.                                                             *)

\* What content_action asserts, and m_data with it: the grid, the selection and
\* the data have as many rows, whatever was inserted, erased and reset.
SizesAgree == grid.rows = Len(grid.sel) /\ grid.rows = Len(data)

\* A cell of a row that is displayed is marked as modified exactly when it
\* differs from the schema, although erasing a row leaves its marks and dropping
\* a sign changes a cell other than the one at the cursor.  The name of an
\* inserted row is marked only once it has been edited.
ModifiedExact ==
    \A k \in DOMAIN data : \A cell \in Cells :
        ~IsDeleted(data[k]) /\ (IsInserted(data[k]) => cell # "name") =>
            (cell \in data[k].modified <=> data[k].edit[cell] # data[k].orig[cell])

\* No erasing and inserting loses, duplicates or reorders a column of the schema.
ColumnsKept ==
    LET kept == {k \in DOMAIN data : ~IsInserted(data[k])} IN
    /\ {data[k].orig : k \in kept} = Range(schema)
    /\ \A j, k \in kept : j < k => data[j].orig.index < data[k].orig.index

\* After erasing the selected rows no row is selected, so none was passed over.
ErasesAllSelected ==
    [][EraseSelected \/ EraseCursorAndSelected =>
        \A k \in DOMAIN grid'.sel : ~grid'.sel[k]]_vars

\* A row that is inserted leaves the cursor on the row it was on, and every row
\* with the selection it had.
InsertKeepsRows ==
    [][\A after \in BOOLEAN : Insert(after) /\ data # <<>> =>
        /\ Row' = Row
        /\ \E k \in DOMAIN data' :
            /\ RemoveAt(data', k) = data /\ RemoveAt(grid'.sel, k) = grid.sel
            /\ IsInserted(data'[k]) /\ ~grid'.sel[k]]_vars
=============================================================================
