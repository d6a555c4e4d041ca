----------------------------- MODULE MetadataGrid -----------------------------
(***************************************************************************)
(* The metadata of an object and the grid that shows it: a TableGrid       *)
(* (TableGrid.cpp) with the event filter, the cell signal and the          *)
(* notifications that BasePropView.cpp binds to it.  The keys issue        *)
(* commands; the commands change the table and, if they act, come back as  *)
(* notifications before they return, and only these change the rows of the *)
(* grid.                                                                   *)
(*                                                                         *)
(* The commands are Hord's: SetMetaField sets the field of a name and may  *)
(* create it, so a name is that of one field; RenameMetaField may be       *)
(* refused; a command on an index that is not in the table does nothing.   *)
(* Hord also prints numbers, reads texts, and translates object ids to     *)
(* paths and back; those translations are constants, and none is taken to  *)
(* undo another: a printed number may read as another one, and the path    *)
(* that is shown for an object may name none.                              *)
(*                                                                         *)
(* Init, Next, Spec and TypeOK begin with MG here, as SchemaEditor has     *)
(* them too and GridsProofs extends both.                                  *)
(***************************************************************************)
EXTENDS BasicGrid

CONSTANTS
    Words,          \* texts that are of none of the following kinds
    Numerals,       \* texts of the characters of numbers, well formed or not
    Paths,          \* texts that begin with a slash, whether they name an object or not
    Numbers,
    Ids,            \* object ids, of objects that exist or not
    NullId,         \* ID_NULL
    Printed,        \* the text that a number is printed as (operator <<)
    ReadFrom,       \* the value that a text is read as (read_from_string)
    PathTo,         \* the text that an id is shown as (path_to)
    FindPath,       \* the id of the object a text names (find_ptr_path), or NullId
    Fits,           \* how many rows the window can have room for
    MaxFields,      \* bound: fields of the object
    MaxValued       \* bound: fields that have a value

VARIABLES
    fields,         \* the metadata table
    field           \* m_field: whether it is open (the grid has input control),
                    \* its type (m_field_type), text and line in the window

mgvars == <<fields, grid, field>>

Empty == <<>>

FieldNames == Names \cup {Empty} \cup {NewName(n) : n \in 0..MaxFields - 1}

Texts == Words \cup Numerals \cup Paths \cup {Empty}

NullValue == [kind |-> "null"]
String(text) == [kind |-> "string", text |-> text]
Number(n) == [kind |-> "number", number |-> n]
ObjectId(id) == [kind |-> "object_id", id |-> id]
Values ==
    {NullValue} \cup {String(t) : t \in Texts} \cup {Number(n) : n \in Numbers}
        \cup {ObjectId(id) : id \in Ids}

\* The translations are between the values and the texts of the model.
ASSUME MetadataGridAssumption ==
    /\ Fits \subseteq Nat /\ MaxFields \in Nat
    /\ Printed \in [Numbers -> Texts] /\ PathTo \in [Ids -> Texts]
    /\ \A t \in Texts : ReadFrom[t] \in Values /\ FindPath[t] \in Ids

FieldTypes == [name : FieldNames, value : Values]

\* Where the bound on values is kept.
FewValues(rows) == Cardinality({k \in DOMAIN rows : rows[k].value # NullValue}) <= MaxValued

\* The types of the columns, and the texts typed into them.
ColumnType(col) == IF col = 0 THEN "string" ELSE "dynamic"
Typed(col) == IF col = 0 THEN FieldNames ELSE Texts

NoField == [open |-> FALSE, type |-> "null", text |-> Empty, line |-> 0]
InputControl == field.open

MGTypeOK ==
    /\ fields \in Seq(FieldTypes)
    /\ G!GridOK(grid)
    /\ field = NoField \/
       field \in [open : {TRUE}, type : {"string", "number", "object_id", "dynamic"},
                  text : FieldNames \cup Texts, line : Int]

\* The grid of an object that was loaded with some fields of different names.
MGInit ==
    /\ fields \in UNION {[1..n -> FieldTypes] : n \in 0..MaxFields}
    /\ FewValues(fields)
    /\ IsInjective([k \in DOMAIN fields |-> fields[k].name])
    /\ \E fit \in Fits : grid = G!NewGrid(2, Len(fields), fit)
    /\ field = NoField

-----------------------------------------------------------------------------
(* Notifications: what a command that acted does to the grid.              *)

\* notify_cell_changed(row, col)
ClosedBy(row, col) ==
    IF grid.cursor = [row |-> row, col |-> col] THEN NoField ELSE field

\* insert_before(row, 1)
FieldCreated(row) == grid' = G!Inserted(grid, row)

\* Mutant: the cursor is not brought back into the grid.
FieldRemovedOnly(g, row) == G!WithoutRow(g, row)

\* erase(row, 1) of a grid g whose field is closed
FieldRemoved(g, row) == G!CursorClamped(G!WithoutRow(g, row))

-----------------------------------------------------------------------------
(* The keys.                                                               *)

TableGridKeys == ~InputControl /\ GridKey /\ UNCHANGED <<fields, field>>

Named(name) == {k \in DOMAIN fields : fields[k].name = name}

\* The name of a new field counts the rows; if a field has it already, that
\* field is set to null.  The table places a field it creates.
NewField ==
    /\ ~InputControl
    /\ LET name == NewName(grid.rows) IN
       \/ /\ Named(name) = {}
          /\ Len(fields) < MaxFields
          /\ \E row \in 0..Len(fields) :
                /\ fields' = InsertAt(fields, row + 1, [name |-> name, value |-> NullValue])
                /\ FieldCreated(row)
          /\ UNCHANGED field
       \/ \E k \in Named(name) :
          /\ fields' = [fields EXCEPT ![k].value = NullValue]
          /\ field' = ClosedBy(k - 1, 1)
          /\ UNCHANGED grid

\* RemoveMetaField on the field at row, with its notification.
Removed(s, row) ==
    IF row \notin 0..Len(s.fields) - 1 THEN s
    ELSE [fields |-> RemoveAt(s.fields, row + 1), grid |-> FieldRemoved(s.grid, row)]

RemoveTurn(s, row) == IF s.grid.sel[row + 1] THEN Removed(s, row) ELSE s

\* Mutant: the rows are taken from the first to the last.
RemoveLoopUp(s) ==
    LET turns[n \in 0..s.grid.rows] ==
            IF n = 0 THEN s
            ELSE IF n > turns[n - 1].grid.rows THEN turns[n - 1]
            ELSE RemoveTurn(turns[n - 1], n - 1)
    IN turns[s.grid.rows]

\* Every selected row, from the last to the first.
RemoveLoop(s) ==
    LET turns[n \in 0..s.grid.rows] ==
            IF n = 0 THEN s ELSE RemoveTurn(turns[n - 1], s.grid.rows - n)
    IN turns[s.grid.rows]

Table == [fields |-> fields, grid |-> grid]

RemoveSelected ==
    /\ ~InputControl /\ grid.rows > 0
    /\ LET s == RemoveLoop(Table) IN fields' = s.fields /\ grid' = s.grid
    /\ UNCHANGED field

RemoveCursorAndSelected ==
    /\ ~InputControl /\ grid.rows > 0
    /\ LET s == RemoveLoop(Removed(Table, grid.cursor.row)) IN
       fields' = s.fields /\ grid' = s.grid
    /\ UNCHANGED field

-----------------------------------------------------------------------------
(* Editing a cell.                                                         *)

\* The cell at the cursor, and what may be read there when there is none.
CellAtCursor ==
    IF fields = <<>> THEN Values
    ELSE LET f == fields[grid.cursor.row + 1] IN
         {IF grid.cursor.col = 0 THEN String(f.name) ELSE f.value}

TextOf(v) ==
    CASE v.kind = "null" -> Empty
      [] v.kind = "number" -> Printed[v.number]
      [] v.kind = "object_id" -> PathTo[v.id]
      [] v.kind = "string" -> v.text

\* reflow_field: the field lies over the line of the cursor.
LineOfCursor(g) == g.cursor.row - g.top

\* enter or space, or '*' (dynamic): a null takes the type of its column, and
\* is not opened in a column of a fixed type.
OpenCell(dynamic) ==
    /\ ~InputControl
    /\ \E v \in CellAtCursor :
        /\ v.kind = "null" => ColumnType(grid.cursor.col) = "dynamic"
        /\ field' = [open |-> TRUE,
                     type |-> IF dynamic \/ v.kind = "null" THEN "dynamic" ELSE v.kind,
                     text |-> TextOf(v),
                     line |-> LineOfCursor(grid)]
    /\ UNCHANGED <<fields, grid>>

\* field_input and the other keys: a number takes no character but those that
\* numbers are written with, in any order.
Type(text) ==
    /\ InputControl
    /\ text \in Typed(grid.cursor.col)
    /\ field.type = "number" => text \in Numerals \cup {Empty}
    /\ field' = [field EXCEPT !.text = text]
    /\ UNCHANGED <<fields, grid>>

\* Mutant: a path is taken for an object whatever the field is of.
ReadBackPath(f) ==
    CASE f.text = Empty -> NullValue
      [] f.text # Empty /\ (f.type = "object_id" \/ f.text \in Paths) ->
            ObjectId(FindPath[f.text])
      [] f.type = "string" /\ f.text \notin Paths \cup {Empty} -> String(f.text)
      [] OTHER -> ReadFrom[f.text]

\* The value that is read of the text of the field: what begins with a slash is a
\* path if the field is of any type, and all of an object id is; a path that names
\* no object is that of the null object.
ReadBack(f) ==
    CASE f.text = Empty -> NullValue
      [] f.text # Empty /\ f.type = "string" -> String(f.text)
      [] f.text # Empty /\ (f.type = "object_id" \/ (f.type = "dynamic" /\ f.text \in Paths)) ->
            ObjectId(FindPath[f.text])
      [] OTHER -> ReadFrom[f.text]

\* RenameMetaField, which refuses the name of another field and may refuse any.
Renamed(row, name) ==
    {fields} \cup (IF Named(name) = {} THEN {[fields EXCEPT ![row + 1].name = name]} ELSE {})

\* SetMetaField.
ValueSet(row, value) == {[fields EXCEPT ![row + 1].value = value]}

\* enter: the cell is edited if the value is another.
AcceptCell ==
    /\ InputControl
    /\ LET row == grid.cursor.row
           new == ReadBack(field)
       IN fields' \in
            IF fields = <<>> \/ new \in CellAtCursor THEN {fields}
            ELSE IF grid.cursor.col = 0 THEN Renamed(row, field.text)
            ELSE ValueSet(row, new)
    /\ FewValues(fields')
    /\ field' = NoField
    /\ UNCHANGED grid

CancelCell ==
    /\ InputControl
    /\ field' = NoField
    /\ UNCHANGED <<fields, grid>>

-----------------------------------------------------------------------------
\* reflow_impl, when the terminal gets another size.
Reflow(fit) ==
    /\ grid' = G!Reflowed(grid, fit)
    /\ field' = IF InputControl THEN [field EXCEPT !.line = LineOfCursor(grid')] ELSE field
    /\ UNCHANGED fields

MGNext ==
    \/ TableGridKeys \/ NewField
    \/ RemoveSelected \/ RemoveCursorAndSelected
    \/ \E dynamic \in BOOLEAN : OpenCell(dynamic)
    \/ \E text \in FieldNames \cup Texts : Type(text)
    \/ AcceptCell \/ CancelCell
    \/ \E fit \in Fits : Reflow(fit)

MGSpec == MGInit /\ [][MGNext]_mgvars

-----------------------------------------------------------------------------
(* Properties.                                                             *)

\* The grid has a row, and a selection, for every field of the table, although
\* it is told of the fields one notification at a time.
GridMirrorsFields == grid.rows = Len(fields) /\ grid.rows = Len(grid.sel)

\* Removing the selected fields removes those that were selected when the key
\* was pressed, keeps the others in order, and leaves nothing selected, although
\* each removal moves the rows below it before the next is looked at.
RemovesSelected ==
    [][RemoveSelected =>
        /\ \E from \in [DOMAIN fields' -> DOMAIN fields] :
            /\ \A j, k \in DOMAIN fields' : j < k => from[j] < from[k]
            /\ Range(from) = {k \in DOMAIN fields : ~grid.sel[k]}
            /\ \A k \in DOMAIN fields' : fields'[k] = fields[from[k]]
        /\ \A k \in DOMAIN grid'.sel : ~grid'.sel[k]]_mgvars

\* The row of the cursor is in the window, however rows came and went and the
\* terminal was resized, and the open field lies over it: what is typed shows
\* where it will go.
CursorShown ==
    /\ grid.fit > 0 => grid.top <= grid.cursor.row /\ grid.cursor.row < grid.top + grid.fit
    /\ InputControl => field.line = LineOfCursor(grid)

\* Whether a cell is read back from its own text: Hord may print a number as the
\* text of another, and has no path for an object that is gone.
ReadsBack(v) ==
    /\ TextOf(v) # Empty
    /\ v.kind = "number" => ReadFrom[TextOf(v)] = v
    /\ v.kind = "object_id" => FindPath[TextOf(v)] = v.id

\* A cell that is opened by enter and accepted with the text it was opened with
\* is not edited, though the text is all that is left of it (but for a number that
\* is printed as another, an object that has no path and the empty string, which
\* TableGrid.cpp:122-159 loses); and whatever is typed, a string does not become a
\* number or an object because it looks like one, nor an object id anything else
\* because it names no object.
AcceptKeepsCell ==
    [][AcceptCell /\ fields # <<>> /\ field.type # "dynamic" =>
        LET old == CHOOSE v \in CellAtCursor : TRUE
            new == CHOOSE v \in CellAtCursor' : TRUE
        IN /\ field.text = TextOf(old) /\ ReadsBack(old) => fields' = fields
           /\ old.kind \in {"string", "object_id"} => new.kind \in {old.kind, "null"}]_mgvars
=============================================================================
