------------------------------ MODULE BareField ------------------------------
(***************************************************************************)
(* A BareField (BareField.cpp) as operators on a record: the length of its *)
(* text, the column of its cursor and the first column it shows (m_view).  *)
(* The text has one line.  The width of the field's frame is given to the  *)
(* operators, as its geometry comes from outside.                          *)
(*                                                                         *)
(* The cursors are external: a column is always kept within the text.      *)
(***************************************************************************)
EXTENDS Integers

EmptyField == [length |-> 0, cursor |-> 0, view |-> 0]

\* The field f with another text and another place of the cursor in it.
WithText(f, length, cursor) == [length |-> length, cursor |-> cursor, view |-> f.view]

Greater(a, b) == IF a > b THEN a ELSE b
Lesser(a, b) == IF a < b THEN a ELSE b

\* Cursor::col_abs.
ColAbs(f, col) == Greater(0, Lesser(col, f.length))

\* The columns between the brackets, less the one for a caret at the end.
InnerWidth(width) == Greater(0, width - 2 - 1)

\* Mutant: the column is not kept within the text.
UpdateViewUnclamped(f, width) ==
    IF f.view > f.cursor \/ f.view + InnerWidth(width) < f.cursor
    THEN [f EXCEPT !.view = f.cursor - (InnerWidth(width) \div 2)]
    ELSE f

\* Mutant: the caret at the end is forgotten.
UpdateViewLate(f, width) ==
    IF f.view > f.cursor \/ f.view + Greater(0, width - 2) < f.cursor
    THEN [f EXCEPT !.view = ColAbs(f, f.cursor - (InnerWidth(width) \div 2))]
    ELSE f

UpdateView(f, width) ==
    IF f.view > f.cursor \/ f.view + InnerWidth(width) < f.cursor
    THEN [f EXCEPT !.view = ColAbs(f, f.cursor - (InnerWidth(width) \div 2))]
    ELSE f

\* input_control_changed, when the widget has taken input control.
Opened(f, width) == UpdateView(WithText(f, f.length, f.length), width)

\* Every widget clears the text and then gives up input control, upon which
\* cursor and view go to the head.
Closed(f) == EmptyField

\* m_cursor.assign leaves the cursor somewhere in the text.
Assigned(f, n) == {WithText(f, n, c) : c \in 0..n}

\* What a key makes of the text and the cursor, before update_view.
Edits(f) ==
    {WithText(f, f.length, ColAbs(f, f.cursor - 1)),                        \* left
     WithText(f, f.length, ColAbs(f, f.cursor + 1)),                        \* right
     WithText(f, f.length, 0),                                              \* home
     WithText(f, f.length, f.length),                                       \* end
     IF f.cursor < f.length THEN WithText(f, f.length - 1, f.cursor) ELSE f,    \* del
     IF f.cursor > 0 THEN WithText(f, f.length - 1, f.cursor - 1) ELSE f,   \* backspace
     WithText(f, f.length + 1, f.cursor + 1)}                               \* a character

\* The fields input can make of f.
Input(f, width) == {UpdateView(e, width) : e \in Edits(f)}

\* Where render puts the caret, from the left bracket at 0.
CaretPos(f, width) == Lesser(Greater(0, width - 2), 1 + f.cursor - f.view)
=============================================================================
