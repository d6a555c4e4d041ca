-------------------------- MODULE CommandLineProofs --------------------------
(***************************************************************************)
(* Theorems about CommandLine, for every set of grids, widths of fields    *)
(* and bound on the length of a text.                                      *)
(***************************************************************************)
EXTENDS CommandLine, Integers, TLAPS

-----------------------------------------------------------------------------
(* Fields.                                                                 *)

\* Fields without a bound on their text, the cursor within it.
RawFields == {f \in [length : Nat, cursor : Nat, view : Nat] : f.cursor <= f.length}

\* The cursor is shown, and so is a caret beside it.
Shown(f, w) ==
    /\ f \in RawFields
    /\ f.view <= f.cursor
    /\ f.cursor <= f.view + F!InnerWidth(w)

\* After update_view the cursor is shown, whatever was shown before.
LEMMA UpdateViewShows ==
  ASSUME NEW f \in RawFields, NEW w \in Nat
  PROVE  /\ Shown(F!UpdateView(f, w), w)
         /\ F!UpdateView(f, w).length = f.length
  <1> DEFINE inner == F!InnerWidth(w)
             col == F!ColAbs(f, f.cursor - (inner \div 2))
  <1>1. inner \in Nat /\ inner \div 2 \in Nat /\ inner \div 2 <= inner
    BY DEF F!InnerWidth, F!Greater
  <1>2. /\ f = [length |-> f.length, cursor |-> f.cursor, view |-> f.view]
        /\ f.length \in Nat /\ f.cursor \in Nat /\ f.view \in Nat /\ f.cursor <= f.length
    BY DEF RawFields
  <1>3. CASE f.view > f.cursor \/ f.view + inner < f.cursor
    <2>1. F!UpdateView(f, w) = [length |-> f.length, cursor |-> f.cursor, view |-> col]
      BY <1>2, <1>3 DEF F!UpdateView
    <2> HIDE DEF inner
    <2>2. col \in Nat /\ col <= f.cursor /\ f.cursor <= col + inner
      BY <1>1, <1>2 DEF F!ColAbs, F!Greater, F!Lesser
    <2> HIDE DEF col
    <2> QED BY <1>2, <2>1, <2>2 DEF Shown, RawFields, inner
  <1>4. CASE ~(f.view > f.cursor \/ f.view + inner < f.cursor)
    <2>1. F!UpdateView(f, w) = f
      BY <1>4 DEF F!UpdateView
    <2>2. f.view <= f.cursor /\ f.cursor <= f.view + inner
      <3> HIDE DEF inner
      <3> QED BY <1>1, <1>2, <1>4
    <2> QED BY <2>1, <2>2 DEF Shown
  <1> QED BY <1>3, <1>4

\* A text that holds its cursor makes a field of a field.
LEMMA WithTextRaw ==
  ASSUME NEW f \in RawFields, NEW n \in Nat, NEW c \in Nat, c <= n
  PROVE  F!WithText(f, n, c) \in RawFields /\ F!WithText(f, n, c).length = n
  BY DEF RawFields, F!WithText

\* A key leaves the cursor within the text.
LEMMA EditsRaw ==
  ASSUME NEW f \in RawFields, NEW e \in F!Edits(f)
  PROVE  e \in RawFields
  <1>1. f.length \in Nat /\ f.cursor \in Nat /\ f.cursor <= f.length
    BY DEF RawFields
  <1>2. \A c \in Int : F!ColAbs(f, c) \in Nat /\ F!ColAbs(f, c) <= f.length
    BY <1>1 DEF F!ColAbs, F!Greater, F!Lesser
  <1>3. \A n, c \in Nat : c <= n => F!WithText(f, n, c) \in RawFields
    BY WithTextRaw
  <1>4. CASE \/ e = F!WithText(f, f.length, F!ColAbs(f, f.cursor - 1))
             \/ e = F!WithText(f, f.length, F!ColAbs(f, f.cursor + 1))
    BY <1>1, <1>2, <1>3, <1>4
  <1>5. CASE \/ e = F!WithText(f, f.length, 0)
             \/ e = F!WithText(f, f.length, f.length)
    BY <1>1, <1>3, <1>5
  <1>6. CASE e = IF f.cursor < f.length THEN F!WithText(f, f.length - 1, f.cursor) ELSE f
    BY <1>1, <1>3, <1>6
  <1>7. CASE e = IF f.cursor > 0 THEN F!WithText(f, f.length - 1, f.cursor - 1) ELSE f
    BY <1>1, <1>3, <1>7
  <1>8. CASE e = F!WithText(f, f.length + 1, f.cursor + 1)
    BY <1>1, <1>3, <1>8
  <1> QED BY <1>4, <1>5, <1>6, <1>7, <1>8 DEF F!Edits

\* Taking input control puts the cursor at the end and shows it.
LEMMA OpenedShown ==
  ASSUME NEW f \in RawFields, NEW w \in Nat
  PROVE  Shown(F!Opened(f, w), w) /\ F!Opened(f, w).length = f.length
  <1>1. f.length \in Nat /\ f.length <= f.length
    BY DEF RawFields
  <1>2. /\ F!WithText(f, f.length, f.length) \in RawFields
        /\ F!WithText(f, f.length, f.length).length = f.length
    BY <1>1, WithTextRaw
  <1> QED BY <1>2, UpdateViewShows DEF F!Opened


-----------------------------------------------------------------------------
(* The inductive invariant.                                                *)

\* The root refers to a grid that is there, or to none; nobody tells of a grid but
\* the one in focus.
FocusLive ==
    /\ focus \in Grids => focus \in live /\ location = focus
    /\ location \in Grids => location = focus

\* The field in use shows its cursor; the others are empty.
FieldsShown ==
    \A w \in Widgets :
        /\ w \in control => Shown(field[w], width)
        /\ w \notin control => field[w] = F!EmptyField

IInv == TypeOK /\ OneTakesKeys /\ PromptModal /\ FocusLive /\ FieldsShown

\* Names that are no grids.
LEMMA NamesDistinct ==
  /\ csline \notin Grids /\ none \notin Grids /\ gone \notin Grids
  /\ csline # none /\ csline # gone /\ none # gone
  BY CommandLineAssumption DEF csline, none, gone

\* A field that is shown, on a text within the bound, has its type.
LEMMA ShownType ==
  ASSUME NEW f, NEW w \in Nat, Shown(f, w), f.length <= MaxLength
  PROVE  f \in Fields
  BY CommandLineAssumption DEF Shown, RawFields, Fields

LEMMA EmptyFieldType == F!EmptyField \in Fields /\ F!EmptyField \in RawFields
  BY CommandLineAssumption DEF F!EmptyField, Fields, RawFields

\* A field that is shown or empty is one with its cursor in the text.
LEMMA FieldsRaw ==
  ASSUME IInv, NEW w \in Widgets
  PROVE  field[w] \in RawFields
  BY EmptyFieldType DEF IInv, FieldsShown, Shown

LEMMA InvInit == Init => IInv
  <1> SUFFICES ASSUME Init PROVE IInv
    OBVIOUS
  <1>1. TypeOK
    BY EmptyFieldType DEF Init, TypeOK
  <1>2. OneTakesKeys
    BY DEF Init, OneTakesKeys
  <1>3. PromptModal /\ FocusLive
    BY NamesDistinct DEF Init, PromptModal, FocusLive
  <1>4. FieldsShown
    BY DEF Init, FieldsShown
  <1> QED BY <1>1, <1>2, <1>3, <1>4 DEF IInv

\* Where the focus may go while no widget has input control, or with its widget.
LEMMA SetFocusLive ==
  ASSUME IInv, live' = live, NEW w \in live \cup {csline, none}, SetFocus(w)
  PROVE  /\ focus' = w
         /\ location' \in Grids \cup {none, gone}
         /\ FocusLive'
  <1>1. live \subseteq Grids /\ location \in Grids \cup {none, gone}
    BY DEF IInv, TypeOK
  <1>2. CASE w \in Grids
    BY <1>1, <1>2, NamesDistinct DEF SetFocus, FocusLive
  <1>3. CASE w \notin Grids /\ focus \in Grids
    BY <1>1, <1>3, NamesDistinct DEF SetFocus, FocusLive
  <1>4. CASE w \notin Grids /\ focus \notin Grids
    BY <1>1, <1>4, NamesDistinct DEF SetFocus, FocusLive, IInv
  <1> QED BY <1>2, <1>3, <1>4

\* What moves the focus while no widget has input control.
LEMMA IdleStep ==
  ASSUME IInv, Idle, UNCHANGED <<control, prevFocus, field, width, caret>>,
         live' \subseteq Grids, focus' \in live' \cup {none, gone},
         location' \in Grids \cup {none, gone}, FocusLive'
  PROVE  IInv'
  <1>1. TypeOK'
    BY DEF IInv, TypeOK, Widgets
  <1>2. OneTakesKeys'
    BY DEF IInv, OneTakesKeys, Idle
  <1>3. PromptModal'
    BY NamesDistinct DEF IInv, PromptModal, Idle
  <1>4. FieldsShown'
    BY DEF IInv, FieldsShown
  <1> QED BY <1>1, <1>2, <1>3, <1>4 DEF IInv

\* What changes the field of the widget that has input control.
LEMMA FieldStep ==
  ASSUME IInv, UNCHANGED <<live, focus, control, prevFocus, caret, location>>,
         NEW w \in control, NEW f, width' \in Widths, Shown(f, width'), f.length <= MaxLength,
         field' = [field EXCEPT ![w] = f]
  PROVE  IInv'
  <1>1. width' \in Nat /\ f \in Fields
    BY CommandLineAssumption, ShownType
  <1>2. TypeOK'
    BY <1>1 DEF IInv, TypeOK
  <1>3. OneTakesKeys' /\ PromptModal' /\ FocusLive'
    BY DEF IInv, OneTakesKeys, PromptModal, FocusLive
  <1>4. control = {w}
    BY DEF IInv, OneTakesKeys
  <1>5. FieldsShown'
    BY <1>4 DEF IInv, TypeOK, FieldsShown
  <1> QED BY <1>2, <1>3, <1>5 DEF IInv

\* A widget takes input control: its field is opened.
LEMMA OpenStep ==
  ASSUME IInv, Idle, NEW w \in Widgets, NEW f \in RawFields, width' \in Widths,
         f.length <= MaxLength,
         field' = [field EXCEPT ![w] = F!Opened(F!UpdateView(f, width'), width')],
         control' = control \cup {w}
  PROVE  /\ width' \in Widths /\ control' = {w}
         /\ field' \in [Widgets -> Fields]
         /\ FieldsShown'
  <1> DEFINE g == F!Opened(F!UpdateView(f, width'), width')
  <1>1. width' \in Nat
    BY CommandLineAssumption
  <1>2. F!UpdateView(f, width') \in RawFields /\ F!UpdateView(f, width').length = f.length
    BY <1>1, UpdateViewShows DEF Shown
  <1>3. Shown(g, width') /\ g.length = f.length
    BY <1>1, <1>2, OpenedShown
  <1>4. g \in Fields
    BY <1>1, <1>3, ShownType
  <1> HIDE DEF g
  <1>5. control' = {w}
    BY DEF Idle
  <1>6. field' = [field EXCEPT ![w] = g] /\ field \in [Widgets -> Fields]
    BY DEF g, IInv, TypeOK
  <1>7. \A v \in Widgets : v # w => field'[v] = F!EmptyField
    BY <1>6 DEF IInv, FieldsShown, Idle
  <1> QED BY <1>3, <1>4, <1>5, <1>6, <1>7 DEF FieldsShown

\* A widget gives up input control: its field is emptied.
LEMMA CloseStep ==
  ASSUME IInv, NEW w \in control,
         field' = [field EXCEPT ![w] = F!Closed(@)], control' = control \ {w}
  PROVE  /\ focus = w /\ control' = {}
         /\ field' \in [Widgets -> Fields]
         /\ FieldsShown'
  <1>1. w \in Widgets /\ field \in [Widgets -> Fields]
    BY DEF IInv, TypeOK
  <1>2. field' = [field EXCEPT ![w] = F!EmptyField]
    BY DEF F!Closed
  <1>3. focus = w /\ control' = {}
    BY DEF IInv, OneTakesKeys
  <1>4. \A v \in Widgets : v # w => field[v] = F!EmptyField
    BY <1>3 DEF IInv, FieldsShown, OneTakesKeys
  <1> QED BY <1>1, <1>2, <1>3, <1>4, EmptyFieldType DEF FieldsShown

\* Every step keeps the invariant.
LEMMA InvNext == IInv /\ [Next]_vars => IInv'
  <1> SUFFICES ASSUME IInv, [Next]_vars PROVE IInv'
    OBVIOUS
  <1> USE DEF IInv
  <1>0. live \subseteq Grids
    BY DEF TypeOK
  <1>1. ASSUME NEW g \in Grids, Focus(g) PROVE IInv'
    <2>1. live' = live /\ SetFocus(g) /\ g \in live
      BY <1>1 DEF Focus
    <2>2. focus' = g /\ location' \in Grids \cup {none, gone} /\ FocusLive'
      BY <2>1, SetFocusLive
    <2> QED BY <1>0, <1>1, <2>1, <2>2, IdleStep DEF Focus
  <1>2. ASSUME NEW g \in Grids, AddView(g) PROVE IInv'
    <2>1. focus' = none /\ location' \in Grids \cup {none, gone} /\ FocusLive'
      BY <1>2, NamesDistinct DEF AddView, SetFocus, FocusLive, TypeOK
    <2> QED BY <1>0, <1>2, <2>1, IdleStep DEF AddView
  <1>3. CASE SwitchView
    <2>1. live' = live /\ SetFocus(none)
      BY <1>3 DEF SwitchView
    <2>2. focus' = none /\ location' \in Grids \cup {none, gone} /\ FocusLive'
      BY <2>1, SetFocusLive
    <2> QED BY <1>0, <1>3, <2>1, <2>2, IdleStep DEF SwitchView
  <1>4. ASSUME NEW g \in Grids, CloseView(g) PROVE IInv'
    <2>1. focus # csline
      BY <1>4 DEF CloseView, PromptModal, Idle
    <2>2. focus' \in live' \cup {none, gone}
      BY <1>4, <2>1, NamesDistinct DEF CloseView, TypeOK, FocusLive, Widgets
    <2>3. location' \in Grids \cup {none, gone}
      BY <1>4, NamesDistinct DEF CloseView, TypeOK
    <2>4. FocusLive'
      BY <1>4, <2>2, NamesDistinct DEF CloseView, FocusLive, TypeOK
    <2> QED BY <1>0, <1>4, <2>2, <2>3, <2>4, IdleStep DEF CloseView
  <1>5. ASSUME NEW g \in Grids, OpenCell(g) PROVE IInv'
    <2>1. g \in Widgets /\ field[g] \in RawFields
      BY FieldsRaw DEF Widgets
    <2>2. PICK n \in 0..MaxLength, w \in Widths : \E f \in F!Assigned(field[g], n) :
            /\ width' = w
            /\ field' = [field EXCEPT ![g] = F!Opened(F!UpdateView(f, w), w)]
      BY <1>5 DEF OpenCell
    <2>3. PICK f \in F!Assigned(field[g], n) :
            /\ width' = w
            /\ field' = [field EXCEPT ![g] = F!Opened(F!UpdateView(f, w), w)]
      BY <2>2
    <2>4. f \in RawFields /\ f.length <= MaxLength
      <3>1. PICK c \in 0..n : f = F!WithText(field[g], n, c)
        BY DEF F!Assigned
      <3>2. n \in Nat /\ c \in Nat /\ c <= n /\ n <= MaxLength
        BY CommandLineAssumption
      <3> QED BY <2>1, <3>1, <3>2, WithTextRaw
    <2>5. /\ control' = {g} /\ width' \in Widths
          /\ field' \in [Widgets -> Fields] /\ FieldsShown'
      BY <1>5, <2>1, <2>3, <2>4, OpenStep DEF OpenCell
    <2>6. TypeOK' /\ OneTakesKeys'
      BY <1>5, <2>1, <2>5 DEF OpenCell, TypeOK, OneTakesKeys
    <2>7. PromptModal' /\ FocusLive'
      BY <1>5, <2>5, NamesDistinct DEF OpenCell, PromptModal, FocusLive, Idle
    <2> QED BY <2>5, <2>6, <2>7
  <1>6. ASSUME NEW g \in Grids, CloseCell(g) PROVE IInv'
    <2>1. /\ focus = g /\ control' = {}
          /\ field' \in [Widgets -> Fields] /\ FieldsShown'
      BY <1>6, CloseStep DEF CloseCell
    <2>2. TypeOK' /\ OneTakesKeys'
      BY <1>6, <2>1 DEF CloseCell, TypeOK, OneTakesKeys
    <2>3. PromptModal' /\ FocusLive'
      BY <1>6, <2>1, NamesDistinct DEF CloseCell, PromptModal, FocusLive, OneTakesKeys
    <2> QED BY <2>1, <2>2, <2>3
  <1>7. CASE PromptCommand
    <2>1. csline \in Widgets /\ field[csline] \in RawFields /\ field[csline].length <= MaxLength
      BY FieldsRaw, CommandLineAssumption DEF Widgets, TypeOK, Fields
    <2>2. PICK w \in Widths :
            /\ width' = w
            /\ field' = [field EXCEPT ![csline] = F!Opened(F!UpdateView(@, w), w)]
      BY <1>7 DEF PromptCommand
    <2>3. field' = [field EXCEPT ![csline] =
                        F!Opened(F!UpdateView(field[csline], width'), width')]
      BY <2>1, <2>2 DEF TypeOK
    <2>4. /\ control' = {csline} /\ width' \in Widths
          /\ field' \in [Widgets -> Fields] /\ FieldsShown'
      BY <1>7, <2>1, <2>2, <2>3, OpenStep DEF PromptCommand
    <2>5. focus' = csline /\ location' \in Grids \cup {none, gone} /\ FocusLive'
      BY <1>7, SetFocusLive DEF PromptCommand
    <2>6. prevFocus' = focus /\ focus # csline
      BY <1>7 DEF PromptCommand, PromptModal, Idle
    <2>7. TypeOK' /\ OneTakesKeys'
      BY <1>7, <2>1, <2>4, <2>5, <2>6 DEF PromptCommand, TypeOK, OneTakesKeys
    <2>8. PromptModal'
      BY <2>4, <2>5, <2>6 DEF PromptModal
    <2> QED BY <2>4, <2>5, <2>7, <2>8
  <1>8. CASE EndPrompt
    <2> DEFINE back == IF prevFocus \in live THEN prevFocus ELSE none
    <2>1. /\ control' = {}
          /\ field' \in [Widgets -> Fields] /\ FieldsShown'
      BY <1>8, CloseStep DEF EndPrompt
    <2>2. back \in live \cup {none} /\ SetFocus(back) /\ live' = live
      BY <1>8 DEF EndPrompt
    <2> HIDE DEF back
    <2>3. focus' = back /\ location' \in Grids \cup {none, gone} /\ FocusLive'
      BY <2>2, SetFocusLive
    <2>4. TypeOK' /\ OneTakesKeys'
      BY <1>0, <1>8, <2>1, <2>2, <2>3 DEF EndPrompt, TypeOK, OneTakesKeys, Widgets
    <2>5. PromptModal'
      BY <1>0, <1>8, <2>1, <2>2, <2>3, NamesDistinct DEF EndPrompt, PromptModal
    <2> QED BY <2>1, <2>3, <2>4, <2>5
  <1>9. ASSUME NEW w \in Widgets, InputKey(w) PROVE IInv'
    <2>1. width \in Widths /\ width \in Nat /\ w \in control /\ width' = width
      BY <1>9, CommandLineAssumption DEF TypeOK, InputKey
    <2>2. PICK f \in F!Input(field[w], width) :
            f.length <= MaxLength /\ field' = [field EXCEPT ![w] = f]
      BY <1>9 DEF InputKey
    <2>3. PICK e \in F!Edits(field[w]) : f = F!UpdateView(e, width)
      BY DEF F!Input
    <2>4. Shown(f, width')
      BY <2>1, <2>3, FieldsRaw, EditsRaw, UpdateViewShows
    <2> QED BY <1>9, <2>1, <2>2, <2>4, FieldStep DEF InputKey
  <1>10. ASSUME NEW w \in Widgets, Reflow(w) PROVE IInv'
    <2> DEFINE f == F!UpdateView(field[w], width')
    <2>1. width' \in Widths /\ width' \in Nat /\ w \in control
      BY <1>10, CommandLineAssumption DEF Reflow
    <2>2. field[w] \in RawFields /\ field[w].length <= MaxLength
      BY FieldsRaw, CommandLineAssumption DEF TypeOK, Fields
    <2>3. Shown(f, width') /\ f.length <= MaxLength
      BY <2>1, <2>2, UpdateViewShows
    <2>4. field' = [field EXCEPT ![w] = f]
      BY <1>10 DEF Reflow
    <2> HIDE DEF f
    <2> QED BY <1>10, <2>1, <2>3, <2>4, FieldStep DEF Reflow
  <1>11. CASE UNCHANGED vars
    BY <1>11 DEF vars, TypeOK, OneTakesKeys, PromptModal, FocusLive, FieldsShown
  <1> QED
    BY <1>1, <1>2, <1>3, <1>4, <1>5, <1>6, <1>7, <1>8, <1>9, <1>10, <1>11 DEF Next

\* The invariant holds in every behaviour.
LEMMA Invariance == Spec => []IInv
  BY InvInit, InvNext, PTL DEF Spec

-----------------------------------------------------------------------------
(* Theorems.                                                               *)

\* Every variable has its type: set_input_control_impl, prompt_command and the
\* keys of a field never take a cursor or a view out of its text.
THEOREM TypeCorrect == Spec => []TypeOK
  <1>1. IInv => TypeOK
    BY DEF IInv
  <1> QED BY <1>1, Invariance, PTL

\* One widget takes the keys, the one in focus, and the caret is visible then.
THEOREM KeysGoToOne == Spec => []OneTakesKeys
  <1>1. IInv => OneTakesKeys
    BY DEF IInv
  <1> QED BY <1>1, Invariance, PTL

\* prompt_command never saves the command line itself, and it has the focus
\* exactly while it prompts.
THEOREM PromptIsModal == Spec => []PromptModal
  <1>1. IInv => PromptModal
    BY DEF IInv
  <1> QED BY <1>1, Invariance, PTL

\* The location is never that of a grid that is there and has not the focus.
THEOREM LocationIsOfFocus == Spec => []LocationOfFocus
  <1>1. IInv => LocationOfFocus
    BY DEF IInv, TypeOK, FocusLive, LocationOfFocus
  <1> QED BY <1>1, Invariance, PTL

\* The caret of the field in use is at its cursor for every width and text.
THEOREM CaretIsAtCursor == Spec => []CaretAtCursor
  <1>1. ASSUME IInv, NEW w \in control, width >= 3
        PROVE  LET f == field[w] IN
               /\ F!CaretPos(f, width) = 1 + f.cursor - f.view
               /\ F!CaretPos(f, width) \in 1..width - 2
    <2> DEFINE f == field[w]
    <2>1. width \in Nat /\ Shown(f, width)
      BY <1>1, CommandLineAssumption DEF IInv, TypeOK, FieldsShown
    <2>2. f.cursor \in Nat /\ f.view \in Nat
      BY <2>1 DEF Shown, RawFields
    <2> QED BY <1>1, <2>1, <2>2
          DEF Shown, F!InnerWidth, F!CaretPos, F!Greater, F!Lesser
  <1>2. IInv => CaretAtCursor
    BY <1>1 DEF CaretAtCursor
  <1> QED BY <1>2, Invariance, PTL
=============================================================================
