----------------------------- MODULE CommandLine -----------------------------
(***************************************************************************)
(* Who takes the keys: the grids with the fields of their cells, the       *)
(* command line with its prompt, and the focus of the root, which they     *)
(* hand to one another (CommandStatusLine.cpp, App::ui_event_filter, and   *)
(* set_input_control_impl and focus_changed of the grids).                 *)
(*                                                                         *)
(* A widget with input control handles every key, so what the event filter *)
(* of App does, the prompt and the views, happens while none has it.  The  *)
(* field of the slug is Beard's and not here.                              *)
(***************************************************************************)
EXTENDS Naturals, FiniteSets

CONSTANTS
    Grids,
    Widths,         \* widths a field can have
    MaxLength       \* bound: length of a text

csline == "csline"
none == "none"
gone == "gone"      \* a widget that does not exist any more
Widgets == Grids \cup {csline}

ASSUME CommandLineAssumption ==
    /\ Grids \cap {csline, none, gone} = {}
    /\ Widths \subseteq Nat
    /\ MaxLength \in Nat

F == INSTANCE BareField

VARIABLES
    live,           \* the grids of the views that are open
    focus,          \* focused_widget() of the root
    control,        \* the widgets with input control
    prevFocus,      \* m_prev_focus
    field,          \* m_field of each widget
    width,          \* of the frame of the field in use
    caret,          \* whether the terminal shows its caret
    location        \* the grid whose cursor m_location tells

vars == <<live, focus, control, prevFocus, field, width, caret, location>>

Fields == [length : 0..MaxLength, cursor : 0..MaxLength, view : 0..MaxLength]

TypeOK ==
    /\ live \subseteq Grids
    /\ focus \in Widgets \cup {none, gone}
    /\ control \subseteq Widgets
    /\ prevFocus \in Widgets \cup {none, gone}
    /\ field \in [Widgets -> Fields]
    /\ width \in Widths
    /\ caret \in BOOLEAN
    /\ location \in Grids \cup {none, gone}

Init ==
    /\ live = {}
    /\ focus = none
    /\ control = {}
    /\ prevFocus = none
    /\ field = [w \in Widgets |-> F!EmptyField]
    /\ width \in Widths
    /\ caret = FALSE
    /\ location = none

Idle == control = {}

-----------------------------------------------------------------------------
(* The focus                                                               *)

\* Mutant: a grid that loses the focus leaves its location.
FocusOnlySet(w) ==
    /\ focus' = w
    /\ location' = IF w \in Grids THEN w ELSE location

\* set_focus: the widget that loses the focus hears of it before the one that
\* gets it.  A grid clears the location or sets it (focus_changed).
SetFocus(w) ==
    /\ focus' = w
    /\ location' = CASE w \in Grids -> w
                     [] w \notin Grids /\ focus \in Grids /\ focus # w -> none
                     [] OTHER -> location

\* Beard gives the focus to a grid that is displayed.
Focus(g) ==
    /\ Idle /\ g \in live /\ g # focus
    /\ SetFocus(g)
    /\ UNCHANGED <<live, control, prevFocus, field, width, caret>>

\* A view is added and becomes current, or another becomes current: the focus of
\* the root is cleared.
AddView(g) ==
    /\ Idle /\ g \notin live
    /\ live' = live \cup {g}
    /\ SetFocus(none)
    /\ UNCHANGED <<control, prevFocus, field, width, caret>>

SwitchView ==
    /\ Idle /\ live # {}
    /\ SetFocus(none)
    /\ UNCHANGED <<live, control, prevFocus, field, width, caret>>

\* close_sub_view clears the location when no view is left, and leaves the focus
\* alone, which then refers to a grid that does not exist, as does the location.
CloseView(g) ==
    /\ Idle /\ g \in live /\ focus \notin live \ {g}
    /\ live' = live \ {g}
    /\ focus' = IF focus = g THEN gone ELSE focus
    /\ location' = CASE live' = {} -> none
                     [] live' # {} /\ location = g -> gone
                     [] OTHER -> location
    /\ UNCHANGED <<control, prevFocus, field, width, caret>>

-----------------------------------------------------------------------------
(* Input control                                                           *)

\* A cell's field is opened with the cell's text: assign, then
\* set_input_control(true), which reflows the field into the cell.
OpenCell(g) ==
    /\ Idle /\ focus = g
    /\ \E n \in 0..MaxLength, w \in Widths : \E f \in F!Assigned(field[g], n) :
        /\ width' = w
        /\ field' = [field EXCEPT ![g] = F!Opened(F!UpdateView(f, w), w)]
    /\ control' = control \cup {g}
    /\ caret' = TRUE
    /\ UNCHANGED <<live, focus, prevFocus, location>>

\* Mutant: the caret stays.
CloseCellCaret(g) ==
    /\ g \in control /\ g \in Grids
    /\ field' = [field EXCEPT ![g] = F!Closed(@)]
    /\ control' = control \ {g}
    /\ UNCHANGED <<live, focus, prevFocus, width, caret, location>>

\* The field is accepted or cancelled, or its cell changed: the text is cleared
\* and input control given up, twice if the change came of accepting.
CloseCell(g) ==
    /\ g \in control /\ g \in Grids
    /\ field' = [field EXCEPT ![g] = F!Closed(@)]
    /\ control' = control \ {g}
    /\ caret' = FALSE
    /\ UNCHANGED <<live, focus, prevFocus, width, location>>

\* Mutant: the focus is saved when it is already the command line's.
PromptSavingLate ==
    /\ Idle
    /\ \E w \in Widths :
        /\ width' = w
        /\ field' = [field EXCEPT ![csline] = F!Opened(F!UpdateView(@, w), w)]
    /\ control' = control \cup {csline}
    /\ caret' = TRUE
    /\ SetFocus(csline)
    /\ prevFocus' = csline
    /\ UNCHANGED live

\* prompt_command, when nothing else wants a colon.
PromptCommand ==
    /\ Idle
    /\ \E w \in Widths :
        /\ width' = w
        /\ field' = [field EXCEPT ![csline] = F!Opened(F!UpdateView(@, w), w)]
    /\ control' = control \cup {csline}
    /\ caret' = TRUE
    /\ prevFocus' = focus
    /\ SetFocus(csline)
    /\ UNCHANGED live

\* Enter and esc: m_prev_focus.lock() is null when the widget is gone.
EndPrompt ==
    /\ csline \in control
    /\ field' = [field EXCEPT ![csline] = F!Closed(@)]
    /\ control' = control \ {csline}
    /\ SetFocus(IF prevFocus \in live THEN prevFocus ELSE none)
    /\ prevFocus' = none
    /\ caret' = FALSE
    /\ UNCHANGED <<live, width>>

\* Any other key goes into the field.
InputKey(w) ==
    /\ w \in control
    /\ \E f \in F!Input(field[w], width) :
        /\ f.length <= MaxLength
        /\ field' = [field EXCEPT ![w] = f]
    /\ UNCHANGED <<live, focus, control, prevFocus, width, caret, location>>

\* reflow_impl passes a new geometry to the field only under input control.
Reflow(w) ==
    /\ w \in control
    /\ width' \in Widths
    /\ field' = [field EXCEPT ![w] = F!UpdateView(@, width')]
    /\ UNCHANGED <<live, focus, control, prevFocus, caret, location>>

Next ==
    \/ \E g \in Grids : Focus(g) \/ AddView(g) \/ CloseView(g) \/ OpenCell(g) \/ CloseCell(g)
    \/ SwitchView \/ PromptCommand \/ EndPrompt
    \/ \E w \in Widgets : InputKey(w) \/ Reflow(w)

Spec == Init /\ [][Next]_vars

-----------------------------------------------------------------------------
(* Properties.                                                             *)

\* Keys that a prompt or a field takes are those of the focused widget, of one at
\* most, and the terminal's caret is visible exactly then, although each widget
\* switches the one caret by itself.
OneTakesKeys ==
    /\ control \subseteq {focus}
    /\ caret = (control # {})

\* The command line has the focus exactly while it prompts, and what it will
\* give the focus back to is never itself.
PromptModal ==
    /\ focus = csline <=> csline \in control
    /\ prevFocus # csline
    /\ prevFocus # none => csline \in control

\* The location in the status line is that of the focused grid, and no grid that
\* is still there but not focused is told of.
LocationOfFocus ==
    /\ focus \in Grids => location = focus
    /\ location \in live => location = focus

\* The caret is drawn at the cursor, between the brackets of the field, whatever
\* was typed and erased and however the field was resized; a field with no room
\* between its brackets excepted.
CaretAtCursor ==
    \A w \in control : width >= 3 =>
        /\ F!CaretPos(field[w], width) = 1 + field[w].cursor - field[w].view
        /\ F!CaretPos(field[w], width) \in 1..width - 2

=============================================================================
