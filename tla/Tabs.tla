--------------------------------- MODULE Tabs ---------------------------------
(***************************************************************************)
(* The operations of TabbedContainer.cpp on the state of one container.    *)
(* A box records the tabs, the position, and what the operations say to    *)
(* the widgets: which are visible, which have the container as parent, and *)
(* the index each was last given.  Positions and indices count from 0, as  *)
(* in the source.  Queued actions (reflow, render) are left out.           *)
(***************************************************************************)
EXTENDS Naturals, Sequences, SequencesExt

CONSTANTS
    Widgets,
    Titles

TabTypes == [title : Titles, widget : Widgets]

Boxes == [tabs : Seq(TabTypes), position : Nat, visible : SUBSET Widgets,
          parented : SUBSET Widgets, index : [Widgets -> Nat]]

EmptyBox == [tabs |-> <<>>, position |-> 0, visible |-> {}, parented |-> {},
             index |-> [w \in Widgets |-> 0]]

Least(i, j) == IF i <= j THEN i ELSE j
LastIndex(b) == IF b.tabs = <<>> THEN 0 ELSE Len(b.tabs) - 1
TabAt(b, i) == b.tabs[i + 1]
WidgetAt(b, i) == TabAt(b, i).widget
Contents(b) == {b.tabs[k].widget : k \in DOMAIN b.tabs}

\* set_index for every tab from position i on.
Reindexed(b, i) ==
    [b EXCEPT !.index = [w \in Widgets |->
        IF \E k \in i..LastIndex(b) : b.tabs # <<>> /\ WidgetAt(b, k) = w
        THEN CHOOSE k \in i..LastIndex(b) : WidgetAt(b, k) = w
        ELSE @[w]]]

\* set_visible
Shown(b, w) == [b EXCEPT !.visible = @ \cup {w}]
Hidden(b, w) == [b EXCEPT !.visible = @ \ {w}]

\* Mutant: only the new tab is given its index.
InsertAlone(b, title, w, where) ==
    LET i == Least(where, Len(b.tabs))
        seen == IF b.tabs = <<>> THEN [Shown(b, w) EXCEPT !.position = 0]
                ELSE [Hidden(b, w) EXCEPT
                         !.position = IF i <= @ THEN @ + 1 ELSE @]
    IN [seen EXCEPT
            !.parented = @ \cup {w},
            !.index[w] = i,
            !.tabs = InsertAt(@, i + 1, [title |-> title, widget |-> w])]

Insert(b, title, w, where) ==
    LET i == Least(where, Len(b.tabs))
        seen == IF b.tabs = <<>> THEN [Shown(b, w) EXCEPT !.position = 0]
                ELSE [Hidden(b, w) EXCEPT
                         !.position = IF i <= @ THEN @ + 1 ELSE @]
    IN Reindexed([seen EXCEPT
            !.parented = @ \cup {w},
            !.tabs = InsertAt(@, i + 1, [title |-> title, widget |-> w])], i)

\* Mutant: the position is not brought back into the container.
RemoveTabUnclamped(b, i) ==
    LET rest == [b EXCEPT
            !.parented = @ \ {WidgetAt(b, i)},
            !.tabs = RemoveAt(@, i + 1)]
    IN IF b.position >= Len(rest.tabs) THEN rest
       ELSE Shown(Reindexed(rest, i), WidgetAt(rest, rest.position))

\* Of a container with a tab i.  Only the tab that becomes current is told so;
\* the one that was current before is not hidden.
RemoveTab(b, i) ==
    LET rest == [b EXCEPT
            !.parented = @ \ {WidgetAt(b, i)},
            !.tabs = RemoveAt(@, i + 1)]
        kept == [rest EXCEPT !.position = Least(@, LastIndex(rest))]
    IN IF rest.tabs = <<>> THEN kept
       ELSE Shown(Reindexed(kept, i), WidgetAt(kept, kept.position))

ClearTabs(b) == [b EXCEPT !.parented = @ \ Contents(b), !.tabs = <<>>, !.position = 0]

\* Of a container with a tab i.
SetTitle(b, i, title) == [b EXCEPT !.tabs[i + 1].title = title]

\* Of a container with a tab i.  Neither widget is told.
SetTab(b, i, w) == [b EXCEPT !.tabs[i + 1].widget = w]

\* Whether set_current_tab changes the tab, and so clears the focus of the root.
Changes(b, i) == b.tabs # <<>> /\ Least(i, LastIndex(b)) # b.position

SetCurrentTab(b, i) ==
    LET j == Least(i, LastIndex(b)) IN
    IF ~Changes(b, i) THEN b
    ELSE [Shown(Hidden(b, WidgetAt(b, b.position)), WidgetAt(b, j))
             EXCEPT !.position = j]

PushBack(b, title, w) ==
    LET c == Insert(b, title, w, Len(b.tabs)) IN SetCurrentTab(c, LastIndex(c))

\* Mutant: the tab at the target is overwritten.
MoveTabOver(b, from0, to0, insert) ==
    LET from == Least(from0, LastIndex(b))
        to == Least(to0, LastIndex(b))
    IN IF from = to THEN b
       ELSE [b EXCEPT !.tabs[to + 1] = b.tabs[from + 1], !.index[WidgetAt(b, from)] = to,
                      !.position = IF @ = from THEN to ELSE @]

\* The position follows the tab that is moved, and no other.
MoveTab(b, from0, to0, insert) ==
    LET from == Least(from0, LastIndex(b))
        to == Least(to0, LastIndex(b))
        placed == [b EXCEPT !.tabs =
            IF insert THEN InsertAt(RemoveAt(@, from + 1), to + 1, @[from + 1])
            ELSE [@ EXCEPT ![from + 1] = b.tabs[to + 1], ![to + 1] = b.tabs[from + 1]]]
        marked == IF insert THEN Reindexed(placed, Least(from, to))
                  ELSE [placed EXCEPT !.index[WidgetAt(b, from)] = to,
                                      !.index[WidgetAt(b, to)] = from]
    IN IF from = to THEN b
       ELSE [marked EXCEPT !.position = IF @ = from THEN to ELSE @]

-----------------------------------------------------------------------------
(* What should be true of a box.                                           *)

BoxOK(b) == b \in Boxes /\ b.position \in 0..LastIndex(b)

\* Of the widgets in the container exactly the current one is visible.
OnlyCurrentVisible(b) ==
    \A i \in 0..Len(b.tabs) - 1 : WidgetAt(b, i) \in b.visible <=> i = b.position

\* Every widget in the container knows its own index.
Indexed(b) == \A i \in 0..Len(b.tabs) - 1 : b.index[WidgetAt(b, i)] = i

\* Every widget in the container has it as its parent and knows its own index.
WidgetsPlaced(b) == b.parented = Contents(b) /\ Indexed(b)
=============================================================================
