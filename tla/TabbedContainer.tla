--------------------------- MODULE TabbedContainer ---------------------------
(***************************************************************************)
(* One TabbedContainer and every operation of its interface, in any order  *)
(* (TabbedContainer.cpp).  The views of Onsang use a part of it, and       *)
(* SessionView models that part, together with the focus of the root,      *)
(* which push_back, remove_current and set_current_tab clear and nothing   *)
(* here depends on.                                                        *)
(***************************************************************************)
EXTENDS Tabs

VARIABLE box

vars == <<box>>

TypeOK == BoxOK(box)

Init == box = EmptyBox

Indices == 0..Len(box.tabs) - 1
Outside == Widgets \ Contents(box)

DoInsert(title, w, i) ==
    /\ w \in Outside
    /\ box' = Insert(box, title, w, i)

DoPushBack(title, w) ==
    /\ w \in Outside
    /\ box' = PushBack(box, title, w)

DoRemove(i) ==
    /\ i \in Indices
    /\ box' = RemoveTab(box, i)

RemoveCurrent ==
    /\ box.tabs # <<>>
    /\ box' = RemoveTab(box, box.position)

Clear == box' = ClearTabs(box)

DoSetTitle(i, title) ==
    /\ i \in Indices
    /\ box' = SetTitle(box, i, title)

DoSetTab(i, w) ==
    /\ i \in Indices /\ w \in Outside
    /\ box' = SetTab(box, i, w)

DoSetCurrentTab(i) == box' = SetCurrentTab(box, i)

PrevTab == box.position > 0 /\ DoSetCurrentTab(box.position - 1)

NextTab == DoSetCurrentTab(box.position + 1)

DoMoveTab(from, to, insert) == box' = MoveTab(box, from, to, insert)

MoveLeft(i, insert) == i > 0 /\ DoMoveTab(i, i - 1, insert)

MoveRight(i, insert) == DoMoveTab(i, i + 1, insert)

Next ==
    \/ \E title \in Titles, w \in Widgets :
          DoPushBack(title, w) \/ \E i \in 0..Len(box.tabs) : DoInsert(title, w, i)
    \/ RemoveCurrent \/ PrevTab \/ NextTab \/ Clear
    \/ \E i \in 0..Len(box.tabs) : DoSetCurrentTab(i)
    \/ \E i \in Indices :
          \/ DoRemove(i)
          \/ \E title \in Titles : DoSetTitle(i, title)
          \/ \E w \in Widgets : DoSetTab(i, w)
          \/ \E insert \in BOOLEAN :
                \/ MoveLeft(i, insert) \/ MoveRight(i, insert)
                \/ \E j \in 0..Len(box.tabs) : DoMoveTab(i, j, insert)

Spec == Init /\ [][Next]_vars

-----------------------------------------------------------------------------
(* Properties.                                                             *)

\* Whatever is inserted, removed or moved, and wherever, the widgets that know
\* their index still do (only set_tab leaves one uninformed), and an insertion
\* leaves the tab that is current the current one: the views of Onsang refresh
\* their titles by index.
PlacesFollow ==
    [][/\ Indexed(box) /\ (\A i \in Indices, w \in Outside : ~DoSetTab(i, w)) => Indexed(box')
       /\ \A title \in Titles, w \in Outside, i \in 0..Len(box.tabs) :
            box.tabs # <<>> /\ DoInsert(title, w, i) =>
                WidgetAt(box', box'.position) = WidgetAt(box, box.position)]_vars
=============================================================================
