----------------------------- MODULE SessionView -----------------------------
(***************************************************************************)
(* The views of one session: a SessionView, whose tabs are ObjectViews,    *)
(* whose tabs are PropViews (SessionView.cpp, ObjectView.cpp, View.cpp,    *)
(* TabbedView.cpp, DataPropView.cpp, and the keys of App::ui_event_filter  *)
(* that act on them), with the commands that change a slug.                *)
(*                                                                         *)
(* An object view is named by its object: add_object_view makes no second  *)
(* view of an object.  Objects are tables here, which have three views.    *)
(***************************************************************************)
EXTENDS Naturals, Sequences

CONSTANTS
    Objects,
    Slugs

PropViews == {"base", "schema", "data"}

SV == INSTANCE Tabs WITH Widgets <- Objects, Titles <- Slugs
OV == INSTANCE Tabs WITH Widgets <- PropViews, Titles <- PropViews

VARIABLES
    slug,           \* the slug of each object
    views,          \* the tabs of the session view
    props,          \* the tabs of each object view
    focus           \* the prop view with the focused widget, if any; it is
                    \* gone when the view the widget is in was closed

vars == <<slug, views, props, focus>>

NoFocus == [at |-> "none"]
GoneFocus == [at |-> "gone"]
FocusIn(o) == [at : {"view"}, object : {o}, prop : PropViews]

TypeOK ==
    /\ slug \in [Objects -> Slugs]
    /\ SV!BoxOK(views)
    /\ \A o \in Objects : OV!BoxOK(props[o])
    /\ focus \in {NoFocus, GoneFocus} \cup UNION {FocusIn(o) : o \in Objects}

Init ==
    /\ slug \in [Objects -> Slugs]
    /\ views = SV!EmptyBox
    /\ props = [o \in Objects |-> OV!EmptyBox]
    /\ focus = NoFocus

Viewed == SV!Contents(views)

\* sub_view()
Current == SV!WidgetAt(views, views.position)

\* make_object_view shows the last of the prop views it adds.
NewObjectView ==
    LET base == OV!Insert(OV!EmptyBox, "base", "base", 0)
        schema == OV!Insert(base, "schema", "schema", 1)
        data == OV!Insert(schema, "data", "data", 2)
    IN OV!SetCurrentTab(data, OV!LastIndex(data))

\* Making the object view changes its tab, which clears the focus of the root.
AddObjectView(o, where) ==
    /\ o \notin Viewed
    /\ props' = [props EXCEPT ![o] = NewObjectView]
    /\ LET with == SV!Insert(views, slug[o], o, where) IN
       views' = SV!SetCurrentTab(with, SV!Least(where, Len(views.tabs)))
    /\ focus' = NoFocus
    /\ UNCHANGED slug

\* Mutant: the focus is kept.
SetSubViewFocused(i) ==
    /\ i < Len(views.tabs) /\ i # views.position
    /\ views' = SV!SetCurrentTab(views, i)
    /\ UNCHANGED <<slug, props, focus>>

\* View::set_sub_view of the session view (esc and a digit).
SetSubView(i) ==
    /\ i < Len(views.tabs) /\ i # views.position
    /\ views' = SV!SetCurrentTab(views, i)
    /\ focus' = NoFocus
    /\ UNCHANGED <<slug, props>>

\* View::set_sub_view of the current object view (esc and a symbol).
SetPropView(i) ==
    /\ views.tabs # <<>>
    /\ i < Len(props[Current].tabs) /\ i # props[Current].position
    /\ props' = [props EXCEPT ![Current] = OV!SetCurrentTab(@, i)]
    /\ focus' = NoFocus
    /\ UNCHANGED <<slug, views>>

\* Mutant: the position keeps pointing past the last view.
CloseSubViewUnclamped ==
    /\ views.position < Len(views.tabs)
    /\ views' = [SV!RemoveTab(views, views.position) EXCEPT !.position = views.position]
    /\ focus' = IF focus \in FocusIn(Current) THEN GoneFocus ELSE focus
    /\ UNCHANGED <<slug, props>>

\* close_sub_view() closes the current object view and leaves the focus alone.
CloseSubView ==
    /\ views.position < Len(views.tabs)
    /\ views' = SV!RemoveTab(views, views.position)
    /\ focus' = IF focus \in FocusIn(Current) THEN GoneFocus ELSE focus
    /\ UNCHANGED <<slug, props>>

\* Beard gives the focus to widgets that are visible.
Focus ==
    /\ views.tabs # <<>>
    /\ LET p == OV!WidgetAt(props[Current], props[Current].position) IN
       focus' = [at |-> "view", object |-> Current, prop |-> p]
    /\ UNCHANGED <<slug, views, props>>

\* Mutant: the title of the current tab is taken anew.
TitleChangedCurrent(o) ==
    IF o \in Viewed
    THEN SV!SetTitle(views, views.position, slug'[Current])
    ELSE views

\* notify_command reaches the object view, which asks its parent to take the
\* title anew from the tab at the index the view believes it has.
TitleChanged(o) ==
    LET i == views.index[o] IN
    IF o \in Viewed /\ i < Len(views.tabs)
    THEN SV!SetTitle(views, i, slug'[SV!WidgetAt(views, i)])
    ELSE views

\* A SetSlug command that acts.  One that fails changes nothing here.
SetSlug(o, s) ==
    /\ s # slug[o]
    /\ slug' = [slug EXCEPT ![o] = s]
    /\ views' = TitleChanged(o)
    /\ UNCHANGED <<props, focus>>

Next ==
    \/ \E o \in Objects, where \in 0..Len(views.tabs) : AddObjectView(o, where)
    \/ \E i \in 0..Len(views.tabs) : SetSubView(i)
    \/ \E i \in 0..3 : SetPropView(i)
    \/ CloseSubView
    \/ Focus
    \/ \E o \in Objects, s \in Slugs : SetSlug(o, s)

Spec == Init /\ [][Next]_vars

-----------------------------------------------------------------------------
(* Properties.                                                             *)

\* At both levels exactly the current tab is visible and every view knows its
\* parent and its index, however views are added, switched and closed.
ViewsConsistent ==
    /\ SV!OnlyCurrentVisible(views) /\ SV!WidgetsPlaced(views)
    /\ \A o \in Viewed : OV!OnlyCurrentVisible(props[o]) /\ OV!WidgetsPlaced(props[o])

\* Each tab of the session view shows the slug of the object whose view it
\* holds, although the title is refreshed by index.
TitlesFollowSlugs ==
    \A k \in DOMAIN views.tabs : views.tabs[k].title = slug[views.tabs[k].widget]

\* The focused widget is in the prop view that is displayed, unless the view it
\* is in was closed.
FocusDisplayed ==
    focus.at = "view" =>
        /\ focus.object \in Viewed /\ focus.object = Current
        /\ focus.prop = OV!WidgetAt(props[Current], props[Current].position)
=============================================================================
