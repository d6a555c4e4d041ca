--------------------------- MODULE SessionViewProofs ---------------------------
(***************************************************************************)
(* Theorems about SessionView, for any objects and slugs.  They rest on    *)
(* what TabbedContainerProofs shows of the operations of a container, the  *)
(* operators of SessionView being those of its instances.                  *)
(***************************************************************************)
EXTENDS SessionView, TLAPS

ST == INSTANCE TabbedContainerProofs WITH Widgets <- Objects, Titles <- Slugs, box <- views
OT == INSTANCE TabbedContainerProofs WITH Widgets <- PropViews, Titles <- PropViews,
                                          box <- views

-----------------------------------------------------------------------------
(* The operators of the instances.                                         *)

LEMMA SessionTabs ==
    /\ SV!EmptyBox = ST!EmptyBox
    /\ \A b : SV!BoxOK(b) <=> ST!BoxOK(b)
    /\ \A b : SV!Contents(b) = ST!Contents(b)
    /\ \A b : SV!OnlyCurrentVisible(b) <=> ST!OnlyCurrentVisible(b)
    /\ \A b : SV!WidgetsPlaced(b) <=> ST!WidgetsPlaced(b)
    /\ \A b, i : SV!WidgetAt(b, i) = ST!WidgetAt(b, i)
    /\ \A i, j : SV!Least(i, j) = ST!Least(i, j)
    /\ \A b, t, w, i : SV!Insert(b, t, w, i) = ST!Insert(b, t, w, i)
    /\ \A b, i : SV!RemoveTab(b, i) = ST!RemoveTab(b, i)
    /\ \A b, i, t : SV!SetTitle(b, i, t) = ST!SetTitle(b, i, t)
    /\ \A b, i : SV!SetCurrentTab(b, i) = ST!SetCurrentTab(b, i)
  <1>1. SV!EmptyBox = ST!EmptyBox
    BY DEF SV!EmptyBox, ST!EmptyBox
  <1>2. \A b : SV!BoxOK(b) <=> ST!BoxOK(b)
    BY DEF SV!BoxOK, ST!BoxOK, SV!Boxes, ST!Boxes, SV!TabTypes, ST!TabTypes,
           SV!LastIndex, ST!LastIndex
  <1>3. \A b : SV!Contents(b) = ST!Contents(b)
    BY DEF SV!Contents, ST!Contents
  <1>4. \A b : SV!OnlyCurrentVisible(b) <=> ST!OnlyCurrentVisible(b)
    BY DEF SV!OnlyCurrentVisible, ST!OnlyCurrentVisible, SV!WidgetAt, ST!WidgetAt,
           SV!TabAt, ST!TabAt
  <1>5. \A b : SV!WidgetsPlaced(b) <=> ST!WidgetsPlaced(b)
    BY DEF SV!WidgetsPlaced, ST!WidgetsPlaced, SV!Indexed, ST!Indexed, SV!Contents,
           ST!Contents, SV!WidgetAt, ST!WidgetAt, SV!TabAt, ST!TabAt
  <1>6. \A b, i : SV!WidgetAt(b, i) = ST!WidgetAt(b, i)
    BY DEF SV!WidgetAt, ST!WidgetAt, SV!TabAt, ST!TabAt
  <1>7. \A i, j : SV!Least(i, j) = ST!Least(i, j)
    BY DEF SV!Least, ST!Least
  <1>8. \A b : SV!LastIndex(b) = ST!LastIndex(b)
    BY DEF SV!LastIndex, ST!LastIndex
  <1>9. \A b, w : SV!Shown(b, w) = ST!Shown(b, w)
    BY DEF SV!Shown, ST!Shown
  <1>10. \A b, w : SV!Hidden(b, w) = ST!Hidden(b, w)
    BY DEF SV!Hidden, ST!Hidden
  <1>11. \A b, i : SV!Reindexed(b, i) = ST!Reindexed(b, i)
    BY DEF SV!Reindexed, ST!Reindexed, SV!LastIndex, ST!LastIndex, SV!WidgetAt,
           ST!WidgetAt, SV!TabAt, ST!TabAt
  <1>12. \A b, i : SV!Changes(b, i) = ST!Changes(b, i)
    BY DEF SV!Changes, ST!Changes, SV!Least, ST!Least, SV!LastIndex, ST!LastIndex
  <1>13. \A s, i : SV!RemoveAt(s, i) = ST!RemoveAt(s, i)
    BY DEF SV!RemoveAt, ST!RemoveAt
  <1>14. \A q, i, e : SV!InsertAt(q, i, e) = ST!InsertAt(q, i, e)
    BY DEF SV!InsertAt, ST!InsertAt
  <1>15. \A b, t, w, where : SV!Insert(b, t, w, where) = ST!Insert(b, t, w, where)
    <2> SUFFICES ASSUME NEW b, NEW t, NEW w, NEW where
                 PROVE  SV!Insert(b, t, w, where) = ST!Insert(b, t, w, where)
      OBVIOUS
    <2> DEFINE i == ST!Least(where, Len(b.tabs))
               tab == [title |-> t, widget |-> w]
               seen == IF b.tabs = <<>> THEN [ST!Shown(b, w) EXCEPT !.position = 0]
                       ELSE [ST!Hidden(b, w) EXCEPT
                                !.position = IF i <= @ THEN @ + 1 ELSE @]
               with == [seen EXCEPT !.parented = @ \cup {w},
                                    !.tabs = ST!InsertAt(@, i + 1, tab)]
    <2>1. ST!Insert(b, t, w, where) = ST!Reindexed(with, i)
      BY DEF ST!Insert
    <2>2. i = SV!Least(where, Len(b.tabs))
      BY <1>7, Zenon
    <2> HIDE DEF i
    <2>3. seen = IF b.tabs = <<>> THEN [SV!Shown(b, w) EXCEPT !.position = 0]
                 ELSE [SV!Hidden(b, w) EXCEPT
                          !.position = IF i <= @ THEN @ + 1 ELSE @]
      BY <1>9, <1>10, Zenon
    <2> HIDE DEF seen
    <2>4. with = [seen EXCEPT !.parented = @ \cup {w},
                              !.tabs = SV!InsertAt(@, i + 1, tab)]
      BY <1>14, Zenon
    <2> HIDE DEF with
    <2>5. SV!Insert(b, t, w, where) = SV!Reindexed(with, i)
      BY <2>2, <2>3, <2>4, Zenon DEF SV!Insert
    <2> QED BY <2>1, <2>5, <1>11, Zenon
  <1>16. \A b, i : SV!RemoveTab(b, i) = ST!RemoveTab(b, i)
    <2> SUFFICES ASSUME NEW b, NEW i PROVE SV!RemoveTab(b, i) = ST!RemoveTab(b, i)
      OBVIOUS
    <2> DEFINE rest == [b EXCEPT !.parented = @ \ {ST!WidgetAt(b, i)},
                                 !.tabs = ST!RemoveAt(@, i + 1)]
               kept == [rest EXCEPT !.position = ST!Least(@, ST!LastIndex(rest))]
               last == ST!LastIndex(rest)
               c == IF rest.tabs = <<>> THEN kept
                    ELSE ST!Shown(ST!Reindexed(kept, i), ST!WidgetAt(kept, kept.position))
    <2>1. ST!RemoveTab(b, i) = c
      BY DEF ST!RemoveTab
    <2>2. rest = [b EXCEPT !.parented = @ \ {SV!WidgetAt(b, i)},
                           !.tabs = SV!RemoveAt(@, i + 1)]
      BY <1>13, <1>6, Zenon
    <2>3. last = SV!LastIndex(rest)
      BY <1>8, Zenon
    <2> HIDE DEF rest
    <2>4. kept = [rest EXCEPT !.position = SV!Least(@, SV!LastIndex(rest))]
      BY <2>3, <1>7, Zenon
    <2> HIDE DEF kept
    <2>5. c = IF rest.tabs = <<>> THEN kept
              ELSE SV!Shown(SV!Reindexed(kept, i), SV!WidgetAt(kept, kept.position))
      BY <1>11, <1>9, <1>6, Zenon
    <2>6. SV!RemoveTab(b, i) = c
      BY <2>2, <2>4, <2>5, Zenon DEF SV!RemoveTab
    <2> QED BY <2>1, <2>6
  <1>17. \A b, i, t : SV!SetTitle(b, i, t) = ST!SetTitle(b, i, t)
    BY DEF SV!SetTitle, ST!SetTitle
  <1>18. \A b, i : SV!SetCurrentTab(b, i) = ST!SetCurrentTab(b, i)
    BY <1>9, <1>10, <1>6, <1>7, <1>8, <1>12
    DEF SV!SetCurrentTab, ST!SetCurrentTab
  <1> QED BY <1>1, <1>2, <1>3, <1>4, <1>5, <1>6, <1>7, <1>15, <1>16, <1>17, <1>18

LEMMA PropTabs ==
    /\ OV!EmptyBox = OT!EmptyBox
    /\ \A b : OV!BoxOK(b) <=> OT!BoxOK(b)
    /\ \A b : OV!OnlyCurrentVisible(b) <=> OT!OnlyCurrentVisible(b)
    /\ \A b : OV!WidgetsPlaced(b) <=> OT!WidgetsPlaced(b)
    /\ \A b, i : OV!WidgetAt(b, i) = OT!WidgetAt(b, i)
    /\ \A b : OV!LastIndex(b) = OT!LastIndex(b)
    /\ \A b, t, w, i : OV!Insert(b, t, w, i) = OT!Insert(b, t, w, i)
    /\ \A b, i : OV!SetCurrentTab(b, i) = OT!SetCurrentTab(b, i)
  <1>1. OV!EmptyBox = OT!EmptyBox
    BY DEF OV!EmptyBox, OT!EmptyBox
  <1>2. \A b : OV!BoxOK(b) <=> OT!BoxOK(b)
    BY DEF OV!BoxOK, OT!BoxOK, OV!Boxes, OT!Boxes, OV!TabTypes, OT!TabTypes,
           OV!LastIndex, OT!LastIndex
  <1>3. \A b : OV!OnlyCurrentVisible(b) <=> OT!OnlyCurrentVisible(b)
    BY DEF OV!OnlyCurrentVisible, OT!OnlyCurrentVisible, OV!WidgetAt, OT!WidgetAt,
           OV!TabAt, OT!TabAt
  <1>4. \A b : OV!WidgetsPlaced(b) <=> OT!WidgetsPlaced(b)
    BY DEF OV!WidgetsPlaced, OT!WidgetsPlaced, OV!Indexed, OT!Indexed, OV!Contents,
           OT!Contents, OV!WidgetAt, OT!WidgetAt, OV!TabAt, OT!TabAt
  <1>5. \A b, i : OV!WidgetAt(b, i) = OT!WidgetAt(b, i)
    BY DEF OV!WidgetAt, OT!WidgetAt, OV!TabAt, OT!TabAt
  <1>6. \A i, j : OV!Least(i, j) = OT!Least(i, j)
    BY DEF OV!Least, OT!Least
  <1>7. \A b : OV!LastIndex(b) = OT!LastIndex(b)
    BY DEF OV!LastIndex, OT!LastIndex
  <1>8. \A b, w : OV!Shown(b, w) = OT!Shown(b, w)
    BY DEF OV!Shown, OT!Shown
  <1>9. \A b, w : OV!Hidden(b, w) = OT!Hidden(b, w)
    BY DEF OV!Hidden, OT!Hidden
  <1>10. \A b, i : OV!Changes(b, i) = OT!Changes(b, i)
    BY DEF OV!Changes, OT!Changes, OV!Least, OT!Least, OV!LastIndex, OT!LastIndex
  <1>11. \A q, i, e : OV!InsertAt(q, i, e) = OT!InsertAt(q, i, e)
    BY DEF OV!InsertAt, OT!InsertAt
  <1>12. \A b, i : OV!Reindexed(b, i) = OT!Reindexed(b, i)
    BY DEF OV!Reindexed, OT!Reindexed, OV!LastIndex, OT!LastIndex, OV!WidgetAt,
           OT!WidgetAt, OV!TabAt, OT!TabAt
  <1>13. \A b, t, w, where : OV!Insert(b, t, w, where) = OT!Insert(b, t, w, where)
    <2> SUFFICES ASSUME NEW b, NEW t, NEW w, NEW where
                 PROVE  OV!Insert(b, t, w, where) = OT!Insert(b, t, w, where)
      OBVIOUS
    <2> DEFINE i == OT!Least(where, Len(b.tabs))
               tab == [title |-> t, widget |-> w]
               seen == IF b.tabs = <<>> THEN [OT!Shown(b, w) EXCEPT !.position = 0]
                       ELSE [OT!Hidden(b, w) EXCEPT
                                !.position = IF i <= @ THEN @ + 1 ELSE @]
               with == [seen EXCEPT !.parented = @ \cup {w},
                                    !.tabs = OT!InsertAt(@, i + 1, tab)]
    <2>1. OT!Insert(b, t, w, where) = OT!Reindexed(with, i)
      BY DEF OT!Insert
    <2>2. i = OV!Least(where, Len(b.tabs))
      BY <1>6, Zenon
    <2> HIDE DEF i
    <2>3. seen = IF b.tabs = <<>> THEN [OV!Shown(b, w) EXCEPT !.position = 0]
                 ELSE [OV!Hidden(b, w) EXCEPT
                          !.position = IF i <= @ THEN @ + 1 ELSE @]
      BY <1>8, <1>9, Zenon
    <2> HIDE DEF seen
    <2>4. with = [seen EXCEPT !.parented = @ \cup {w},
                              !.tabs = OV!InsertAt(@, i + 1, tab)]
      BY <1>11, Zenon
    <2> HIDE DEF with
    <2>5. OV!Insert(b, t, w, where) = OV!Reindexed(with, i)
      BY <2>2, <2>3, <2>4, Zenon DEF OV!Insert
    <2> QED BY <2>1, <2>5, <1>12, Zenon
  <1>14. \A b, i : OV!SetCurrentTab(b, i) = OT!SetCurrentTab(b, i)
    BY <1>8, <1>9, <1>5, <1>6, <1>7, <1>10
    DEF OV!SetCurrentTab, OT!SetCurrentTab
  <1> QED BY <1>1, <1>2, <1>3, <1>4, <1>5, <1>7, <1>13, <1>14
-----------------------------------------------------------------------------
(* The invariant.                                                          *)

\* The title of each tab is the slug s gives to its object.
Titled(b, s) ==
    \A k \in 0..Len(b.tabs) - 1 : ST!TabAt(b, k).title = s[ST!TabAt(b, k).widget]

\* The focus on the current prop view of the object view at the position of b.
FocusOn(b, p) ==
    [at |-> "view", object |-> ST!WidgetAt(b, b.position),
     prop |-> OT!WidgetAt(p[ST!WidgetAt(b, b.position)],
                          p[ST!WidgetAt(b, b.position)].position)]

\* The object views that are shown have tabs.
Furnishing(p, shown) ==
    /\ DOMAIN p = Objects
    /\ \A o \in Objects : OT!BoxOK(p[o])
    /\ \A o \in shown : OT!Good(p[o]) /\ p[o].tabs # <<>>

\* The focus is there, nowhere, or on what was closed.
FocusOK(b, p, f) ==
    f \in {NoFocus, GoneFocus} \/ (b.tabs # <<>> /\ f = FocusOn(b, p))

IInv ==
    /\ slug \in [Objects -> Slugs]
    /\ ST!BoxOK(views)
    /\ ST!Good(views)
    /\ Titled(views, slug)
    /\ Furnishing(props, ST!Contents(views))
    /\ FocusOK(views, props, focus)

\* A new object view shows one of its prop views.
LEMMA NewViewGood ==
    OT!BoxOK(NewObjectView) /\ OT!Good(NewObjectView) /\ NewObjectView.tabs # <<>>
  <1> DEFINE base == OT!Insert(OT!EmptyBox, "base", "base", 0)
             schema == OT!Insert(base, "schema", "schema", 1)
             data == OT!Insert(schema, "data", "data", 2)
             last == OT!LastIndex(data)
  <1>1. OT!BoxOK(OT!EmptyBox) /\ OT!Good(OT!EmptyBox) /\ OT!Contents(OT!EmptyBox) = {}
    BY OT!EmptyGood
  <1>2. "base" \in PropViews /\ "schema" \in PropViews /\ "data" \in PropViews
    BY DEF PropViews
  <1>3. OT!BoxOK(base) /\ OT!Good(base) /\ OT!Contents(base) = {"base"}
    <2>1. OT!BoxOK(base) /\ OT!InsertResult(OT!EmptyBox, base, "base")
      BY <1>1, <1>2, OT!InsertBox
    <2>2. OT!Good(base)
      BY <1>1, <1>2, OT!InsertGood
    <2> QED BY <1>1, <2>1, <2>2 DEF OT!InsertResult
  <1> HIDE DEF base
  <1>4. OT!BoxOK(schema) /\ OT!Good(schema) /\ OT!Contents(schema) = {"base", "schema"}
    <2>1. OT!BoxOK(schema) /\ OT!InsertResult(base, schema, "schema")
      BY <1>2, <1>3, OT!InsertBox
    <2>2. OT!Good(schema)
      BY <1>2, <1>3, OT!InsertGood
    <2> QED BY <1>3, <2>1, <2>2 DEF OT!InsertResult
  <1> HIDE DEF schema
  <1>5. OT!BoxOK(data) /\ OT!Good(data) /\ "data" \in OT!Contents(data)
    <2>1. OT!BoxOK(data) /\ OT!InsertResult(schema, data, "data")
      BY <1>2, <1>4, OT!InsertBox
    <2>2. OT!Good(data)
      BY <1>2, <1>4, OT!InsertGood
    <2> QED BY <1>4, <2>1, <2>2 DEF OT!InsertResult
  <1>6. NewObjectView = OT!SetCurrentTab(data, last)
    BY PropTabs, Zenon DEF NewObjectView, base, schema
  <1> HIDE DEF data
  <1>7. last \in Nat
    <2>1. data \in OT!Boxes
      BY <1>5 DEF OT!BoxOK
    <2> QED BY <2>1, OT!BoxFacts
  <1> HIDE DEF last
  <1>8. OT!BoxOK(NewObjectView) /\ OT!Good(NewObjectView)
    BY <1>5, <1>6, <1>7, OT!SetCurrentBox, OT!SwitchGood
  <1>9. "data" \in OT!Contents(NewObjectView)
    BY <1>5, <1>6, <1>7, OT!SwitchGood
  <1> QED BY <1>8, <1>9, OT!CurrentInside
\* What holds of the boxes at any time.
LEMMA BoxesUsable ==
  ASSUME IInv
  PROVE  /\ Len(views.tabs) \in Nat /\ views.position \in Nat
         /\ views.tabs # <<>> <=> Len(views.tabs) # 0
         /\ ST!Contents(views) \subseteq Objects
         /\ Viewed = ST!Contents(views)
         /\ Current = ST!WidgetAt(views, views.position)
         /\ views.tabs # <<>> =>
               /\ views.position \in 0..Len(views.tabs) - 1
               /\ Current \in ST!Contents(views) /\ Current \in Objects
               /\ OT!WidgetAt(props[Current], props[Current].position) \in PropViews
  <1>1. views \in ST!Boxes /\ ST!BoxOK(views)
    BY DEF IInv, ST!BoxOK
  <1>2. /\ Len(views.tabs) \in Nat /\ ST!Contents(views) \subseteq Objects
        /\ views.tabs # <<>> <=> Len(views.tabs) # 0
    BY <1>1, ST!BoxFacts
  <1>3. views.position \in Nat
    BY <1>1 DEF ST!Boxes
  <1>4. Viewed = ST!Contents(views) /\ Current = ST!WidgetAt(views, views.position)
    BY SessionTabs, Zenon DEF Viewed, Current
  <1>5. views.tabs # <<>> => /\ views.position \in 0..Len(views.tabs) - 1
                             /\ Current \in ST!Contents(views) /\ Current \in Objects
    BY <1>1, <1>4, ST!CurrentInside
  <1>6. ASSUME views.tabs # <<>>
        PROVE  OT!WidgetAt(props[Current], props[Current].position) \in PropViews
    <2>1. OT!BoxOK(props[Current]) /\ props[Current].tabs # <<>>
      BY <1>5, <1>6 DEF IInv, Furnishing
    <2> QED BY <2>1, OT!CurrentInside
  <1> QED BY <1>2, <1>3, <1>4, <1>5, <1>6

LEMMA InitInvariant == Init => IInv
  <1> SUFFICES ASSUME Init PROVE IInv
    OBVIOUS
  <1>1. views = ST!EmptyBox /\ \A o \in Objects : props[o] = OT!EmptyBox
    BY SessionTabs, PropTabs DEF Init
  <1>2. ST!BoxOK(views) /\ ST!Good(views) /\ ST!Contents(views) = {}
    BY <1>1, ST!EmptyGood
  <1>3. Furnishing(props, {})
    BY <1>1, OT!EmptyGood DEF Furnishing, Init
  <1>4. Titled(views, slug)
    <2>1. Len(views.tabs) = 0
      BY <1>1 DEF ST!EmptyBox
    <2> QED BY <2>1 DEF Titled
  <1> QED BY <1>2, <1>3, <1>4 DEF Init, IInv, FocusOK

LEMMA AddKeeps ==
  ASSUME IInv, NEW o \in Objects, NEW where \in 0..Len(views.tabs), AddObjectView(o, where)
  PROVE  IInv'
  <1> DEFINE with == ST!Insert(views, slug[o], o, where)
             least == ST!Least(where, Len(views.tabs))
             tab == [title |-> slug[o], widget |-> o]
  <1>1. /\ ST!BoxOK(views) /\ ST!Good(views) /\ slug[o] \in Slugs /\ where \in Nat
        /\ o \in Objects \ ST!Contents(views)
    BY BoxesUsable DEF IInv, AddObjectView
  <1>2. /\ ST!BoxOK(with) /\ ST!InsertResult(views, with, o)
        /\ ST!TabsFrom(views, with, {tab})
    BY <1>1, ST!InsertBox
  <1>3. ST!Good(with)
    BY <1>1, ST!InsertGood
  <1>4. views' = ST!SetCurrentTab(with, least)
    BY SessionTabs, Zenon DEF AddObjectView
  <1>5. ST!Contents(with) = ST!Contents(views) \cup {o}
    BY <1>2 DEF ST!InsertResult
  <1>6. Titled(with, slug)
    BY <1>2 DEF IInv, Titled, ST!TabsFrom
  <1>7. least \in Nat
    BY BoxesUsable DEF ST!Least
  <1> HIDE DEF with, least
  <1>8. ST!BoxOK(views') /\ views'.tabs = with.tabs
    BY <1>2, <1>4, <1>7, ST!SetCurrentBox
  <1>9. ST!Good(views') /\ ST!Contents(views') = ST!Contents(views) \cup {o}
    BY <1>2, <1>3, <1>4, <1>5, <1>7, ST!SwitchGood
  <1>10. Titled(views', slug')
    BY <1>6, <1>8 DEF Titled, ST!TabAt, AddObjectView
  <1>11. Furnishing(props', ST!Contents(views) \cup {o})
    BY NewViewGood DEF IInv, Furnishing, AddObjectView
  <1>12. FocusOK(views', props', focus') /\ slug' \in [Objects -> Slugs]
    BY DEF IInv, AddObjectView, FocusOK
  <1> QED BY <1>8, <1>9, <1>10, <1>11, <1>12 DEF IInv

LEMMA SwitchKeeps ==
  ASSUME IInv, NEW i \in Nat, SetSubView(i)
  PROVE  IInv'
  <1>1. views' = ST!SetCurrentTab(views, i)
    BY SessionTabs DEF SetSubView
  <1>2. ST!BoxOK(views') /\ views'.tabs = views.tabs
    BY <1>1, ST!SetCurrentBox DEF IInv
  <1>3. ST!Good(views') /\ ST!Contents(views') = ST!Contents(views)
    BY <1>1, ST!SwitchGood DEF IInv
  <1>4. Titled(views', slug')
    BY <1>2 DEF IInv, Titled, ST!TabAt, SetSubView
  <1>5. FocusOK(views', props', focus')
    BY DEF SetSubView, FocusOK
  <1> QED BY <1>2, <1>3, <1>4, <1>5 DEF IInv, SetSubView

LEMMA PropSwitchKeeps ==
  ASSUME IInv, NEW i \in Nat, SetPropView(i)
  PROVE  IInv'
  <1> DEFINE c == OT!SetCurrentTab(props[Current], i)
  <1>1. Current \in Objects /\ Current \in ST!Contents(views)
    BY BoxesUsable DEF SetPropView
  <1>2. /\ OT!BoxOK(props[Current]) /\ OT!Good(props[Current])
        /\ props[Current].tabs # <<>> /\ DOMAIN props = Objects
    BY <1>1 DEF IInv, Furnishing
  <1>3. OT!BoxOK(c) /\ OT!Good(c) /\ c.tabs # <<>>
    BY <1>2, OT!SetCurrentBox, OT!SwitchGood
  <1>4. c = OV!SetCurrentTab(props[Current], i)
    BY PropTabs
  <1>5. props' = [props EXCEPT ![Current] = c]
    BY <1>4 DEF SetPropView
  <1> HIDE DEF c
  <1>6. Furnishing(props', ST!Contents(views))
    BY <1>3, <1>5 DEF IInv, Furnishing
  <1>7. FocusOK(views', props', focus')
    BY DEF SetPropView, FocusOK
  <1> QED BY <1>6, <1>7 DEF IInv, SetPropView

LEMMA CloseKeeps ==
  ASSUME IInv, CloseSubView
  PROVE  IInv'
  <1> DEFINE i == views.position
  <1>1. views.tabs # <<>> /\ i \in 0..Len(views.tabs) - 1
    BY BoxesUsable DEF CloseSubView
  <1>2. views' = ST!RemoveTab(views, i)
    BY SessionTabs DEF CloseSubView
  <1>3. ST!BoxOK(views') /\ ST!TabsFrom(views, views', {})
    BY <1>1, <1>2, ST!RemoveBox DEF IInv
  <1>4. ST!Good(views') /\ ST!Contents(views') \subseteq ST!Contents(views)
    BY <1>1, <1>2, ST!RemoveGood DEF IInv
  <1>5. Titled(views', slug')
    BY <1>3 DEF IInv, Titled, ST!TabsFrom, CloseSubView
  <1>6. Furnishing(props', ST!Contents(views'))
    BY <1>4 DEF IInv, Furnishing, CloseSubView
  <1>7. focus' \in {NoFocus, GoneFocus}
    <2>1. CASE focus \in {NoFocus, GoneFocus}
      BY <2>1 DEF CloseSubView
    <2>2. CASE focus = FocusOn(views, props)
      <3>1. focus \in FocusIn(Current)
        BY <1>1, <2>2, BoxesUsable DEF FocusOn, FocusIn
      <3> QED BY <3>1 DEF CloseSubView
    <2> QED BY <2>1, <2>2 DEF IInv, FocusOK
  <1>8. slug' \in [Objects -> Slugs]
    BY DEF IInv, CloseSubView
  <1> QED BY <1>3, <1>4, <1>5, <1>6, <1>7, <1>8 DEF IInv, FocusOK

LEMMA FocusKeeps ==
  ASSUME IInv, Focus
  PROVE  IInv'
  <1>1. focus' = FocusOn(views, props)
    BY BoxesUsable, PropTabs DEF Focus, FocusOn
  <1> QED BY <1>1 DEF IInv, FocusOK, Focus, FocusOn

LEMMA SlugKeeps ==
  ASSUME IInv, NEW o \in Objects, NEW s \in Slugs, SetSlug(o, s)
  PROVE  IInv'
  <1>1. /\ slug' \in [Objects -> Slugs] /\ slug'[o] = s
        /\ \A w \in Objects : w # o => slug'[w] = slug[w]
    BY DEF IInv, SetSlug
  <1>2. /\ views \in ST!Boxes /\ ST!BoxOK(views) /\ ST!Good(views) /\ Titled(views, slug)
        /\ ST!Indexed(views)
    BY DEF IInv, ST!BoxOK, ST!Good, ST!WidgetsPlaced
  <1>3. props' = props /\ focus' = focus /\ views' = TitleChanged(o)
    BY DEF SetSlug
  <1>4. CASE o \notin Viewed
    <2>1. views' = views
      BY <1>3, <1>4 DEF TitleChanged
    <2>2. Titled(views, slug')
      <3> SUFFICES ASSUME NEW k \in 0..Len(views.tabs) - 1
                   PROVE  ST!TabAt(views, k).title = slug'[ST!TabAt(views, k).widget]
        BY DEF Titled
      <3>1. ST!WidgetAt(views, k) \in ST!Contents(views)
        BY <1>2, ST!BoxFacts
      <3>2. ST!TabAt(views, k).widget # o /\ ST!TabAt(views, k).widget \in Objects
        BY <1>4, <3>1, BoxesUsable DEF ST!WidgetAt
      <3> QED BY <1>1, <1>2, <3>2 DEF Titled
    <2> QED BY <1>1, <1>3, <2>1, <2>2 DEF IInv
  <1>5. CASE o \in Viewed
    <2>1. PICK i \in 0..Len(views.tabs) - 1 : o = ST!WidgetAt(views, i)
      <3>1. o \in ST!Contents(views)
        BY <1>5, BoxesUsable
      <3> QED BY <1>2, <3>1, ST!BoxFacts
    <2>2. views.index[o] = i
      BY <1>2, <2>1 DEF ST!Indexed
    <2>3. i < Len(views.tabs)
      BY BoxesUsable
    <2>4. views' = ST!SetTitle(views, i, s)
      <3>1. views' = SV!SetTitle(views, i, slug'[SV!WidgetAt(views, i)])
        BY <1>3, <1>5, <2>2, <2>3 DEF TitleChanged
      <3>2. SV!WidgetAt(views, i) = o
        BY <2>1, SessionTabs, Zenon
      <3> QED BY <1>1, <3>1, <3>2, SessionTabs, Zenon
    <2>5. /\ ST!BoxOK(views') /\ Len(views'.tabs) = Len(views.tabs)
          /\ views'.position = views.position
          /\ \A k \in 0..Len(views.tabs) - 1 : ST!TabAt(views', k) =
                IF k = i THEN [title |-> s, widget |-> ST!WidgetAt(views, k)]
                ELSE ST!TabAt(views, k)
      BY <1>2, <2>4, ST!SetTitleBox
    <2>6. ST!Good(views') /\ ST!Contents(views') = ST!Contents(views)
      BY <1>2, <2>4, ST!TitleGood
    <2>7. \A k \in 0..Len(views.tabs) - 1 : ST!WidgetAt(views', k) = ST!WidgetAt(views, k)
      BY <2>5 DEF ST!WidgetAt
    <2>8. Titled(views', slug')
      <3> SUFFICES ASSUME NEW k \in 0..Len(views.tabs) - 1
                   PROVE  ST!TabAt(views', k).title = slug'[ST!TabAt(views', k).widget]
        BY <2>5 DEF Titled
      <3>1. CASE k = i
        BY <1>1, <2>1, <2>5, <3>1
      <3>2. CASE k # i
        <4>1. ST!WidgetAt(views, k) # o
          BY <1>2, <2>2, <3>2 DEF ST!Indexed
        <4>2. ST!WidgetAt(views, k) \in Objects
          BY <1>2, ST!BoxFacts
        <4> QED BY <1>1, <1>2, <2>5, <3>2, <4>1, <4>2 DEF Titled, ST!WidgetAt
      <3> QED BY <3>1, <3>2
    <2>9. FocusOK(views', props', focus')
      <3>1. CASE focus \in {NoFocus, GoneFocus}
        BY <1>3, <3>1 DEF FocusOK
      <3>2. CASE views.tabs # <<>> /\ focus = FocusOn(views, props)
        <4>1. views'.tabs # <<>>
          <5>1. views' \in ST!Boxes
            BY <2>5 DEF ST!BoxOK
          <5> QED BY <2>5, <3>2, <5>1, ST!BoxFacts, BoxesUsable
        <4>2. ST!WidgetAt(views', views'.position) = ST!WidgetAt(views, views.position)
          BY <2>5, <2>7, <3>2, BoxesUsable
        <4>3. FocusOn(views', props') = FocusOn(views, props)
          BY <1>3, <4>2 DEF FocusOn
        <4> QED BY <1>3, <3>2, <4>1, <4>3 DEF FocusOK
      <3> QED BY <3>1, <3>2 DEF IInv, FocusOK
    <2> QED BY <1>1, <1>3, <2>5, <2>6, <2>8, <2>9 DEF IInv
  <1> QED BY <1>4, <1>5

-----------------------------------------------------------------------------
(* The theorems.                                                           *)

LEMMA Invariant == Spec => []IInv
  <1>1. ASSUME IInv, [Next]_vars PROVE IInv'
    <2>1. CASE Next
      <3>1. \A i \in 0..Len(views.tabs) : i \in Nat
        OBVIOUS
      <3> QED BY <1>1, <2>1, <3>1, AddKeeps, SwitchKeeps, PropSwitchKeeps, CloseKeeps,
                 FocusKeeps, SlugKeeps DEF Next
    <2>2. CASE UNCHANGED vars
      BY <1>1, <2>2 DEF IInv, vars
    <2> QED BY <1>1, <2>1, <2>2
  <1> QED BY <1>1, InitInvariant, PTL DEF Spec

\* The tabs of the session view and of every object view are well formed, and
\* the focus is in a prop view, nowhere, or on what is gone.
THEOREM TypeCorrect == Spec => []TypeOK
  <1>1. IInv => TypeOK
    <2> SUFFICES ASSUME IInv PROVE TypeOK
      OBVIOUS
    <2>1. SV!BoxOK(views) /\ \A o \in Objects : OV!BoxOK(props[o])
      BY SessionTabs, PropTabs DEF IInv, Furnishing
    <2>2. focus \in {NoFocus, GoneFocus} \cup UNION {FocusIn(o) : o \in Objects}
      <3>1. CASE focus \in {NoFocus, GoneFocus}
        BY <3>1
      <3>2. CASE views.tabs # <<>> /\ focus = FocusOn(views, props)
        <4>1. focus \in FocusIn(Current) /\ Current \in Objects
          BY <3>2, BoxesUsable DEF FocusOn, FocusIn
        <4> QED BY <4>1
      <3> QED BY <3>1, <3>2 DEF IInv, FocusOK
    <2> QED BY <2>1, <2>2 DEF IInv, TypeOK
  <1> QED BY <1>1, Invariant, PTL

\* However views are added, switched, renamed and closed, at both levels exactly
\* the current tab is visible, and every view has its parent and its index.
THEOREM ViewsStayConsistent == Spec => []ViewsConsistent
  <1>1. IInv => ViewsConsistent
    BY BoxesUsable, SessionTabs, PropTabs
    DEF IInv, ViewsConsistent, Furnishing, ST!Good, OT!Good
  <1> QED BY <1>1, Invariant, PTL

\* The tab of an object view always has the slug of its object as its title.
THEOREM TitlesAreSlugs == Spec => []TitlesFollowSlugs
  <1>1. IInv => TitlesFollowSlugs
    <2> SUFFICES ASSUME IInv, NEW k \in DOMAIN views.tabs
                 PROVE  views.tabs[k].title = slug[views.tabs[k].widget]
      BY DEF TitlesFollowSlugs
    <2>1. views.tabs \in Seq(ST!TabTypes)
      BY DEF IInv, ST!BoxOK, ST!Boxes
    <2>2. k \in 1..Len(views.tabs) /\ Len(views.tabs) \in Nat
      BY <2>1
    <2>3. k - 1 \in 0..Len(views.tabs) - 1 /\ (k - 1) + 1 = k
      BY <2>2
    <2>4. ST!TabAt(views, k - 1) = views.tabs[k]
      BY <2>3 DEF ST!TabAt
    <2> QED BY <2>3, <2>4 DEF IInv, Titled
  <1> QED BY <1>1, Invariant, PTL

\* What is focused is displayed, except that closing a view leaves the focus on
\* what was closed.
THEOREM FocusIsDisplayed == Spec => []FocusDisplayed
  <1>1. IInv => FocusDisplayed
    <2> SUFFICES ASSUME IInv, focus.at = "view" PROVE FocusDisplayed
      BY DEF FocusDisplayed
    <2>1. focus \notin {NoFocus, GoneFocus}
      BY DEF NoFocus, GoneFocus
    <2>2. views.tabs # <<>> /\ focus = FocusOn(views, props)
      BY <2>1 DEF IInv, FocusOK
    <2>3. /\ focus.object = Current /\ Current \in Viewed
          /\ focus.prop = OT!WidgetAt(props[Current], props[Current].position)
      BY <2>2, BoxesUsable DEF FocusOn
    <2> QED BY <2>3, PropTabs DEF FocusDisplayed
  <1> QED BY <1>1, Invariant, PTL
=============================================================================
