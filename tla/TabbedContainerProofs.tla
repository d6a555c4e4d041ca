------------------------ MODULE TabbedContainerProofs ------------------------
(***************************************************************************)
(* What the operations of a TabbedContainer do to its tabs, its position   *)
(* and its widgets, for any number of tabs, widgets and titles; and        *)
(* theorems about TabbedContainer.                                         *)
(***************************************************************************)
EXTENDS TabbedContainer, SequenceTheorems, TLAPS

-----------------------------------------------------------------------------
(* Sequences.                                                              *)

LEMMA Inserted ==
  ASSUME NEW S, NEW s \in Seq(S), NEW i \in 1..Len(s) + 1, NEW e \in S
  PROVE  /\ InsertAt(s, i, e) \in Seq(S)
         /\ Len(InsertAt(s, i, e)) = Len(s) + 1
         /\ \A k \in 1..Len(s) + 1 : InsertAt(s, i, e)[k] =
               IF k < i THEN s[k] ELSE IF k = i THEN e ELSE s[k - 1]
  <1> DEFINE front == SubSeq(s, 1, i - 1)
             back == SubSeq(s, i, Len(s))
  <1>1. /\ front \in Seq(S) /\ Len(front) = i - 1
        /\ \A k \in 1..i - 1 : front[k] = s[k]
    OBVIOUS
  <1>2. /\ back \in Seq(S) /\ Len(back) = Len(s) - i + 1
        /\ \A k \in 1..Len(s) - i + 1 : back[k] = s[i + k - 1]
    OBVIOUS
  <1>3. <<e>> \in Seq(S) /\ Len(<<e>>) = 1 /\ <<e>>[1] = e
    OBVIOUS
  <1> HIDE DEF front, back
  <1> DEFINE first == front \o <<e>>
  <1>4. /\ first \in Seq(S) /\ Len(first) = i
        /\ \A k \in 1..i : first[k] = IF k < i THEN s[k] ELSE e
    BY <1>1, <1>3, ConcatProperties
  <1> HIDE DEF first
  <1>5. /\ first \o back \in Seq(S)
        /\ Len(first \o back) = Len(s) + 1
        /\ \A k \in 1..i : (first \o back)[k] = first[k]
        /\ \A k \in i + 1..Len(s) + 1 : (first \o back)[k] = back[k - i]
    <2>1. Len(first) + Len(back) = Len(s) + 1
      BY <1>2, <1>4
    <2>2. first \o back \in Seq(S) /\ Len(first \o back) = Len(first) + Len(back)
      BY <1>2, <1>4
    <2>3. \A k \in 1..Len(first) : (first \o back)[k] = first[k]
      BY <1>2, <1>4
    <2>4. \A k \in Len(first) + 1..Len(first) + Len(back) :
             (first \o back)[k] = back[k - Len(first)]
      BY <1>2, <1>4
    <2>5. Len(first) = i
      BY <1>4
    <2> QED BY <2>1, <2>2, <2>3, <2>4, <2>5
  <1>6. InsertAt(s, i, e) = first \o back
    BY DEF InsertAt, first, front, back
  <1> QED BY <1>2, <1>4, <1>5, <1>6

LEMMA Removed ==
  ASSUME NEW S, NEW s \in Seq(S), NEW i \in 1..Len(s)
  PROVE  /\ RemoveAt(s, i) \in Seq(S)
         /\ Len(RemoveAt(s, i)) = Len(s) - 1
         /\ \A k \in 1..Len(s) - 1 : RemoveAt(s, i)[k] = IF k < i THEN s[k] ELSE s[k + 1]
  <1> DEFINE front == SubSeq(s, 1, i - 1)
             back == SubSeq(s, i + 1, Len(s))
  <1>1. /\ front \in Seq(S) /\ Len(front) = i - 1
        /\ \A k \in 1..i - 1 : front[k] = s[k]
    OBVIOUS
  <1>2. /\ back \in Seq(S) /\ Len(back) = Len(s) - i
        /\ \A k \in 1..Len(s) - i : back[k] = s[i + k]
    OBVIOUS
  <1> HIDE DEF front, back
  <1>3. RemoveAt(s, i) = front \o back
    BY DEF RemoveAt, front, back
  <1>4. /\ front \o back \in Seq(S)
        /\ Len(front \o back) = Len(s) - 1
        /\ \A k \in 1..i - 1 : (front \o back)[k] = front[k]
        /\ \A k \in i..Len(s) - 1 : (front \o back)[k] = back[k - (i - 1)]
    <2>1. Len(front) + Len(back) = Len(s) - 1
      BY <1>1, <1>2
    <2>2. front \in Seq(S) /\ back \in Seq(S)
      BY <1>1, <1>2
    <2>3. front \o back \in Seq(S) /\ Len(front \o back) = Len(front) + Len(back)
      BY <2>2
    <2>4. \A k \in 1..Len(front) : (front \o back)[k] = front[k]
      BY <2>2
    <2>5. \A k \in Len(front) + 1..Len(front) + Len(back) :
             (front \o back)[k] = back[k - Len(front)]
      BY <2>2
    <2>6. Len(front) = i - 1
      BY <1>1
    <2>7. \A k \in 1..i - 1 : (front \o back)[k] = front[k]
      BY <2>3, <2>6
    <2>8. \A k \in i..Len(s) - 1 : (front \o back)[k] = back[k - (i - 1)]
      <3>1. (i - 1) + 1 = i
        OBVIOUS
      <3> QED BY <2>1, <2>5, <2>6, <3>1
    <2> QED BY <2>1, <2>3, <2>7, <2>8
  <1>5. ASSUME NEW k \in i..Len(s) - 1 PROVE RemoveAt(s, i)[k] = s[k + 1]
    <2>1. k - (i - 1) \in 1..Len(s) - i /\ i + (k - (i - 1)) = k + 1
      OBVIOUS
    <2>2. (front \o back)[k] = back[k - (i - 1)]
      BY <1>4
    <2>3. back[k - (i - 1)] = s[k + 1]
      BY <1>2, <2>1
    <2> QED BY <1>3, <2>2, <2>3
  <1>6. ASSUME NEW k \in 1..i - 1 PROVE RemoveAt(s, i)[k] = s[k]
    BY <1>1, <1>3, <1>4
  <1>7. RemoveAt(s, i) \in Seq(S) /\ Len(RemoveAt(s, i)) = Len(s) - 1
    BY <1>3, <1>4
  <1>8. ASSUME NEW k \in 1..Len(s) - 1
        PROVE  RemoveAt(s, i)[k] = IF k < i THEN s[k] ELSE s[k + 1]
    <2>1. CASE k < i
      <3>1. k \in 1..i - 1
        BY <2>1
      <3> QED BY <1>6, <2>1, <3>1
    <2>2. CASE ~(k < i)
      <3>1. k \in i..Len(s) - 1
        BY <2>2
      <3> QED BY <1>5, <2>2, <3>1
    <2> QED BY <2>1, <2>2
  <1> QED BY <1>7, <1>8

-----------------------------------------------------------------------------
(* Boxes.                                                                  *)

LEMMA BoxFacts ==
  ASSUME NEW b \in Boxes
  PROVE  /\ Len(b.tabs) \in Nat /\ LastIndex(b) \in Nat
         /\ b.tabs # <<>> <=> Len(b.tabs) # 0
         /\ b.tabs # <<>> => LastIndex(b) = Len(b.tabs) - 1
         /\ \A i \in 0..Len(b.tabs) - 1 : TabAt(b, i) \in TabTypes /\ WidgetAt(b, i) \in Widgets
         /\ \A i \in 0..Len(b.tabs) - 1 : WidgetAt(b, i) \in Contents(b)
         /\ Contents(b) \subseteq Widgets
         /\ \A w \in Contents(b) : \E i \in 0..Len(b.tabs) - 1 : w = WidgetAt(b, i)
  <1>1. b.tabs \in Seq(TabTypes)
    BY DEF Boxes
  <1>2. /\ Len(b.tabs) \in Nat /\ LastIndex(b) \in Nat
        /\ b.tabs # <<>> <=> Len(b.tabs) # 0
        /\ b.tabs # <<>> => LastIndex(b) = Len(b.tabs) - 1
    BY <1>1, EmptySeq, LenProperties DEF LastIndex
  <1>3. \A i \in 0..Len(b.tabs) - 1 : TabAt(b, i) \in TabTypes /\ WidgetAt(b, i) \in Widgets
    <2>1. \A i \in 0..Len(b.tabs) - 1 : TabAt(b, i) \in TabTypes
      BY <1>1, <1>2 DEF TabAt
    <2> QED BY <2>1 DEF WidgetAt, TabTypes
  <1>4. DOMAIN b.tabs = 1..Len(b.tabs)
    BY <1>1
  <1>5. \A i \in 0..Len(b.tabs) - 1 : WidgetAt(b, i) \in Contents(b)
    BY <1>2, <1>4 DEF Contents, WidgetAt, TabAt
  <1>6. \A w \in Contents(b) : \E i \in 0..Len(b.tabs) - 1 : w = WidgetAt(b, i)
    <2> SUFFICES ASSUME NEW k \in 1..Len(b.tabs)
                 PROVE  \E i \in 0..Len(b.tabs) - 1 : b.tabs[k].widget = WidgetAt(b, i)
      BY <1>4 DEF Contents
    <2>1. k - 1 \in 0..Len(b.tabs) - 1 /\ (k - 1) + 1 = k
      BY <1>2
    <2>2. b.tabs[k].widget = WidgetAt(b, k - 1)
      BY <2>1 DEF WidgetAt, TabAt
    <2> QED BY <2>1, <2>2
  <1> QED BY <1>2, <1>3, <1>5, <1>6

\* No widget is in two tabs.
Distinct(b) ==
    \A i, k \in 0..Len(b.tabs) - 1 : WidgetAt(b, i) = WidgetAt(b, k) => i = k

LEMMA IndexedDistinct == \A b : Indexed(b) => Distinct(b)
  BY DEF Indexed, Distinct

LEMMA ReindexedBox ==
  ASSUME NEW b \in Boxes, NEW i \in Nat
  PROVE  /\ Reindexed(b, i) \in Boxes
         /\ Reindexed(b, i).tabs = b.tabs
         /\ Reindexed(b, i).position = b.position
         /\ Reindexed(b, i).visible = b.visible
         /\ Reindexed(b, i).parented = b.parented
         /\ Distinct(b) => \A k \in 0..Len(b.tabs) - 1 :
               Reindexed(b, i).index[WidgetAt(b, k)] =
                  IF k < i THEN b.index[WidgetAt(b, k)] ELSE k
  <1> DEFINE P(w, k) == b.tabs # <<>> /\ WidgetAt(b, k) = w
             Q(w, k) == WidgetAt(b, k) = w
             new == [w \in Widgets |->
                        IF \E k \in i..LastIndex(b) : P(w, k)
                        THEN CHOOSE k \in i..LastIndex(b) : Q(w, k)
                        ELSE b.index[w]]
  <1>1. b.index \in [Widgets -> Nat]
    BY DEF Boxes
  <1>2. Reindexed(b, i) = [b EXCEPT !.index = new]
    BY DEF Reindexed, Boxes
  <1>3. \A w \in Widgets : (\E k \in i..LastIndex(b) : P(w, k)) =>
           /\ (CHOOSE k \in i..LastIndex(b) : Q(w, k)) \in i..LastIndex(b)
           /\ Q(w, CHOOSE k \in i..LastIndex(b) : Q(w, k))
    OBVIOUS
  <1>4. new \in [Widgets -> Nat]
    BY <1>1, <1>3, BoxFacts
  <1>5. ASSUME Distinct(b), NEW k \in 0..Len(b.tabs) - 1
        PROVE  new[WidgetAt(b, k)] = IF k < i THEN b.index[WidgetAt(b, k)] ELSE k
    <2>1. WidgetAt(b, k) \in Widgets /\ b.tabs # <<>> /\ LastIndex(b) = Len(b.tabs) - 1
      BY BoxFacts
    <2>2. CASE k < i
      <3>1. ~ \E j \in i..LastIndex(b) : P(WidgetAt(b, k), j)
        BY <1>5, <2>1, <2>2, BoxFacts DEF Distinct
      <3> QED BY <2>1, <2>2, <3>1
    <2>3. CASE ~(k < i)
      <3>1. k \in i..LastIndex(b) /\ P(WidgetAt(b, k), k)
        BY <2>1, <2>3, BoxFacts
      <3>2. (CHOOSE j \in i..LastIndex(b) : Q(WidgetAt(b, k), j)) = k
        BY <1>3, <1>5, <2>1, <3>1, BoxFacts DEF Distinct
      <3> QED BY <2>1, <2>3, <3>1, <3>2
    <2> QED BY <2>2, <2>3
  <1> HIDE DEF new
  <1>6. /\ Reindexed(b, i) \in Boxes
        /\ Reindexed(b, i).index = new
        /\ Reindexed(b, i).tabs = b.tabs
        /\ Reindexed(b, i).position = b.position
        /\ Reindexed(b, i).visible = b.visible
        /\ Reindexed(b, i).parented = b.parented
    BY <1>2, <1>4 DEF Boxes
  <1> QED BY <1>5, <1>6

-----------------------------------------------------------------------------
(* The operations.                                                         *)

LEMMA ShownBox ==
  ASSUME NEW b \in Boxes, NEW w \in Widgets
  PROVE  /\ Shown(b, w) \in Boxes
         /\ Shown(b, w).visible = b.visible \cup {w}
         /\ Hidden(b, w) \in Boxes
         /\ Hidden(b, w).visible = b.visible \ {w}
         /\ \A c \in {Shown(b, w), Hidden(b, w)} :
               /\ c.tabs = b.tabs /\ c.position = b.position
               /\ c.parented = b.parented /\ c.index = b.index
  BY DEF Shown, Hidden, Boxes

LEMMA TabInserted ==
  ASSUME NEW b \in Boxes, NEW tab \in TabTypes, NEW i \in 0..Len(b.tabs)
  PROVE  /\ InsertAt(b.tabs, i + 1, tab) \in Seq(TabTypes)
         /\ Len(InsertAt(b.tabs, i + 1, tab)) = Len(b.tabs) + 1
         /\ \A k \in 0..Len(b.tabs) : InsertAt(b.tabs, i + 1, tab)[k + 1] =
               IF k < i THEN TabAt(b, k) ELSE IF k = i THEN tab ELSE TabAt(b, k - 1)
  <1>1. b.tabs \in Seq(TabTypes) /\ i + 1 \in 1..Len(b.tabs) + 1
    BY BoxFacts DEF Boxes
  <1> DEFINE new == InsertAt(b.tabs, i + 1, tab)
  <1>2. /\ new \in Seq(TabTypes) /\ Len(new) = Len(b.tabs) + 1
        /\ \A k \in 1..Len(b.tabs) + 1 : new[k] =
              IF k < i + 1 THEN b.tabs[k] ELSE IF k = i + 1 THEN tab ELSE b.tabs[k - 1]
    <2>1. ASSUME NEW s \in Seq(TabTypes), NEW j \in 1..Len(s) + 1
          PROVE  /\ InsertAt(s, j, tab) \in Seq(TabTypes)
                 /\ Len(InsertAt(s, j, tab)) = Len(s) + 1
                 /\ \A k \in 1..Len(s) + 1 : InsertAt(s, j, tab)[k] =
                       IF k < j THEN s[k] ELSE IF k = j THEN tab ELSE s[k - 1]
      BY Inserted
    <2> QED BY <1>1, <2>1
  <1> HIDE DEF new
  <1>3. ASSUME NEW k \in 0..Len(b.tabs)
        PROVE  new[k + 1] =
                  IF k < i THEN TabAt(b, k) ELSE IF k = i THEN tab ELSE TabAt(b, k - 1)
    <2>1. k + 1 \in 1..Len(b.tabs) + 1 /\ (k + 1) - 1 = (k - 1) + 1
      BY BoxFacts
    <2> QED BY <1>2, <2>1 DEF TabAt
  <1> QED BY <1>2, <1>3 DEF new

\* The tab that was current in b is in c.
SameCurrent(b, c) ==
    b.tabs # <<>> => WidgetAt(c, c.position) = WidgetAt(b, b.position)

\* The tabs of c are among those of b and the given ones.
TabsFrom(b, c, tabs) ==
    \A k \in 0..Len(c.tabs) - 1 :
        TabAt(c, k) \in tabs \/ \E l \in 0..Len(b.tabs) - 1 : TabAt(c, k) = TabAt(b, l)

\* The widget w is new in c; only the first one of a container is shown.
InsertResult(b, c, w) ==
    /\ Len(c.tabs) = Len(b.tabs) + 1
    /\ c.visible = IF b.tabs = <<>> THEN b.visible \cup {w} ELSE b.visible \ {w}
    /\ c.parented = b.parented \cup {w}
    /\ Contents(c) = Contents(b) \cup {w}

LEMMA InsertBox ==
  ASSUME NEW b, BoxOK(b), NEW title \in Titles, NEW w \in Widgets \ Contents(b),
         NEW where \in Nat
  PROVE  LET c == Insert(b, title, w, where) IN
         /\ BoxOK(c)
         /\ InsertResult(b, c, w)
         /\ SameCurrent(b, c)
         /\ TabsFrom(b, c, {[title |-> title, widget |-> w]})
         /\ Indexed(b) => Indexed(c)
  <1> DEFINE i == Least(where, Len(b.tabs))
             tab == [title |-> title, widget |-> w]
             seen == IF b.tabs = <<>> THEN [Shown(b, w) EXCEPT !.position = 0]
                     ELSE [Hidden(b, w) EXCEPT
                              !.position = IF i <= @ THEN @ + 1 ELSE @]
             mid == [seen EXCEPT !.parented = @ \cup {w}, !.tabs = InsertAt(@, i + 1, tab)]
             c == Insert(b, title, w, where)
             pos == IF b.tabs = <<>> THEN 0
                    ELSE IF i <= b.position THEN b.position + 1 ELSE b.position
             new == InsertAt(b.tabs, i + 1, tab)
  <1>1. b \in Boxes /\ b.position \in Nat /\ Len(b.tabs) \in Nat /\ tab \in TabTypes
    BY BoxFacts DEF BoxOK, Boxes, TabTypes
  <1>2. i \in 0..Len(b.tabs) /\ i \in Nat
    BY <1>1 DEF Least
  <1>c. c = Reindexed(mid, i)
    BY DEF Insert
  <1> HIDE DEF i, tab, c
  <1>3. pos \in Nat
    BY <1>1, <1>2
  <1>4. /\ seen \in Boxes
        /\ seen.tabs = b.tabs /\ seen.parented = b.parented /\ seen.index = b.index
        /\ seen.position = pos
        /\ seen.visible = IF b.tabs = <<>> THEN b.visible \cup {w} ELSE b.visible \ {w}
    <2>1. CASE b.tabs = <<>>
      <3> DEFINE h == Shown(b, w)
      <3>1. /\ h \in Boxes /\ h.tabs = b.tabs /\ h.parented = b.parented
            /\ h.index = b.index /\ h.position = b.position /\ h.visible = b.visible \cup {w}
        BY <1>1, ShownBox
      <3>2. seen = [h EXCEPT !.position = pos]
        BY <2>1 DEF h
      <3> HIDE DEF h, pos, seen
      <3> QED BY <1>3, <2>1, <3>1, <3>2 DEF Boxes
    <2>2. CASE b.tabs # <<>>
      <3> DEFINE h == Hidden(b, w)
      <3>1. /\ h \in Boxes /\ h.tabs = b.tabs /\ h.parented = b.parented
            /\ h.index = b.index /\ h.position = b.position /\ h.visible = b.visible \ {w}
        BY <1>1, ShownBox
      <3> HIDE DEF h
      <3>2. seen = [h EXCEPT !.position = pos]
        BY <2>2, <3>1 DEF h, Boxes
      <3> HIDE DEF pos, seen
      <3> QED BY <1>3, <2>2, <3>1, <3>2 DEF Boxes
    <2> QED BY <2>1, <2>2
  <1> HIDE DEF seen, pos
  <1>5. /\ new \in Seq(TabTypes) /\ Len(new) = Len(b.tabs) + 1
        /\ \A k \in 0..Len(b.tabs) : new[k + 1] =
              IF k < i THEN TabAt(b, k) ELSE IF k = i THEN tab ELSE TabAt(b, k - 1)
    BY <1>1, <1>2, TabInserted
  <1>6. mid = [seen EXCEPT !.parented = b.parented \cup {w}, !.tabs = new]
    BY <1>4 DEF Boxes
  <1> HIDE DEF new, mid
  <1>7. /\ mid \in Boxes /\ mid.tabs = new
        /\ mid.parented = b.parented \cup {w} /\ mid.index = b.index
        /\ mid.position = pos /\ mid.visible = seen.visible
    BY <1>1, <1>4, <1>5, <1>6 DEF Boxes
  <1>8. /\ c \in Boxes /\ c.tabs = new /\ c.position = pos
        /\ c.parented = b.parented \cup {w} /\ c.visible = seen.visible
    BY <1>2, <1>7, <1>c, ReindexedBox
  <1>9. \A k \in 0..Len(b.tabs) : TabAt(c, k) =
           IF k < i THEN TabAt(b, k) ELSE IF k = i THEN tab ELSE TabAt(b, k - 1)
    BY <1>5, <1>8 DEF TabAt
  <1>10. Len(c.tabs) = Len(b.tabs) + 1 /\ LastIndex(c) = Len(b.tabs)
    BY <1>1, <1>5, <1>8, BoxFacts
  <1>11. BoxOK(c)
    BY <1>1, <1>2, <1>8, <1>10, BoxFacts DEF BoxOK, pos
  <1>12. \A k \in 0..Len(b.tabs) : WidgetAt(c, k) =
            IF k < i THEN WidgetAt(b, k) ELSE IF k = i THEN w ELSE WidgetAt(b, k - 1)
    BY <1>9 DEF WidgetAt, tab
  <1>13. Contents(c) = Contents(b) \cup {w}
    <2>1. ASSUME NEW k \in 0..Len(b.tabs) PROVE WidgetAt(c, k) \in Contents(b) \cup {w}
      <3>1. CASE k < i
        <4>1. k \in 0..Len(b.tabs) - 1
          BY <1>1, <1>2, <3>1
        <4> QED BY <1>1, <1>12, <3>1, <4>1, BoxFacts
      <3>2. CASE k > i
        <4>1. k - 1 \in 0..Len(b.tabs) - 1 /\ ~(k < i) /\ k # i
          BY <1>1, <1>2, <3>2
        <4> QED BY <1>1, <1>12, <4>1, BoxFacts
      <3>3. CASE k = i
        BY <1>2, <1>12, <3>3
      <3> QED BY <1>2, <3>1, <3>2, <3>3
    <2>2. Contents(c) \subseteq Contents(b) \cup {w}
      BY <1>8, <1>10, <2>1, BoxFacts
    <2>3. w \in Contents(c)
      BY <1>1, <1>2, <1>8, <1>10, <1>12, BoxFacts
    <2>4. ASSUME NEW k \in 0..Len(b.tabs) - 1 PROVE WidgetAt(b, k) \in Contents(c)
      <3>1. CASE k < i
        <4>1. k \in 0..Len(c.tabs) - 1 /\ WidgetAt(c, k) = WidgetAt(b, k)
          BY <1>1, <1>10, <1>12, <3>1
        <4> QED BY <1>8, <4>1, BoxFacts
      <3>2. CASE ~(k < i)
        <4>1. k + 1 \in 0..Len(c.tabs) - 1 /\ ~(k + 1 < i) /\ k + 1 # i /\ (k + 1) - 1 = k
          BY <1>1, <1>2, <1>10, <3>2
        <4>2. WidgetAt(c, k + 1) = WidgetAt(b, k)
          BY <1>10, <1>12, <4>1
        <4> QED BY <1>8, <4>1, <4>2, BoxFacts
      <3> QED BY <3>1, <3>2
    <2> QED BY <1>1, <2>2, <2>3, <2>4, BoxFacts
  <1>14. ASSUME Indexed(b) PROVE Indexed(c)
    <2>1. \A k \in 0..Len(b.tabs) - 1 : b.index[WidgetAt(b, k)] = k
      BY <1>14 DEF Indexed
    <2>2. \A k \in 0..Len(b.tabs) - 1 : WidgetAt(b, k) # w
      BY <1>1, BoxFacts
    <2>3. mid.tabs = c.tabs /\ mid.index = b.index
      BY <1>7, <1>8
    <2>4. \A k \in 0..Len(b.tabs) : WidgetAt(mid, k) = WidgetAt(c, k)
      BY <2>3 DEF WidgetAt, TabAt
    <2>5. Distinct(mid)
      <3> SUFFICES ASSUME NEW k \in 0..Len(b.tabs), NEW l \in 0..Len(b.tabs), k < l,
                          WidgetAt(c, k) = WidgetAt(c, l)
                   PROVE  FALSE
        BY <1>1, <1>10, <2>3, <2>4 DEF Distinct
      <3>1. CASE l < i
        BY <1>1, <1>2, <1>12, <2>1, <3>1
      <3>2. CASE l = i
        BY <1>1, <1>2, <1>12, <2>2, <3>2
      <3>3. CASE l > i
        <4>1. /\ WidgetAt(c, l) = WidgetAt(b, l - 1) /\ l - 1 \in 0..Len(b.tabs) - 1
          BY <1>1, <1>2, <1>12, <3>3
        <4>2. CASE k < i
          BY <1>1, <1>2, <1>12, <2>1, <3>3, <4>1, <4>2
        <4>3. CASE k = i
          BY <1>12, <2>2, <4>1, <4>3
        <4>4. CASE k > i
          <5>1. WidgetAt(c, k) = WidgetAt(b, k - 1) /\ k - 1 \in 0..Len(b.tabs) - 1
            BY <1>1, <1>2, <1>12, <4>4
          <5> QED BY <2>1, <4>1, <5>1
        <4> QED BY <1>2, <4>2, <4>3, <4>4
      <3> QED BY <1>2, <3>1, <3>2, <3>3
    <2>6. \A k \in 0..Len(b.tabs) :
             c.index[WidgetAt(c, k)] = IF k < i THEN b.index[WidgetAt(c, k)] ELSE k
      <3>1. \A k \in 0..Len(mid.tabs) - 1 : Reindexed(mid, i).index[WidgetAt(mid, k)] =
               IF k < i THEN mid.index[WidgetAt(mid, k)] ELSE k
        BY <1>2, <1>7, <2>5, ReindexedBox
      <3>2. 0..Len(mid.tabs) - 1 = 0..Len(b.tabs)
        BY <1>1, <1>10, <2>3
      <3> QED BY <1>c, <2>3, <2>4, <3>1, <3>2
    <2>7. ASSUME NEW k \in 0..Len(b.tabs) PROVE c.index[WidgetAt(c, k)] = k
      BY <1>1, <1>2, <1>12, <2>1, <2>6
    <2> QED BY <1>1, <1>10, <2>7 DEF Indexed
  <1>15. ASSUME b.tabs # <<>> PROVE WidgetAt(c, c.position) = WidgetAt(b, b.position)
    <2>1. b.position \in 0..Len(b.tabs) - 1 /\ c.position = pos
      BY <1>1, <1>8, <1>15, BoxFacts DEF BoxOK
    <2>2. CASE i <= b.position
      <3>1. /\ b.position + 1 \in 0..Len(b.tabs) /\ ~(b.position + 1 < i)
            /\ b.position + 1 # i /\ (b.position + 1) - 1 = b.position
        BY <1>1, <1>2, <2>1, <2>2
      <3>2. pos = b.position + 1
        BY <1>15, <2>2 DEF pos
      <3> QED BY <1>12, <2>1, <3>1, <3>2
    <2>3. CASE ~(i <= b.position)
      <3>1. b.position \in 0..Len(b.tabs) /\ b.position < i
        BY <1>1, <1>2, <2>1, <2>3
      <3>2. pos = b.position
        BY <1>15, <2>3 DEF pos
      <3> QED BY <1>12, <2>1, <3>1, <3>2
    <2> QED BY <2>2, <2>3
  <1>16. InsertResult(b, c, w) /\ SameCurrent(b, c)
    BY <1>4, <1>8, <1>10, <1>13, <1>15 DEF InsertResult, SameCurrent
  <1>17. TabsFrom(b, c, {tab})
    <2> SUFFICES ASSUME NEW k \in 0..Len(b.tabs), k # i
                 PROVE  \E l \in 0..Len(b.tabs) - 1 : TabAt(c, k) = TabAt(b, l)
      BY <1>1, <1>9, <1>10 DEF TabsFrom
    <2>1. CASE k < i
      <3>1. k \in 0..Len(b.tabs) - 1 /\ TabAt(c, k) = TabAt(b, k)
        BY <1>1, <1>2, <1>9, <2>1
      <3> QED BY <3>1
    <2>2. CASE k > i
      <3>1. k - 1 \in 0..Len(b.tabs) - 1 /\ ~(k < i)
        BY <1>1, <1>2, <2>2
      <3>2. TabAt(c, k) = TabAt(b, k - 1)
        BY <1>9, <3>1
      <3> QED BY <3>1, <3>2
    <2> QED BY <1>1, <1>2, <2>1, <2>2
  <1> QED
    BY <1>11, <1>14, <1>16, <1>17 DEF c, tab

LEMMA TabRemoved ==
  ASSUME NEW b \in Boxes, NEW i \in 0..Len(b.tabs) - 1
  PROVE  /\ RemoveAt(b.tabs, i + 1) \in Seq(TabTypes)
         /\ Len(RemoveAt(b.tabs, i + 1)) = Len(b.tabs) - 1
         /\ \A k \in 0..Len(b.tabs) - 2 : RemoveAt(b.tabs, i + 1)[k + 1] =
               IF k < i THEN TabAt(b, k) ELSE TabAt(b, k + 1)
  <1>1. b.tabs \in Seq(TabTypes) /\ i + 1 \in 1..Len(b.tabs)
    BY BoxFacts DEF Boxes
  <1> DEFINE new == RemoveAt(b.tabs, i + 1)
  <1>2. /\ new \in Seq(TabTypes) /\ Len(new) = Len(b.tabs) - 1
        /\ \A k \in 1..Len(b.tabs) - 1 : new[k] =
              IF k < i + 1 THEN b.tabs[k] ELSE b.tabs[k + 1]
    <2>1. ASSUME NEW s \in Seq(TabTypes), NEW j \in 1..Len(s)
          PROVE  /\ RemoveAt(s, j) \in Seq(TabTypes)
                 /\ Len(RemoveAt(s, j)) = Len(s) - 1
                 /\ \A k \in 1..Len(s) - 1 :
                       RemoveAt(s, j)[k] = IF k < j THEN s[k] ELSE s[k + 1]
      BY Removed
    <2> QED BY <1>1, <2>1
  <1> HIDE DEF new
  <1>3. ASSUME NEW k \in 0..Len(b.tabs) - 2
        PROVE  new[k + 1] = IF k < i THEN TabAt(b, k) ELSE TabAt(b, k + 1)
    <2>1. k + 1 \in 1..Len(b.tabs) - 1
      BY BoxFacts
    <2> QED BY <1>2, <2>1 DEF TabAt
  <1> QED BY <1>2, <1>3 DEF new

LEMMA RemoveBox ==
  ASSUME NEW b, BoxOK(b), NEW i \in 0..Len(b.tabs) - 1
  PROVE  LET c == RemoveTab(b, i) IN
         /\ BoxOK(c)
         /\ Len(c.tabs) = Len(b.tabs) - 1
         /\ \A k \in 0..Len(b.tabs) - 2 : TabAt(c, k) =
               IF k < i THEN TabAt(b, k) ELSE TabAt(b, k + 1)
         /\ c.tabs # <<>> =>
               /\ c.position = Least(b.position, Len(b.tabs) - 2)
               /\ c.visible = b.visible \cup {WidgetAt(c, c.position)}
         /\ c.tabs = <<>> => c.visible = b.visible
         /\ c.parented = b.parented \ {WidgetAt(b, i)}
         /\ Distinct(b) => Contents(c) = Contents(b) \ {WidgetAt(b, i)}
         /\ TabsFrom(b, c, {})
         /\ Indexed(b) => Indexed(c)
  <1> DEFINE rest == [b EXCEPT !.parented = @ \ {WidgetAt(b, i)}, !.tabs = RemoveAt(@, i + 1)]
             kept == [rest EXCEPT !.position = Least(@, LastIndex(rest))]
             c == RemoveTab(b, i)
             new == RemoveAt(b.tabs, i + 1)
             gone == WidgetAt(b, i)
  <1>1. /\ b \in Boxes /\ b.position \in Nat /\ Len(b.tabs) \in Nat
        /\ gone \in Widgets /\ i \in Nat
    BY BoxFacts DEF BoxOK, Boxes
  <1>2. /\ new \in Seq(TabTypes) /\ Len(new) = Len(b.tabs) - 1
        /\ \A k \in 0..Len(b.tabs) - 2 : new[k + 1] =
              IF k < i THEN TabAt(b, k) ELSE TabAt(b, k + 1)
    BY <1>1, TabRemoved
  <1>3. rest = [b EXCEPT !.parented = b.parented \ {gone}, !.tabs = new]
    BY <1>1 DEF Boxes
  <1>c. c = IF rest.tabs = <<>> THEN kept
            ELSE Shown(Reindexed(kept, i), WidgetAt(kept, kept.position))
    BY DEF RemoveTab
  <1> HIDE DEF rest, new, c, gone
  <1>4. /\ rest \in Boxes /\ rest.tabs = new /\ rest.parented = b.parented \ {gone}
        /\ rest.position = b.position /\ rest.visible = b.visible /\ rest.index = b.index
    BY <1>1, <1>2, <1>3 DEF Boxes
  <1> DEFINE pos == Least(b.position, LastIndex(rest))
  <1>5. pos \in Nat /\ pos \in 0..LastIndex(rest)
    BY <1>1, <1>4, BoxFacts DEF Least
  <1>6. kept = [rest EXCEPT !.position = pos]
    BY <1>4 DEF Boxes
  <1> HIDE DEF pos, kept
  <1>7. /\ kept \in Boxes /\ kept.tabs = new /\ kept.parented = b.parented \ {gone}
        /\ kept.position = pos /\ kept.visible = b.visible /\ kept.index = b.index
    BY <1>4, <1>5, <1>6 DEF Boxes
  <1>8. CASE new = <<>>
    <2>1. c = kept
      BY <1>4, <1>8, <1>c
    <2>2. Len(b.tabs) = 1 /\ i = 0
      <3>1. Len(new) = 0
        BY <1>8
      <3>2. Len(b.tabs) - 1 = 0
        BY <1>2, <3>1
      <3>3. Len(b.tabs) = 1
        BY <1>1, <3>2
      <3> QED BY <3>3
    <2>3. BoxOK(c)
      BY <1>4, <1>5, <1>7, <2>1 DEF BoxOK, LastIndex
    <2>4. Len(c.tabs) = 0 /\ c.tabs = <<>>
      BY <1>7, <1>8, <2>1
    <2>5. Indexed(c)
      BY <2>4 DEF Indexed
    <2>6. Contents(c) = {} /\ Contents(b) = {gone}
      <3>1. c \in Boxes /\ Len(c.tabs) = 0
        BY <1>7, <2>1, <2>4
      <3>2. Contents(c) = {}
        BY <3>1, BoxFacts
      <3>3. \A k \in 0..Len(b.tabs) - 1 : WidgetAt(b, k) = gone
        BY <2>2 DEF gone
      <3>4. Contents(b) = {gone}
        BY <1>1, <2>2, <3>3, BoxFacts DEF gone
      <3> QED BY <3>2, <3>4
    <2>7. TabsFrom(b, c, {})
      BY <2>4 DEF TabsFrom
    <2> QED BY <1>7, <2>1, <2>2, <2>3, <2>4, <2>5, <2>6, <2>7 DEF c, gone
  <1>9. CASE new # <<>>
    <2> DEFINE N == Len(b.tabs)
               mid == Reindexed(kept, i)
    <2>1. N \in Nat /\ N >= 2 /\ LastIndex(rest) = N - 2
      BY <1>1, <1>2, <1>4, <1>9, BoxFacts
    <2>2. /\ mid \in Boxes /\ mid.tabs = new /\ mid.position = pos
          /\ mid.parented = b.parented \ {gone} /\ mid.visible = b.visible
      BY <1>1, <1>7, ReindexedBox
    <2>3. pos \in 0..Len(kept.tabs) - 1
      BY <1>2, <1>5, <1>7, <2>1
    <2>4. WidgetAt(kept, pos) \in Widgets
      BY <1>7, <2>3, BoxFacts
    <2>5. c = Shown(mid, WidgetAt(kept, pos))
      BY <1>4, <1>7, <1>9, <1>c
    <2>6. /\ c \in Boxes /\ c.tabs = new /\ c.position = pos
          /\ c.parented = b.parented \ {gone}
          /\ c.visible = b.visible \cup {WidgetAt(kept, pos)}
          /\ c.index = mid.index
      BY <2>2, <2>4, <2>5, ShownBox
    <2>7. Len(c.tabs) = N - 1 /\ LastIndex(c) = N - 2 /\ c.tabs # <<>>
      BY <1>2, <1>9, <2>1, <2>6, BoxFacts
    <2>8. BoxOK(c)
      BY <1>5, <2>1, <2>6, <2>7 DEF BoxOK
    <2>9. \A k \in 0..N - 2 : TabAt(c, k) = IF k < i THEN TabAt(b, k) ELSE TabAt(b, k + 1)
      BY <1>2, <2>6 DEF TabAt
    <2>10. \A k \in 0..N - 2 : WidgetAt(c, k) = WidgetAt(kept, k) /\
              WidgetAt(c, k) = IF k < i THEN WidgetAt(b, k) ELSE WidgetAt(b, k + 1)
      BY <1>7, <2>6, <2>9 DEF WidgetAt, TabAt
    <2>11. ASSUME Distinct(b) PROVE Contents(c) = Contents(b) \ {gone}
      <3>1. \A k \in 0..N - 1 : \A l \in 0..N - 1 : WidgetAt(b, k) = WidgetAt(b, l) => k = l
        BY <2>11 DEF Distinct
      <3>2. ASSUME NEW k \in 0..N - 2 PROVE WidgetAt(c, k) \in Contents(b) \ {gone}
        <4>1. CASE k < i
          <5>1. k \in 0..N - 1 /\ k # i /\ WidgetAt(c, k) = WidgetAt(b, k)
            BY <2>1, <2>10, <4>1
          <5> QED BY <1>1, <3>1, <5>1, BoxFacts DEF gone
        <4>2. CASE ~(k < i)
          <5>1. k + 1 \in 0..N - 1 /\ k + 1 # i /\ WidgetAt(c, k) = WidgetAt(b, k + 1)
            BY <2>1, <2>10, <4>2
          <5> QED BY <1>1, <3>1, <5>1, BoxFacts DEF gone
        <4> QED BY <4>1, <4>2
      <3>3. Contents(c) \subseteq Contents(b) \ {gone}
        BY <2>1, <2>6, <2>7, <3>2, BoxFacts
      <3>4. ASSUME NEW k \in 0..N - 1, k # i PROVE WidgetAt(b, k) \in Contents(c)
        <4>1. CASE k < i
          <5>1. k \in 0..Len(c.tabs) - 1 /\ WidgetAt(c, k) = WidgetAt(b, k)
            BY <2>1, <2>7, <2>10, <4>1
          <5> QED BY <2>6, <5>1, BoxFacts
        <4>2. CASE k > i
          <5>1. k - 1 \in 0..Len(c.tabs) - 1 /\ ~(k - 1 < i) /\ (k - 1) + 1 = k
            BY <2>1, <2>7, <4>2
          <5>2. WidgetAt(c, k - 1) = WidgetAt(b, k)
            BY <2>1, <2>7, <2>10, <5>1
          <5> QED BY <2>6, <5>1, <5>2, BoxFacts
        <4> QED BY <2>1, <3>4, <4>1, <4>2
      <3> QED BY <1>1, <3>3, <3>4, BoxFacts DEF gone
    <2>12. ASSUME Indexed(b) PROVE Indexed(c)
      <3>1. \A k \in 0..N - 1 : b.index[WidgetAt(b, k)] = k
        BY <2>12 DEF Indexed
      <3>2. 0..Len(kept.tabs) - 1 = 0..N - 2
        BY <1>2, <1>7, <2>1
      <3>3. Distinct(kept)
        <4> SUFFICES ASSUME NEW k \in 0..N - 2, NEW l \in 0..N - 2,
                            WidgetAt(kept, k) = WidgetAt(kept, l)
                     PROVE  k = l
          BY <3>2 DEF Distinct
        <4> DEFINE was(n) == IF n < i THEN n ELSE n + 1
        <4>1. \A n \in 0..N - 2 : was(n) \in 0..N - 1
          BY <2>1
        <4>2. \A n \in 0..N - 2 : WidgetAt(kept, n) = WidgetAt(b, was(n))
          BY <2>10
        <4>3. was(k) = was(l) => k = l
          BY <1>1, <2>1
        <4> HIDE DEF was
        <4> QED BY <3>1, <4>1, <4>2, <4>3
      <3>4. \A k \in 0..N - 2 : mid.index[WidgetAt(kept, k)] =
               IF k < i THEN kept.index[WidgetAt(kept, k)] ELSE k
        <4>1. \A k \in 0..Len(kept.tabs) - 1 : mid.index[WidgetAt(kept, k)] =
                 IF k < i THEN kept.index[WidgetAt(kept, k)] ELSE k
          BY <1>1, <1>7, <3>3, ReindexedBox
        <4> QED BY <3>2, <4>1
      <3> HIDE DEF mid
      <3>5. ASSUME NEW k \in 0..N - 2 PROVE c.index[WidgetAt(c, k)] = k
        BY <1>7, <2>1, <2>6, <2>10, <3>1, <3>4
      <3>6. 0..Len(c.tabs) - 1 = 0..N - 2
        BY <2>1, <2>7
      <3> QED BY <3>5, <3>6 DEF Indexed
    <2>13. WidgetAt(c, pos) = WidgetAt(kept, pos)
      BY <1>5, <2>1, <2>10
    <2>14. TabsFrom(b, c, {})
      <3> SUFFICES ASSUME NEW k \in 0..N - 2
                   PROVE  \E l \in 0..N - 1 : TabAt(c, k) = TabAt(b, l)
        BY <2>1, <2>7 DEF TabsFrom
      <3>1. k \in 0..N - 1 /\ k + 1 \in 0..N - 1
        BY <2>1
      <3> QED BY <2>9, <3>1
    <2> QED
      BY <2>1, <2>6, <2>7, <2>8, <2>9, <2>11, <2>12, <2>13, <2>14 DEF c, gone, pos
  <1> QED BY <1>8, <1>9

LEMMA SetCurrentBox ==
  ASSUME NEW b, BoxOK(b), NEW i \in Nat
  PROVE  LET c == SetCurrentTab(b, i)
             j == Least(i, LastIndex(b))
         IN
         /\ BoxOK(c)
         /\ c.tabs = b.tabs /\ c.parented = b.parented /\ c.index = b.index
         /\ b.tabs = <<>> => c = b
         /\ b.tabs # <<>> =>
               /\ c.position = j
               /\ c.visible = IF j = b.position THEN b.visible
                              ELSE (b.visible \ {WidgetAt(b, b.position)}) \cup {WidgetAt(b, j)}
  <1> DEFINE c == SetCurrentTab(b, i)
             j == Least(i, LastIndex(b))
  <1>1. b \in Boxes /\ b.position \in Nat /\ b.position \in 0..LastIndex(b)
    BY DEF BoxOK, Boxes
  <1>2. j \in Nat /\ j \in 0..LastIndex(b)
    BY <1>1, BoxFacts DEF Least
  <1>3. CASE ~Changes(b, i)
    BY <1>1, <1>3 DEF SetCurrentTab, Changes
  <1>4. CASE Changes(b, i)
    <2> DEFINE h == Hidden(b, WidgetAt(b, b.position))
               s == Shown(h, WidgetAt(b, j))
    <2>1. b.tabs # <<>> /\ j # b.position
      BY <1>4 DEF Changes
    <2>2. /\ b.position \in 0..Len(b.tabs) - 1 /\ j \in 0..Len(b.tabs) - 1
      BY <1>1, <1>2, <2>1, BoxFacts
    <2>3. WidgetAt(b, b.position) \in Widgets /\ WidgetAt(b, j) \in Widgets
      BY <1>1, <2>2, BoxFacts
    <2>4. c = [s EXCEPT !.position = j]
      BY <1>4 DEF SetCurrentTab
    <2>5. /\ h \in Boxes /\ h.tabs = b.tabs /\ h.parented = b.parented /\ h.index = b.index
          /\ h.visible = b.visible \ {WidgetAt(b, b.position)}
      BY <1>1, <2>3, ShownBox
    <2> HIDE DEF h
    <2>6. /\ s \in Boxes /\ s.tabs = b.tabs /\ s.parented = b.parented /\ s.index = b.index
          /\ s.visible = h.visible \cup {WidgetAt(b, j)}
      BY <2>3, <2>5, ShownBox
    <2> HIDE DEF s, j, c
    <2>7. /\ c \in Boxes /\ c.tabs = b.tabs /\ c.parented = b.parented /\ c.index = b.index
          /\ c.visible = s.visible /\ c.position = j
      BY <1>2, <2>4, <2>6 DEF Boxes
    <2>8. BoxOK(c)
      BY <1>2, <2>7 DEF BoxOK, LastIndex
    <2> QED BY <2>1, <2>5, <2>6, <2>7, <2>8 DEF c, j
  <1> QED BY <1>3, <1>4

LEMMA ClearBox ==
  ASSUME NEW b, BoxOK(b)
  PROVE  BoxOK(ClearTabs(b)) /\ Indexed(ClearTabs(b))
  <1> DEFINE c == ClearTabs(b)
  <1>1. b \in Boxes /\ <<>> \in Seq(TabTypes)
    BY DEF BoxOK
  <1>2. c \in Boxes /\ c.tabs = <<>> /\ c.position = 0
    BY <1>1 DEF Boxes, ClearTabs
  <1>3. LastIndex(c) = 0 /\ Len(c.tabs) = 0
    BY <1>2 DEF LastIndex
  <1> QED BY <1>2, <1>3 DEF BoxOK, Indexed

LEMMA SetTitleBox ==
  ASSUME NEW b, BoxOK(b), NEW i \in 0..Len(b.tabs) - 1, NEW title \in Titles
  PROVE  LET c == SetTitle(b, i, title) IN
         /\ BoxOK(c)
         /\ Len(c.tabs) = Len(b.tabs)
         /\ c.position = b.position /\ c.visible = b.visible
         /\ c.parented = b.parented /\ c.index = b.index
         /\ \A k \in 0..Len(b.tabs) - 1 : TabAt(c, k) =
               IF k = i THEN [title |-> title, widget |-> WidgetAt(b, k)] ELSE TabAt(b, k)
  <1> DEFINE c == SetTitle(b, i, title)
             tab == [title |-> title, widget |-> WidgetAt(b, i)]
             new == [b.tabs EXCEPT ![i + 1] = tab]
  <1>1. /\ b \in Boxes /\ b.tabs \in Seq(TabTypes) /\ i + 1 \in 1..Len(b.tabs)
        /\ b.tabs[i + 1] \in TabTypes /\ tab \in TabTypes /\ Len(b.tabs) \in Nat
    <2>1. b \in Boxes /\ b.tabs \in Seq(TabTypes) /\ Len(b.tabs) \in Nat
      BY DEF BoxOK, Boxes
    <2>2. TabAt(b, i) \in TabTypes /\ WidgetAt(b, i) \in Widgets
      BY <2>1, BoxFacts
    <2>3. tab \in TabTypes
      BY <2>2 DEF TabTypes
    <2> QED BY <2>1, <2>2, <2>3 DEF TabAt
  <1>2. [b.tabs[i + 1] EXCEPT !.title = title] = tab
    BY <1>1 DEF TabTypes, WidgetAt, TabAt
  <1>3. c = [b EXCEPT !.tabs = new]
    BY <1>1, <1>2 DEF SetTitle, Boxes
  <1> HIDE DEF c, tab
  <1>4. new \in Seq(TabTypes) /\ Len(new) = Len(b.tabs)
        /\ \A k \in 1..Len(b.tabs) : new[k] = IF k = i + 1 THEN tab ELSE b.tabs[k]
    BY <1>1
  <1> HIDE DEF new
  <1>5. /\ c \in Boxes /\ c.tabs = new /\ c.position = b.position /\ c.visible = b.visible
        /\ c.parented = b.parented /\ c.index = b.index
    BY <1>1, <1>3, <1>4 DEF Boxes
  <1>6. LastIndex(c) = LastIndex(b)
    BY <1>1, <1>4, <1>5, BoxFacts DEF LastIndex
  <1>7. ASSUME NEW k \in 0..Len(b.tabs) - 1
        PROVE  TabAt(c, k) = IF k = i THEN tab ELSE TabAt(b, k)
    BY <1>1, <1>4, <1>5 DEF TabAt
  <1> QED BY <1>4, <1>5, <1>6, <1>7 DEF BoxOK, c, tab

LEMMA SetTabBox ==
  ASSUME NEW b, BoxOK(b), NEW i \in 0..Len(b.tabs) - 1, NEW w \in Widgets
  PROVE  BoxOK(SetTab(b, i, w))
  <1> DEFINE c == SetTab(b, i, w)
             tab == [title |-> TabAt(b, i).title, widget |-> w]
             new == [b.tabs EXCEPT ![i + 1] = tab]
  <1>1. /\ b \in Boxes /\ b.tabs \in Seq(TabTypes) /\ i + 1 \in 1..Len(b.tabs)
        /\ b.tabs[i + 1] \in TabTypes /\ tab \in TabTypes /\ Len(b.tabs) \in Nat
    <2>1. b \in Boxes /\ b.tabs \in Seq(TabTypes) /\ Len(b.tabs) \in Nat
      BY DEF BoxOK, Boxes
    <2>2. TabAt(b, i) \in TabTypes /\ WidgetAt(b, i) \in Widgets
      BY <2>1, BoxFacts
    <2>3. tab \in TabTypes
      BY <2>2 DEF TabTypes
    <2> QED BY <2>1, <2>2, <2>3 DEF TabAt
  <1>2. [b.tabs[i + 1] EXCEPT !.widget = w] = tab
    BY <1>1 DEF TabTypes, TabAt
  <1>3. c = [b EXCEPT !.tabs = new]
    BY <1>1, <1>2 DEF SetTab, Boxes
  <1> HIDE DEF c, tab
  <1>4. new \in Seq(TabTypes) /\ Len(new) = Len(b.tabs)
    BY <1>1
  <1> HIDE DEF new
  <1>5. /\ c \in Boxes /\ c.tabs = new /\ c.position = b.position
    BY <1>1, <1>3, <1>4 DEF Boxes
  <1>6. LastIndex(c) = LastIndex(b)
    BY <1>1, <1>4, <1>5, BoxFacts DEF LastIndex
  <1> QED BY <1>5, <1>6 DEF BoxOK, c

LEMMA TabsInserted ==
  \A s \in Seq(TabTypes) : \A j \in 1..Len(s) + 1 : \A e \in TabTypes :
     /\ InsertAt(s, j, e) \in Seq(TabTypes)
     /\ Len(InsertAt(s, j, e)) = Len(s) + 1
     /\ \A k \in 1..Len(s) + 1 : InsertAt(s, j, e)[k] =
           IF k < j THEN s[k] ELSE IF k = j THEN e ELSE s[k - 1]
  BY Inserted

\* The place in b of the tab that is at k once the one at from was moved to to.
Origin(from, to, k) ==
    IF k < to THEN (IF k < from THEN k ELSE k + 1)
    ELSE IF k = to THEN from
    ELSE IF k - 1 < from THEN k - 1 ELSE k

LEMMA MovedTabs ==
  ASSUME NEW b \in Boxes, NEW from \in 0..Len(b.tabs) - 1, NEW to \in 0..Len(b.tabs) - 1
  PROVE  LET new == InsertAt(RemoveAt(b.tabs, from + 1), to + 1, b.tabs[from + 1]) IN
         /\ new \in Seq(TabTypes) /\ Len(new) = Len(b.tabs)
         /\ \A k \in 0..Len(b.tabs) - 1 : new[k + 1] = TabAt(b, Origin(from, to, k))
  <1> DEFINE N == Len(b.tabs)
             others == RemoveAt(b.tabs, from + 1)
             tab == b.tabs[from + 1]
             r == [b EXCEPT !.tabs = others]
             new == InsertAt(others, to + 1, tab)
  <1>1. N \in Nat /\ TabAt(b, from) \in TabTypes
    BY BoxFacts
  <1>2. /\ others \in Seq(TabTypes) /\ Len(others) = N - 1
        /\ \A k \in 0..N - 2 : others[k + 1] = IF k < from THEN TabAt(b, k) ELSE TabAt(b, k + 1)
    BY TabRemoved
  <1>3. tab \in TabTypes /\ tab = TabAt(b, from)
    BY <1>1 DEF TabAt
  <1> HIDE DEF others, tab
  <1>4. r \in Boxes /\ r.tabs = others
    BY <1>2 DEF Boxes
  <1> HIDE DEF r
  <1>5. to \in 0..Len(r.tabs)
    BY <1>1, <1>2, <1>4
  <1>6. /\ new \in Seq(TabTypes) /\ Len(new) = N
        /\ \A k \in 0..N - 1 : new[k + 1] =
              IF k < to THEN TabAt(r, k) ELSE IF k = to THEN tab ELSE TabAt(r, k - 1)
    <2> DEFINE t == to + 1
    <2>2. t \in 1..Len(others) + 1 /\ Len(others) + 1 = N
      BY <1>1, <1>2
    <2>5. others \in Seq(TabTypes) /\ tab \in TabTypes /\ new = InsertAt(others, t, tab)
      BY <1>2, <1>3
    <2> HIDE DEF new, t
    <2>6. /\ InsertAt(others, t, tab) \in Seq(TabTypes)
          /\ Len(InsertAt(others, t, tab)) = Len(others) + 1
          /\ \A k \in 1..Len(others) + 1 : InsertAt(others, t, tab)[k] =
                IF k < t THEN others[k] ELSE IF k = t THEN tab ELSE others[k - 1]
      <3>1. others \in Seq(TabTypes)
        BY <2>5
      <3>2. tab \in TabTypes
        BY <2>5
      <3>3. t \in 1..Len(others) + 1
        BY <2>2
      <3> QED BY <3>1, <3>2, <3>3, TabsInserted
    <2>3. /\ new \in Seq(TabTypes) /\ Len(new) = N
          /\ \A k \in 1..N : new[k] =
                IF k < to + 1 THEN others[k] ELSE IF k = to + 1 THEN tab ELSE others[k - 1]
      BY <2>2, <2>5, <2>6 DEF t
    <2>4. ASSUME NEW k \in 0..N - 1
          PROVE  new[k + 1] =
                    IF k < to THEN TabAt(r, k) ELSE IF k = to THEN tab ELSE TabAt(r, k - 1)
      <3>1. k + 1 \in 1..N /\ (k + 1) - 1 = (k - 1) + 1
        BY <1>1
      <3> QED BY <1>4, <2>3, <3>1 DEF TabAt
    <2> QED BY <2>3, <2>4
  <1> HIDE DEF new
  <1>7. \A k \in 0..N - 2 : TabAt(r, k) = IF k < from THEN TabAt(b, k) ELSE TabAt(b, k + 1)
    BY <1>2, <1>4 DEF TabAt
  <1>8. ASSUME NEW k \in 0..N - 1 PROVE new[k + 1] = TabAt(b, Origin(from, to, k))
    <2>1. CASE k < to
      <3>1. k \in 0..N - 2
        BY <1>1, <2>1
      <3> QED BY <1>6, <1>7, <2>1, <3>1 DEF Origin
    <2>2. CASE k = to
      BY <1>1, <1>3, <1>6, <2>2 DEF Origin
    <2>3. CASE k > to
      <3>1. k - 1 \in 0..N - 2 /\ ~(k < to) /\ k # to /\ (k - 1) + 1 = k
        BY <1>1, <2>3
      <3>2. new[k + 1] = TabAt(r, k - 1)
        BY <1>6, <3>1
      <3>3. TabAt(r, k - 1) = IF k - 1 < from THEN TabAt(b, k - 1) ELSE TabAt(b, k)
        BY <1>7, <3>1
      <3> QED BY <3>1, <3>2, <3>3 DEF Origin
    <2> QED BY <1>1, <2>1, <2>2, <2>3
  <1> QED BY <1>6, <1>8 DEF new, others, tab

LEMMA WithPosition ==
  ASSUME NEW b \in Boxes, NEW pos \in Nat
  PROVE  LET c == [b EXCEPT !.position = pos] IN
         /\ c \in Boxes /\ c.position = pos /\ c.tabs = b.tabs /\ c.index = b.index
  BY DEF Boxes

LEMMA MoveBox ==
  ASSUME NEW b, BoxOK(b), NEW from0 \in Nat, NEW to0 \in Nat, NEW insert \in BOOLEAN
  PROVE  LET c == MoveTab(b, from0, to0, insert) IN
         BoxOK(c) /\ (Indexed(b) => Indexed(c))
  <1> DEFINE from == Least(from0, LastIndex(b))
             to == Least(to0, LastIndex(b))
             N == Len(b.tabs)
             c == MoveTab(b, from0, to0, insert)
  <1>1. b \in Boxes /\ b.position \in Nat /\ b.position \in 0..LastIndex(b) /\ N \in Nat
    BY BoxFacts DEF BoxOK, Boxes
  <1>2. from \in 0..LastIndex(b) /\ to \in 0..LastIndex(b)
    BY <1>1, BoxFacts DEF Least
  <1>3. CASE from = to
    BY <1>3 DEF MoveTab
  <1>4. ASSUME from # to, c \in Boxes, Len(c.tabs) = N,
               c.position = IF b.position = from THEN to ELSE b.position,
               Indexed(b) => \A k \in 0..N - 1 : c.index[c.tabs[k + 1].widget] = k
        PROVE  BoxOK(c) /\ (Indexed(b) => Indexed(c))
    <2> HIDE DEF from, to, c
    <2>1. c.position \in 0..LastIndex(b)
      BY <1>1, <1>2, <1>4
    <2>2. LastIndex(c) = LastIndex(b)
      BY <1>1, <1>4, BoxFacts DEF LastIndex
    <2>3. Indexed(b) => Indexed(c)
      BY <1>4 DEF Indexed, WidgetAt, TabAt
    <2> QED BY <1>4, <2>1, <2>2, <2>3 DEF BoxOK
  <1>5. CASE from # to /\ insert
    <2> DEFINE new == InsertAt(RemoveAt(b.tabs, from + 1), to + 1, b.tabs[from + 1])
               placed == [b EXCEPT !.tabs = new]
               m == Least(from, to)
               marked == Reindexed(placed, m)
    <2>1. c = [marked EXCEPT !.position = IF @ = from THEN to ELSE @]
      BY <1>1, <1>5 DEF MoveTab, Boxes
    <2> HIDE DEF from, to, c
    <2>2. from \in 0..N - 1 /\ to \in 0..N - 1 /\ N \in Nat
      BY <1>1, <1>2, <1>5, BoxFacts DEF LastIndex
    <2>3. /\ new \in Seq(TabTypes) /\ Len(new) = N
          /\ \A k \in 0..N - 1 : new[k + 1] = TabAt(b, Origin(from, to, k))
      BY <1>1, <2>2, MovedTabs
    <2> HIDE DEF new
    <2>4. /\ placed \in Boxes /\ placed.tabs = new /\ placed.position = b.position
          /\ placed.visible = b.visible /\ placed.parented = b.parented
          /\ placed.index = b.index
      BY <1>1, <2>3 DEF Boxes
    <2> HIDE DEF placed
    <2>5. m \in Nat /\ m <= from /\ m <= to
      BY <2>2 DEF Least
    <2> HIDE DEF m
    <2>6. /\ marked \in Boxes /\ marked.tabs = new /\ marked.position = b.position
          /\ marked.visible = b.visible /\ marked.parented = b.parented
      BY <2>4, <2>5, ReindexedBox
    <2>7. ASSUME Indexed(b) PROVE \A k \in 0..N - 1 : marked.index[new[k + 1].widget] = k
      <3>1. \A k \in 0..N - 1 : b.index[WidgetAt(b, k)] = k
        BY <2>7 DEF Indexed
      <3>2. \A k \in 0..N - 1 : Origin(from, to, k) \in 0..N - 1
        BY <2>2 DEF Origin
      <3>3. \A k \in 0..N - 1 : WidgetAt(placed, k) = WidgetAt(b, Origin(from, to, k))
        BY <2>3, <2>4 DEF WidgetAt, TabAt
      <3>4. \A k, l \in 0..N - 1 : Origin(from, to, k) = Origin(from, to, l) => k = l
        BY <2>2 DEF Origin
      <3>5. \A k \in 0..N - 1 : k < m => Origin(from, to, k) = k
        BY <2>2, <2>5 DEF Origin
      <3>6. Distinct(placed)
        <4> SUFFICES ASSUME NEW k \in 0..N - 1, NEW l \in 0..N - 1,
                            WidgetAt(placed, k) = WidgetAt(placed, l)
                     PROVE  k = l
          BY <2>3, <2>4 DEF Distinct
        <4> DEFINE x == Origin(from, to, k)
                   y == Origin(from, to, l)
        <4>1. x \in 0..N - 1 /\ y \in 0..N - 1 /\ (x = y => k = l)
          BY <3>2, <3>4
        <4>2. WidgetAt(b, x) = WidgetAt(b, y)
          BY <3>3
        <4> HIDE DEF x, y
        <4> QED BY <3>1, <4>1, <4>2
      <3>7. \A k \in 0..Len(placed.tabs) - 1 : marked.index[WidgetAt(placed, k)] =
               IF k < m THEN placed.index[WidgetAt(placed, k)] ELSE k
        BY <2>4, <2>5, <3>6, ReindexedBox
      <3> HIDE DEF marked
      <3>8. ASSUME NEW k \in 0..N - 1 PROVE marked.index[WidgetAt(placed, k)] = k
        BY <2>3, <2>4, <3>1, <3>3, <3>5, <3>7
      <3> QED BY <2>4, <3>8 DEF WidgetAt, TabAt
    <2> HIDE DEF marked
    <2> DEFINE pos == IF b.position = from THEN to ELSE b.position
    <2>8. pos \in Nat
      BY <1>1, <2>2
    <2>9. c = [marked EXCEPT !.position = pos]
      BY <2>1, <2>6 DEF Boxes
    <2> HIDE DEF pos
    <2>10. /\ c \in Boxes /\ c.tabs = new /\ c.index = marked.index /\ c.position = pos
      BY <2>3, <2>6, <2>8, <2>9, WithPosition DEF Boxes
    <2>11. Indexed(b) => \A k \in 0..N - 1 : c.index[c.tabs[k + 1].widget] = k
      BY <2>7, <2>10
    <2>12. Len(c.tabs) = N /\ c.position = IF b.position = from THEN to ELSE b.position
      BY <2>3, <2>10 DEF pos
    <2>13. BoxOK(c) /\ (Indexed(b) => Indexed(c))
      BY <1>4, <1>5, <2>10, <2>11, <2>12
    <2> QED BY <2>13 DEF c
  <1>6. CASE from # to /\ ~insert
    <2> DEFINE new == [b.tabs EXCEPT ![from + 1] = b.tabs[to + 1], ![to + 1] = b.tabs[from + 1]]
               index == [b.index EXCEPT ![WidgetAt(b, from)] = to, ![WidgetAt(b, to)] = from]
               pos == IF b.position = from THEN to ELSE b.position
    <2>1. c = [b EXCEPT !.tabs = new, !.index = index, !.position = pos]
      BY <1>1, <1>6 DEF MoveTab, Boxes
    <2> HIDE DEF from, to, c
    <2>2. from \in 0..N - 1 /\ to \in 0..N - 1 /\ N \in Nat
      BY <1>1, <1>2, <1>6, BoxFacts DEF LastIndex
    <2>3. /\ b.tabs \in Seq(TabTypes) /\ b.index \in [Widgets -> Nat]
          /\ WidgetAt(b, from) \in Widgets /\ WidgetAt(b, to) \in Widgets
          /\ TabAt(b, from) \in TabTypes /\ TabAt(b, to) \in TabTypes
      BY <1>1, <2>2, BoxFacts DEF Boxes
    <2>4. /\ new \in Seq(TabTypes) /\ Len(new) = N
          /\ \A k \in 0..N - 1 : new[k + 1] =
                IF k = to THEN TabAt(b, from) ELSE IF k = from THEN TabAt(b, to) ELSE TabAt(b, k)
      <3>1. b.tabs[from + 1] \in TabTypes /\ b.tabs[to + 1] \in TabTypes
        BY <2>3 DEF TabAt
      <3>2. new \in Seq(TabTypes) /\ Len(new) = N
        BY <2>2, <2>3, <3>1
      <3>3. \A j \in 1..N : new[j] = IF j = to + 1 THEN b.tabs[from + 1]
                                   ELSE IF j = from + 1 THEN b.tabs[to + 1] ELSE b.tabs[j]
        BY <2>2, <2>3
      <3> HIDE DEF new
      <3>4. ASSUME NEW k \in 0..N - 1
            PROVE  new[k + 1] = IF k = to THEN TabAt(b, from)
                                ELSE IF k = from THEN TabAt(b, to) ELSE TabAt(b, k)
        <4>1. k + 1 \in 1..N /\ (k + 1 = to + 1 <=> k = to) /\ (k + 1 = from + 1 <=> k = from)
          BY <2>2
        <4> QED BY <3>3, <4>1 DEF TabAt
      <3> QED BY <3>2, <3>4
    <2>5. index \in [Widgets -> Nat]
      BY <2>2, <2>3
    <2>6. ASSUME Indexed(b) PROVE \A k \in 0..N - 1 : index[new[k + 1].widget] = k
      <3>1. \A k \in 0..N - 1 : b.index[WidgetAt(b, k)] = k /\ WidgetAt(b, k) \in Widgets
        BY <1>1, <2>6, BoxFacts DEF Indexed
      <3> HIDE DEF new
      <3>2. ASSUME NEW k \in 0..N - 1 PROVE new[k + 1].widget =
               IF k = to THEN WidgetAt(b, from) ELSE IF k = from THEN WidgetAt(b, to)
               ELSE WidgetAt(b, k)
        BY <2>4 DEF WidgetAt
      <3>3. \A x \in Widgets : index[x] =
               IF x = WidgetAt(b, to) THEN from ELSE IF x = WidgetAt(b, from) THEN to
               ELSE b.index[x]
        BY <2>3
      <3> HIDE DEF index
      <3>4. ASSUME NEW k \in 0..N - 1 PROVE index[new[k + 1].widget] = k
        <4>1. CASE k = to
          BY <1>6, <2>2, <3>1, <3>2, <3>3, <4>1
        <4>2. CASE k = from
          BY <1>6, <2>2, <3>1, <3>2, <3>3, <4>2
        <4>3. CASE k # to /\ k # from
          BY <2>2, <3>1, <3>2, <3>3, <4>3
        <4> QED BY <4>1, <4>2, <4>3
      <3> QED BY <3>4
    <2>8. pos \in Nat
      BY <1>1, <2>2
    <2> HIDE DEF new, index, pos
    <2>10. c \in Boxes /\ c.tabs = new /\ c.index = index /\ c.position = pos
      BY <1>1, <2>1, <2>4, <2>5, <2>8 DEF Boxes
    <2>11. Indexed(b) => \A k \in 0..N - 1 : c.index[c.tabs[k + 1].widget] = k
      BY <2>6, <2>10
    <2>12. Len(c.tabs) = N /\ c.position = IF b.position = from THEN to ELSE b.position
      BY <2>4, <2>10 DEF pos
    <2>13. BoxOK(c) /\ (Indexed(b) => Indexed(c))
      BY <1>4, <1>6, <2>10, <2>11, <2>12
    <2> QED BY <2>13 DEF c
  <1> QED BY <1>3, <1>5, <1>6

LEMMA PushBackBox ==
  ASSUME NEW b, BoxOK(b), NEW title \in Titles, NEW w \in Widgets \ Contents(b)
  PROVE  LET c == PushBack(b, title, w) IN
         BoxOK(c) /\ (Indexed(b) => Indexed(c))
  <1> DEFINE last == Len(b.tabs)
             c == Insert(b, title, w, last)
             d == SetCurrentTab(c, LastIndex(c))
  <1>1. last \in Nat
    BY BoxFacts DEF BoxOK
  <1> HIDE DEF last
  <1>2. BoxOK(c) /\ (Indexed(b) => Indexed(c))
    BY <1>1, InsertBox
  <1> HIDE DEF c
  <1>3. LastIndex(c) \in Nat
    BY <1>2, BoxFacts DEF BoxOK
  <1>4. BoxOK(d) /\ d.tabs = c.tabs /\ d.index = c.index
    BY <1>2, <1>3, SetCurrentBox
  <1>5. PushBack(b, title, w) = d
    BY DEF PushBack, c, last
  <1> HIDE DEF d
  <1>6. Indexed(c) => Indexed(d)
    BY <1>4 DEF Indexed, WidgetAt, TabAt
  <1> QED BY <1>2, <1>4, <1>5, <1>6

-----------------------------------------------------------------------------
(* What views rely on.                                                     *)

Good(b) == OnlyCurrentVisible(b) /\ WidgetsPlaced(b)

CurrentOf(b) == IF b.tabs = <<>> THEN {} ELSE {WidgetAt(b, b.position)}

LEMMA CurrentInside ==
  ASSUME NEW b, BoxOK(b)
  PROVE  /\ b.tabs = <<>> => Contents(b) = {}
         /\ b.tabs # <<>> => /\ b.position \in 0..Len(b.tabs) - 1
                             /\ WidgetAt(b, b.position) \in Contents(b)
                             /\ WidgetAt(b, b.position) \in Widgets
         /\ CurrentOf(b) \subseteq Contents(b)
  <1>1. b \in Boxes /\ b.position \in Nat
    BY DEF BoxOK, Boxes
  <1>2. CASE b.tabs = <<>>
    <2>1. Len(b.tabs) = 0
      BY <1>2
    <2>2. Contents(b) = {}
      BY <1>1, <2>1, BoxFacts
    <2> QED BY <1>2, <2>2 DEF CurrentOf
  <1>3. CASE b.tabs # <<>>
    <2>1. b.position \in 0..Len(b.tabs) - 1
      BY <1>1, <1>3, BoxFacts DEF BoxOK
    <2>2. WidgetAt(b, b.position) \in Contents(b) /\ WidgetAt(b, b.position) \in Widgets
      BY <1>1, <2>1, BoxFacts
    <2> QED BY <1>3, <2>1, <2>2 DEF CurrentOf
  <1> QED BY <1>2, <1>3

\* When no widget is in two tabs, what is visible can be said of sets.
LEMMA VisibleSet ==
  ASSUME NEW b, BoxOK(b), Indexed(b)
  PROVE  OnlyCurrentVisible(b) <=> b.visible \cap Contents(b) = CurrentOf(b)
  <1>1. b \in Boxes /\ b.position \in Nat /\ Len(b.tabs) \in Nat
    BY BoxFacts DEF BoxOK, Boxes
  <1>2. \A i, k \in 0..Len(b.tabs) - 1 : WidgetAt(b, i) = WidgetAt(b, k) => i = k
    BY DEF Indexed
  <1>3. CASE b.tabs = <<>>
    <2>1. Len(b.tabs) = 0 /\ Contents(b) = {} /\ CurrentOf(b) = {}
      BY <1>3, CurrentInside DEF CurrentOf
    <2> QED BY <2>1 DEF OnlyCurrentVisible
  <1>4. CASE b.tabs # <<>>
    <2>1. b.position \in 0..Len(b.tabs) - 1 /\ CurrentOf(b) = {WidgetAt(b, b.position)}
      BY <1>4, CurrentInside DEF CurrentOf
    <2>2. \A i \in 0..Len(b.tabs) - 1 : WidgetAt(b, i) \in Contents(b)
      BY <1>1, BoxFacts
    <2>3. \A w \in Contents(b) : \E i \in 0..Len(b.tabs) - 1 : w = WidgetAt(b, i)
      BY <1>1, BoxFacts
    <2>4. ASSUME OnlyCurrentVisible(b)
          PROVE  b.visible \cap Contents(b) = {WidgetAt(b, b.position)}
      <3>1. \A i \in 0..Len(b.tabs) - 1 : WidgetAt(b, i) \in b.visible <=> i = b.position
        BY <2>4 DEF OnlyCurrentVisible
      <3>2. WidgetAt(b, b.position) \in b.visible \cap Contents(b)
        BY <2>1, <2>2, <3>1
      <3>3. ASSUME NEW w \in b.visible \cap Contents(b) PROVE w = WidgetAt(b, b.position)
        BY <2>3, <3>1
      <3> QED BY <3>2, <3>3
    <2>5. ASSUME b.visible \cap Contents(b) = {WidgetAt(b, b.position)}
          PROVE  OnlyCurrentVisible(b)
      <3> SUFFICES ASSUME NEW i \in 0..Len(b.tabs) - 1
                   PROVE  WidgetAt(b, i) \in b.visible <=> i = b.position
        BY DEF OnlyCurrentVisible
      <3>1. WidgetAt(b, i) \in b.visible <=> WidgetAt(b, i) = WidgetAt(b, b.position)
        BY <2>2, <2>5
      <3> QED BY <1>2, <2>1, <3>1
    <2> QED BY <2>1, <2>4, <2>5
  <1> QED BY <1>3, <1>4

LEMMA EmptyGood == BoxOK(EmptyBox) /\ Good(EmptyBox) /\ Contents(EmptyBox) = {}
  <1>1. <<>> \in Seq(TabTypes)
    OBVIOUS
  <1>2. BoxOK(EmptyBox) /\ EmptyBox.tabs = <<>> /\ EmptyBox.parented = {}
    BY <1>1 DEF BoxOK, Boxes, EmptyBox, LastIndex
  <1>3. Contents(EmptyBox) = {}
    BY <1>2, CurrentInside
  <1>4. Len(EmptyBox.tabs) = 0
    BY <1>2
  <1> QED BY <1>2, <1>3, <1>4 DEF Good, OnlyCurrentVisible, WidgetsPlaced, Indexed

LEMMA InsertGood ==
  ASSUME NEW b, BoxOK(b), Good(b), NEW title \in Titles, NEW w \in Widgets \ Contents(b),
         NEW where \in Nat
  PROVE  Good(Insert(b, title, w, where))
  <1> DEFINE c == Insert(b, title, w, where)
  <1>a. BoxOK(c) /\ InsertResult(b, c, w) /\ SameCurrent(b, c) /\ (Indexed(b) => Indexed(c))
    BY InsertBox
  <1> HIDE DEF c
  <1>1. /\ BoxOK(c) /\ Len(c.tabs) = Len(b.tabs) + 1
        /\ c.visible = IF b.tabs = <<>> THEN b.visible \cup {w} ELSE b.visible \ {w}
        /\ c.parented = b.parented \cup {w}
        /\ Contents(c) = Contents(b) \cup {w}
        /\ SameCurrent(b, c)
        /\ Indexed(b) => Indexed(c)
    BY <1>a DEF InsertResult
  <1>2. Indexed(b) /\ b.parented = Contents(b)
    BY DEF Good, WidgetsPlaced
  <1>3. b.visible \cap Contents(b) = CurrentOf(b)
    BY <1>2, VisibleSet DEF Good
  <1>4. Len(b.tabs) \in Nat /\ c.tabs # <<>>
    <2>1. Len(b.tabs) \in Nat /\ c \in Boxes
      BY <1>1, BoxFacts DEF BoxOK
    <2>2. Len(c.tabs) # 0
      BY <1>1, <2>1
    <2> QED BY <2>1, <2>2, BoxFacts
  <1>5. CurrentOf(c) = {WidgetAt(c, c.position)} /\ WidgetAt(c, c.position) \in Contents(c)
    BY <1>1, <1>4, CurrentInside DEF CurrentOf
  <1>6. c.visible \cap Contents(c) = CurrentOf(c)
    <2>1. CASE b.tabs = <<>>
      <3>1. Contents(c) = {w}
        BY <1>1, <2>1, CurrentInside
      <3> QED BY <1>1, <1>5, <2>1, <3>1
    <2>2. CASE b.tabs # <<>>
      <3>1. CurrentOf(c) = CurrentOf(b)
        BY <1>1, <1>5, <2>2 DEF SameCurrent, CurrentOf
      <3> QED BY <1>1, <1>3, <2>2, <3>1
    <2> QED BY <2>1, <2>2
  <1>7. OnlyCurrentVisible(c)
    BY <1>1, <1>2, <1>6, VisibleSet
  <1> QED BY <1>1, <1>2, <1>7 DEF Good, WidgetsPlaced, c

LEMMA SwitchGood ==
  ASSUME NEW b, BoxOK(b), Good(b), NEW i \in Nat
  PROVE  /\ Good(SetCurrentTab(b, i))
         /\ Contents(SetCurrentTab(b, i)) = Contents(b)
  <1> DEFINE c == SetCurrentTab(b, i)
             j == Least(i, LastIndex(b))
  <1>1. /\ BoxOK(c) /\ c.tabs = b.tabs /\ c.parented = b.parented /\ c.index = b.index
        /\ b.tabs = <<>> => c = b
    BY SetCurrentBox
  <1>2. b.tabs # <<>> =>
           /\ c.position = j
           /\ c.visible = IF j = b.position THEN b.visible
                          ELSE (b.visible \ {WidgetAt(b, b.position)}) \cup {WidgetAt(b, j)}
    BY SetCurrentBox
  <1> HIDE DEF c, j
  <1>3. Contents(c) = Contents(b)
    BY <1>1 DEF Contents
  <1>4. Indexed(b) /\ b.parented = Contents(b) /\ b.visible \cap Contents(b) = CurrentOf(b)
    BY VisibleSet DEF Good, WidgetsPlaced
  <1>5. Indexed(c)
    BY <1>1, <1>4 DEF Indexed, WidgetAt, TabAt
  <1>6. \A k : WidgetAt(c, k) = WidgetAt(b, k)
    BY <1>1 DEF WidgetAt, TabAt
  <1>7. c.visible \cap Contents(c) = CurrentOf(c)
    <2>1. CASE b.tabs = <<>>
      BY <1>1, <1>4, <2>1
    <2>2. CASE b.tabs # <<>>
      <3>1. CurrentOf(c) = {WidgetAt(b, j)} /\ WidgetAt(b, j) \in Contents(b)
        BY <1>1, <1>2, <1>3, <1>6, <2>2, CurrentInside DEF CurrentOf
      <3>2. CurrentOf(b) = {WidgetAt(b, b.position)}
        BY <2>2 DEF CurrentOf
      <3>3. CASE j = b.position
        BY <1>2, <1>3, <1>4, <2>2, <3>1, <3>2, <3>3
      <3>4. CASE j # b.position
        BY <1>2, <1>3, <1>4, <2>2, <3>1, <3>2, <3>4
      <3> QED BY <3>3, <3>4
    <2> QED BY <2>1, <2>2
  <1>8. OnlyCurrentVisible(c)
    BY <1>1, <1>5, <1>7, VisibleSet
  <1> QED BY <1>1, <1>3, <1>4, <1>5, <1>8 DEF Good, WidgetsPlaced, c

\* Closing the current tab.
LEMMA RemoveGood ==
  ASSUME NEW b, BoxOK(b), Good(b), b.tabs # <<>>
  PROVE  /\ Good(RemoveTab(b, b.position))
         /\ Contents(RemoveTab(b, b.position)) = Contents(b) \ {WidgetAt(b, b.position)}
  <1> DEFINE i == b.position
             c == RemoveTab(b, i)
  <1>1. i \in 0..Len(b.tabs) - 1
    BY CurrentInside
  <1>2. Indexed(b) /\ Distinct(b) /\ b.parented = Contents(b)
    BY IndexedDistinct DEF Good, WidgetsPlaced
  <1>3. b.visible \cap Contents(b) = {WidgetAt(b, i)}
    BY <1>2, VisibleSet DEF Good, CurrentOf
  <1> HIDE DEF i
  <1>4. /\ BoxOK(c)
        /\ c.tabs # <<>> => c.visible = b.visible \cup {WidgetAt(c, c.position)}
        /\ c.tabs = <<>> => c.visible = b.visible
        /\ c.parented = b.parented \ {WidgetAt(b, i)}
        /\ Distinct(b) => Contents(c) = Contents(b) \ {WidgetAt(b, i)}
        /\ Indexed(b) => Indexed(c)
    BY <1>1, RemoveBox
  <1> HIDE DEF c
  <1>5. c.visible \cap Contents(c) = CurrentOf(c)
    <2>1. CASE c.tabs = <<>>
      BY <1>4, <2>1, CurrentInside DEF CurrentOf
    <2>2. CASE c.tabs # <<>>
      <3>1. WidgetAt(c, c.position) \in Contents(c) /\ CurrentOf(c) = {WidgetAt(c, c.position)}
        BY <1>4, <2>2, CurrentInside DEF CurrentOf
      <3> QED BY <1>2, <1>3, <1>4, <2>2, <3>1
    <2> QED BY <2>1, <2>2
  <1>6. OnlyCurrentVisible(c)
    BY <1>2, <1>4, <1>5, VisibleSet
  <1> QED BY <1>2, <1>4, <1>6 DEF Good, WidgetsPlaced, c, i

LEMMA TitleGood ==
  ASSUME NEW b, BoxOK(b), Good(b), NEW i \in 0..Len(b.tabs) - 1, NEW title \in Titles
  PROVE  /\ Good(SetTitle(b, i, title))
         /\ Contents(SetTitle(b, i, title)) = Contents(b)
         /\ \A k \in 0..Len(b.tabs) - 1 :
               WidgetAt(SetTitle(b, i, title), k) = WidgetAt(b, k)
  <1> DEFINE c == SetTitle(b, i, title)
  <1>1. /\ BoxOK(c) /\ Len(c.tabs) = Len(b.tabs)
        /\ c.position = b.position /\ c.visible = b.visible
        /\ c.parented = b.parented /\ c.index = b.index
        /\ \A k \in 0..Len(b.tabs) - 1 : TabAt(c, k) =
              IF k = i THEN [title |-> title, widget |-> WidgetAt(b, k)] ELSE TabAt(b, k)
    BY SetTitleBox
  <1> HIDE DEF c
  <1>2. \A k \in 0..Len(b.tabs) - 1 : WidgetAt(c, k) = WidgetAt(b, k)
    BY <1>1 DEF WidgetAt
  <1>3. Contents(c) = Contents(b)
    <2>1. b \in Boxes /\ c \in Boxes
      BY <1>1 DEF BoxOK
    <2>2. \A w \in Contents(c) : w \in Contents(b)
      BY <1>1, <1>2, <2>1, BoxFacts
    <2>3. \A w \in Contents(b) : w \in Contents(c)
      BY <1>1, <1>2, <2>1, BoxFacts
    <2> QED BY <2>2, <2>3
  <1>4. OnlyCurrentVisible(c) /\ Indexed(c)
    BY <1>1, <1>2 DEF Good, WidgetsPlaced, OnlyCurrentVisible, Indexed
  <1>5. b.parented = Contents(b)
    BY DEF Good, WidgetsPlaced
  <1>6. Good(c)
    BY <1>1, <1>3, <1>4, <1>5 DEF Good, WidgetsPlaced
  <1> QED BY <1>2, <1>3, <1>6 DEF c

-----------------------------------------------------------------------------
(* The container.                                                          *)

Uninformed == \A i \in Indices, w \in Outside : ~DoSetTab(i, w)

Kept == BoxOK(box') /\ (Indexed(box) /\ Uninformed => Indexed(box'))

LEMMA InitOK == Init => TypeOK
  <1> SUFFICES ASSUME Init PROVE BoxOK(box)
    BY DEF TypeOK
  <1>1. box = EmptyBox /\ <<>> \in Seq(TabTypes)
    BY DEF Init
  <1> QED BY <1>1 DEF BoxOK, Boxes, EmptyBox, LastIndex

LEMMA StepKeeps ==
  ASSUME TypeOK, [Next]_vars
  PROVE  Kept
  <1>1. /\ BoxOK(box) /\ box \in Boxes /\ box.position \in Nat
        /\ Len(box.tabs) \in Nat /\ Outside \subseteq Widgets \ Contents(box)
    BY BoxFacts DEF TypeOK, BoxOK, Boxes, Outside
  <1>2. CASE UNCHANGED vars
    BY <1>1, <1>2 DEF vars, Kept
  <1>3. ASSUME NEW title \in Titles, NEW w \in Widgets, DoPushBack(title, w) PROVE Kept
    BY <1>1, <1>3, PushBackBox DEF DoPushBack, Kept
  <1>4. ASSUME NEW title \in Titles, NEW w \in Widgets, NEW i \in 0..Len(box.tabs),
               DoInsert(title, w, i)
        PROVE  Kept
    <2>1. i \in Nat /\ w \in Widgets \ Contents(box)
      BY <1>1, <1>4 DEF DoInsert
    <2>2. LET c == Insert(box, title, w, i) IN BoxOK(c) /\ (Indexed(box) => Indexed(c))
      BY <1>1, <2>1, InsertBox
    <2> QED BY <1>4, <2>2 DEF DoInsert, Kept
  <1>5. ASSUME NEW i \in Indices, box' = RemoveTab(box, i) PROVE Kept
    BY <1>1, <1>5, RemoveBox DEF Indices, Kept
  <1>6. CASE RemoveCurrent
    <2>1. box.position \in Indices
      BY <1>1, <1>6, BoxFacts DEF RemoveCurrent, BoxOK, Indices
    <2> QED BY <1>5, <1>6, <2>1 DEF RemoveCurrent
  <1>7. ASSUME NEW i \in Nat, DoSetCurrentTab(i) PROVE Kept
    <2> DEFINE c == SetCurrentTab(box, i)
    <2>1. BoxOK(c) /\ c.tabs = box.tabs /\ c.index = box.index
      BY <1>1, SetCurrentBox
    <2> HIDE DEF c
    <2>2. Indexed(box) => Indexed(c)
      BY <2>1 DEF Indexed, WidgetAt, TabAt
    <2>3. box' = c
      BY <1>7 DEF DoSetCurrentTab, c
    <2> QED BY <2>1, <2>2, <2>3 DEF Kept
  <1>8. CASE PrevTab
    <2>1. box.position - 1 \in Nat
      BY <1>1, <1>8 DEF PrevTab
    <2> QED BY <1>7, <1>8, <2>1 DEF PrevTab
  <1>9. CASE NextTab
    <2>1. box.position + 1 \in Nat
      BY <1>1
    <2> QED BY <1>7, <1>9, <2>1 DEF NextTab
  <1>10. CASE Clear
    BY <1>1, <1>10, ClearBox DEF Clear, Kept
  <1>11. ASSUME NEW i \in Indices, NEW title \in Titles, DoSetTitle(i, title) PROVE Kept
    <2> DEFINE c == SetTitle(box, i, title)
    <2>1. /\ BoxOK(c) /\ Len(c.tabs) = Len(box.tabs) /\ c.index = box.index
          /\ \A k \in 0..Len(box.tabs) - 1 : TabAt(c, k) =
                IF k = i THEN [title |-> title, widget |-> WidgetAt(box, k)] ELSE TabAt(box, k)
      BY <1>1, SetTitleBox DEF Indices
    <2> HIDE DEF c
    <2>2. \A k \in 0..Len(box.tabs) - 1 : WidgetAt(c, k) = WidgetAt(box, k)
      BY <2>1 DEF WidgetAt
    <2>3. Indexed(box) => Indexed(c)
      BY <2>1, <2>2 DEF Indexed
    <2>4. box' = c
      BY <1>11 DEF DoSetTitle, c
    <2> QED BY <2>1, <2>3, <2>4 DEF Kept
  <1>12. ASSUME NEW i \in Indices, NEW w \in Widgets, DoSetTab(i, w) PROVE Kept
    <2>1. BoxOK(box') /\ w \in Outside
      BY <1>1, <1>12, SetTabBox DEF DoSetTab, Indices
    <2>2. ~Uninformed
      BY <1>12, <2>1 DEF Uninformed
    <2> QED BY <2>1, <2>2 DEF Kept
  <1>13. ASSUME NEW i \in Nat, NEW j \in Nat, NEW insert \in BOOLEAN, DoMoveTab(i, j, insert)
         PROVE  Kept
    BY <1>1, <1>13, MoveBox DEF DoMoveTab, Kept
  <1>14. ASSUME NEW i \in Indices, NEW insert \in BOOLEAN, MoveLeft(i, insert) PROVE Kept
    <2>1. i \in Nat /\ i - 1 \in Nat
      BY <1>14 DEF MoveLeft, Indices
    <2> QED BY <1>13, <1>14, <2>1 DEF MoveLeft
  <1>15. ASSUME NEW i \in Indices, NEW insert \in BOOLEAN, MoveRight(i, insert) PROVE Kept
    <2>1. i \in Nat /\ i + 1 \in Nat
      BY DEF Indices
    <2> QED BY <1>13, <1>15, <2>1 DEF MoveRight
  <1>16. ASSUME NEW i \in Indices, NEW insert \in BOOLEAN, NEW j \in 0..Len(box.tabs),
                DoMoveTab(i, j, insert)
         PROVE  Kept
    <2>1. i \in Nat /\ j \in Nat
      BY DEF Indices
    <2> QED BY <1>13, <1>16, <2>1
  <1>17. ASSUME NEW i \in Indices, DoRemove(i) PROVE Kept
    BY <1>5, <1>17 DEF DoRemove
  <1>18. ASSUME NEW i \in 0..Len(box.tabs), DoSetCurrentTab(i) PROVE Kept
    <2>1. i \in Nat
      OBVIOUS
    <2> QED BY <1>7, <1>18, <2>1
  <1> QED
    BY <1>2, <1>3, <1>4, <1>6, <1>8, <1>9, <1>10, <1>11, <1>12, <1>14, <1>15, <1>16,
       <1>17, <1>18
    DEF Next

LEMMA InsertionKeeps ==
  ASSUME TypeOK, NEW title \in Titles, NEW w \in Outside, NEW where \in 0..Len(box.tabs)
  PROVE  box.tabs # <<>> /\ DoInsert(title, w, where) =>
            WidgetAt(box', box'.position) = WidgetAt(box, box.position)
  <1>1. BoxOK(box) /\ w \in Widgets \ Contents(box) /\ where \in Nat
    BY BoxFacts DEF TypeOK, Outside
  <1>2. SameCurrent(box, Insert(box, title, w, where))
    BY <1>1, InsertBox
  <1> QED BY <1>2 DEF DoInsert, SameCurrent

\* The position of a container is always that of a tab (or 0), and no index
\* a widget was given is out of its type.
THEOREM TypeCorrect == Spec => []TypeOK
  <1>1. TypeOK /\ [Next]_vars => TypeOK'
    BY StepKeeps DEF Kept, TypeOK
  <1> QED BY <1>1, InitOK, PTL DEF Spec

\* Whatever is inserted, removed or moved, the widgets know their indices and
\* an insertion keeps the current tab.
THEOREM PlacesAreFollowed == Spec => PlacesFollow
  <1>1. TypeOK /\ [Next]_vars =>
           /\ Indexed(box) /\ (\A i \in Indices, w \in Outside : ~DoSetTab(i, w))
                 => Indexed(box')
           /\ \A title \in Titles, w \in Outside, i \in 0..Len(box.tabs) :
                 box.tabs # <<>> /\ DoInsert(title, w, i) =>
                    WidgetAt(box', box'.position) = WidgetAt(box, box.position)
    <2> SUFFICES ASSUME TypeOK, [Next]_vars
                 PROVE  /\ Indexed(box) /\ Uninformed => Indexed(box')
                        /\ \A title \in Titles, w \in Outside, i \in 0..Len(box.tabs) :
                              box.tabs # <<>> /\ DoInsert(title, w, i) =>
                                 WidgetAt(box', box'.position) = WidgetAt(box, box.position)
      BY DEF Uninformed
    <2>1. Indexed(box) /\ Uninformed => Indexed(box')
      BY StepKeeps DEF Kept
    <2> QED BY <2>1, InsertionKeeps
  <1> QED BY <1>1, TypeCorrect, PTL DEF Spec, PlacesFollow
=============================================================================
