----------------------------- MODULE GridsProofs -----------------------------
(***************************************************************************)
(* Theorems about the two grids, for any columns, rows, fields and keys:   *)
(* first what the operations of Grid do, then the editor of a schema, then *)
(* the grid of the metadata.                                               *)
(***************************************************************************)
EXTENDS SchemaEditor, MetadataGrid, FiniteSetTheorems, SequenceTheorems, TLAPS

-----------------------------------------------------------------------------
(* Induction, and sequences.                                               *)

\* A set of naturals that has 0 and the successor of each of its elements has
\* all: the segments up to those it lacks would have a smallest one.
LEMMA Induction ==
  ASSUME NEW T \in SUBSET Nat, 0 \in T, \A n \in T : n + 1 \in T
  PROVE  T = Nat
  <1> SUFFICES ASSUME NEW n \in Nat \ T PROVE FALSE
    OBVIOUS
  <1> DEFINE Segments == {0..m : m \in Nat \ T}
  <1>1. \A m \in Nat : 0..m \in FiniteSubsetsOf(Nat)
    BY FS_Interval DEF FiniteSubsetsOf
  <1>2. Segments \subseteq FiniteSubsetsOf(Nat) /\ Segments # {}
    BY <1>1
  <1>3. IsWellFoundedOn(StrictSubsetOrdering(Nat), FiniteSubsetsOf(Nat))
    BY FS_StrictSubsetOrderingWellFounded
  <1>4. PICK x \in Segments : \A y \in Segments : ~(<<y, x>> \in StrictSubsetOrdering(Nat))
    <2> HIDE DEF Segments
    <2> QED
      BY <1>2, <1>3, WFMin
  <1>5. PICK m \in Nat \ T : x = 0..m
    BY <1>4
  <1>6. m - 1 \in Nat \ T
    BY <1>5
  <1>7. <<0..(m - 1), 0..m>> \in StrictSubsetOrdering(Nat)
    BY <1>5, <1>6 DEF StrictSubsetOrdering
  <1> QED
    BY <1>4, <1>5, <1>6, <1>7

\* t is s with the element e before its place i.
Extends(s, i, e, t) ==
    \A k \in 1..Len(s) + 1 :
        t[k] = IF k < i THEN s[k] ELSE IF k = i THEN e ELSE s[k - 1]

\* A row that is inserted in a sequence moves those from its place on.
LEMMA InsertExtends ==
  ASSUME NEW S, NEW s \in Seq(S), NEW i \in 1..Len(s) + 1, NEW e \in S
  PROVE  /\ InsertAt(s, i, e) \in Seq(S) /\ Len(InsertAt(s, i, e)) = Len(s) + 1
         /\ Extends(s, i, e, InsertAt(s, i, e))
  <1> DEFINE front == SubSeq(s, 1, i - 1)
             back == SubSeq(s, i, Len(s))
  <1>1. /\ front \in Seq(S) /\ Len(front) = i - 1
        /\ \A k \in 1..i - 1 : front[k] = s[k]
    OBVIOUS
  <1>2. /\ back \in Seq(S) /\ Len(back) = Len(s) - i + 1
        /\ \A k \in 1..Len(s) - i + 1 : back[k] = s[i + k - 1]
    OBVIOUS
  <1>3. <<e>> \in Seq(S) /\ Len(<<e>>) = 1 /\ <<e>>[1] = e
    OBVIOUS
  <1> HIDE DEF front, back
  <1> DEFINE first == front \o <<e>>
  <1>4. /\ first \in Seq(S) /\ Len(first) = i
        /\ \A k \in 1..i : first[k] = IF k < i THEN s[k] ELSE e
    BY <1>1, <1>3, ConcatProperties
  <1> HIDE DEF first
  <1>5. /\ first \o back \in Seq(S)
        /\ Len(first \o back) = Len(s) + 1
        /\ \A k \in 1..i : (first \o back)[k] = first[k]
        /\ \A k \in i + 1..Len(s) + 1 : (first \o back)[k] = back[k - i]
    <2>1. Len(first) + Len(back) = Len(s) + 1
      BY <1>2, <1>4
    <2>2. first \o back \in Seq(S) /\ Len(first \o back) = Len(first) + Len(back)
      BY <1>2, <1>4
    <2>3. \A k \in 1..Len(first) : (first \o back)[k] = first[k]
      BY <1>2, <1>4
    <2>4. \A k \in Len(first) + 1..Len(first) + Len(back) :
             (first \o back)[k] = back[k - Len(first)]
      BY <1>2, <1>4
    <2>5. Len(first) = i
      BY <1>4
    <2> QED BY <2>1, <2>2, <2>3, <2>4, <2>5
  <1>6. InsertAt(s, i, e) = first \o back
    BY DEF InsertAt, first, front, back
  <1>7. \A k \in 1..Len(s) + 1 : InsertAt(s, i, e)[k] =
           IF k < i THEN s[k] ELSE IF k = i THEN e ELSE s[k - 1]
    BY <1>2, <1>4, <1>5, <1>6
  <1> QED
    BY <1>5, <1>6, <1>7, Zenon DEF Extends

\* One that is removed brings those after it back by one.
LEMMA RemovedAt ==
  ASSUME NEW S, NEW s \in Seq(S), NEW i \in 1..Len(s)
  PROVE  /\ RemoveAt(s, i) \in Seq(S)
         /\ Len(RemoveAt(s, i)) = Len(s) - 1
         /\ \A k \in 1..Len(s) - 1 : RemoveAt(s, i)[k] = IF k < i THEN s[k] ELSE s[k + 1]
  <1> DEFINE front == SubSeq(s, 1, i - 1)
             back == SubSeq(s, i + 1, Len(s))
  <1>1. /\ front \in Seq(S) /\ Len(front) = i - 1
        /\ \A k \in 1..i - 1 : front[k] = s[k]
    OBVIOUS
  <1>2. /\ back \in Seq(S) /\ Len(back) = Len(s) - i
        /\ \A k \in 1..Len(s) - i : back[k] = s[i + k]
    OBVIOUS
  <1> HIDE DEF front, back
  <1>3. RemoveAt(s, i) = front \o back
    BY DEF RemoveAt, front, back
  <1>4. /\ front \o back \in Seq(S)
        /\ Len(front \o back) = Len(s) - 1
        /\ \A k \in 1..i - 1 : (front \o back)[k] = front[k]
        /\ \A k \in i..Len(s) - 1 : (front \o back)[k] = back[k - (i - 1)]
    <2>1. Len(front) + Len(back) = Len(s) - 1
      BY <1>1, <1>2
    <2>2. front \in Seq(S) /\ back \in Seq(S)
      BY <1>1, <1>2
    <2>3. front \o back \in Seq(S) /\ Len(front \o back) = Len(front) + Len(back)
      BY <2>2
    <2>4. \A k \in 1..Len(front) : (front \o back)[k] = front[k]
      BY <2>2
    <2>5. \A k \in Len(front) + 1..Len(front) + Len(back) :
             (front \o back)[k] = back[k - Len(front)]
      BY <2>2
    <2>6. Len(front) = i - 1
      BY <1>1
    <2>7. \A k \in 1..i - 1 : (front \o back)[k] = front[k]
      BY <2>3, <2>6
    <2>8. \A k \in i..Len(s) - 1 : (front \o back)[k] = back[k - (i - 1)]
      <3>1. (i - 1) + 1 = i
        OBVIOUS
      <3> QED BY <2>1, <2>5, <2>6, <3>1
    <2> QED BY <2>1, <2>3, <2>7, <2>8
  <1>5. ASSUME NEW k \in i..Len(s) - 1 PROVE RemoveAt(s, i)[k] = s[k + 1]
    <2>1. k - (i - 1) \in 1..Len(s) - i /\ i + (k - (i - 1)) = k + 1
      OBVIOUS
    <2>2. (front \o back)[k] = back[k - (i - 1)]
      BY <1>4
    <2>3. back[k - (i - 1)] = s[k + 1]
      BY <1>2, <2>1
    <2> QED BY <1>3, <2>2, <2>3
  <1>6. ASSUME NEW k \in 1..i - 1 PROVE RemoveAt(s, i)[k] = s[k]
    BY <1>1, <1>3, <1>4
  <1>7. RemoveAt(s, i) \in Seq(S) /\ Len(RemoveAt(s, i)) = Len(s) - 1
    BY <1>3, <1>4
  <1>8. ASSUME NEW k \in 1..Len(s) - 1
        PROVE  RemoveAt(s, i)[k] = IF k < i THEN s[k] ELSE s[k + 1]
    <2>1. CASE k < i
      <3>1. k \in 1..i - 1
        BY <2>1
      <3> QED BY <1>6, <2>1, <3>1
    <2>2. CASE ~(k < i)
      <3>1. k \in i..Len(s) - 1
        BY <2>2
      <3> QED BY <1>5, <2>2, <3>1
    <2> QED BY <2>1, <2>2
  <1> QED BY <1>7, <1>8

\* t is s without the element at its place i.
Skips(s, i, t) ==
    \A k \in 1..Len(s) - 1 : t[k] = IF k < i THEN s[k] ELSE s[k + 1]

LEMMA RemoveSkips ==
  ASSUME NEW S, NEW s \in Seq(S), NEW i \in 1..Len(s)
  PROVE  /\ RemoveAt(s, i) \in Seq(S) /\ Len(RemoveAt(s, i)) = Len(s) - 1
         /\ Skips(s, i, RemoveAt(s, i))
  <1>1. RemoveAt(s, i) \in Seq(S) /\ Len(RemoveAt(s, i)) = Len(s) - 1
    BY RemovedAt
  <1>2. \A k \in 1..Len(s) - 1 : RemoveAt(s, i)[k] = IF k < i THEN s[k] ELSE s[k + 1]
    BY RemovedAt
  <1> QED
    BY <1>1, <1>2, Zenon DEF Skips

-----------------------------------------------------------------------------
(* The operations of Grid.                                                 *)

\* A grid whose cursor may be outside, as it is before it is set.
GridRecords ==
    [cols : Nat \ {0}, rows : Nat, sel : Seq(BOOLEAN), cursor : [col : Int, row : Int],
     top : Nat, fit : Nat]

\* h has the rows, columns, selection and room of g.
Framed(g, h) == h.cols = g.cols /\ h.rows = g.rows /\ h.sel = g.sel /\ h.fit = g.fit

LEMMA GridOKRecord ==
  ASSUME NEW g
  PROVE  G!GridOK(g) <=> /\ g \in GridRecords
                         /\ g.cursor.col \in 0..g.cols - 1
                         /\ g.cursor.row \in 0..G!AtLeast0(g.rows - 1)
  BY DEF G!GridOK, GridRecords, G!AtLeast0

LEMMA AdjustedGrid ==
  ASSUME NEW g \in GridRecords, g.cursor.row \in Nat
  PROVE  /\ G!Adjusted(g) \in GridRecords
         /\ Framed(g, G!Adjusted(g))
         /\ G!Adjusted(g).cursor = g.cursor
  <1> DEFINE top == IF g.top + g.fit <= g.cursor.row THEN g.cursor.row - (g.fit - 1)
                    ELSE IF g.top > g.cursor.row THEN g.cursor.row ELSE g.top
  <1>1. top \in Nat
    BY DEF GridRecords
  <1>2. ~(g.top + g.fit <= g.cursor.row /\ g.top > g.cursor.row)
    BY DEF GridRecords
  <1>3. G!Adjusted(g) = [g EXCEPT !.top = top]
    <2>1. CASE g.top + g.fit <= g.cursor.row
      <3>1. G!Adjusted(g) = [g EXCEPT !.top = g.cursor.row - (g.fit - 1)]
        BY <1>2, <2>1, Zenon DEF G!Adjusted
      <3> QED
        BY <2>1, <3>1
    <2>2. CASE ~(g.top + g.fit <= g.cursor.row) /\ g.top > g.cursor.row
      <3>1. G!Adjusted(g) = [g EXCEPT !.top = g.cursor.row]
        BY <2>2, Zenon DEF G!Adjusted
      <3> QED
        BY <2>2, <3>1
    <2>3. CASE ~(g.top + g.fit <= g.cursor.row) /\ ~(g.top > g.cursor.row)
      <3>1. G!Adjusted(g) = g
        BY <2>3, Zenon DEF G!Adjusted
      <3>2. g = [g EXCEPT !.top = g.top]
        BY DEF GridRecords
      <3> QED
        BY <2>3, <3>1, <3>2
    <2> QED
      BY <2>1, <2>2, <2>3
  <1> HIDE DEF top
  <1> QED
    BY <1>1, <1>3 DEF GridRecords, Framed

LEMMA CursorSet ==
  ASSUME NEW g \in GridRecords, NEW col \in Int, NEW row \in Int
  PROVE  LET h == G!SetCursor(g, col, row) IN
         /\ G!GridOK(h)
         /\ Framed(g, h)
         /\ h.cursor = [col |-> G!Clamped(col, 0, G!AtLeast0(g.cols - 1)),
                        row |-> G!Clamped(row, 0, G!AtLeast0(g.rows - 1))]
  <1> DEFINE cursor == [col |-> G!Clamped(col, 0, G!AtLeast0(g.cols - 1)),
                        row |-> G!Clamped(row, 0, G!AtLeast0(g.rows - 1))]
             h == G!SetCursor(g, col, row)
             set == [g EXCEPT !.cursor = cursor]
  <1>1. cursor.col \in 0..g.cols - 1 /\ cursor.row \in 0..G!AtLeast0(g.rows - 1)
    BY DEF GridRecords, G!Clamped, G!AtLeast0
  <1>2. cursor \in [col : Int, row : Int] /\ cursor.row \in Nat
    BY DEF GridRecords, G!Clamped, G!AtLeast0
  <1> HIDE DEF cursor
  <1>3. set \in GridRecords /\ Framed(g, set) /\ set.cursor = cursor
    BY <1>2 DEF GridRecords, Framed
  <1>4. h = IF cursor = g.cursor THEN g ELSE G!Adjusted(set)
    BY DEF G!SetCursor, cursor
  <1> HIDE DEF set, h
  <1>5. h \in GridRecords /\ Framed(g, h) /\ h.cursor = cursor
    <2>1. CASE cursor = g.cursor
      BY <1>4, <2>1 DEF Framed
    <2>2. CASE cursor # g.cursor
      <3>1. G!Adjusted(set) \in GridRecords /\ Framed(set, G!Adjusted(set))
            /\ G!Adjusted(set).cursor = cursor
        BY <1>2, <1>3, AdjustedGrid
      <3> QED
        BY <1>3, <1>4, <2>2, <3>1 DEF Framed
    <2> QED
      BY <2>1, <2>2
  <1>6. G!GridOK(h)
    BY <1>1, <1>5, GridOKRecord DEF Framed
  <1> QED
    BY <1>5, <1>6 DEF h, cursor

LEMMA NewGridOK ==
  ASSUME NEW cols \in Nat \ {0}, NEW rows \in Nat, NEW fit \in Nat
  PROVE  LET h == G!NewGrid(cols, rows, fit) IN
         G!GridOK(h) /\ h.cols = cols /\ h.rows = rows /\ Len(h.sel) = rows /\ h.fit = fit
         /\ h.cursor = [col |-> 0, row |-> 0]
  <1> DEFINE sel == [k \in 1..rows |-> FALSE]
             g == [cols |-> cols, rows |-> rows, sel |-> sel,
                   cursor |-> [col |-> -1, row |-> -1], top |-> 0, fit |-> fit]
  <1>1. sel \in Seq(BOOLEAN) /\ Len(sel) = rows
    OBVIOUS
  <1> HIDE DEF sel
  <1>2. g \in GridRecords
    BY <1>1 DEF GridRecords
  <1>3. g.cols = cols /\ g.rows = rows /\ g.sel = sel /\ g.fit = fit
    OBVIOUS
  <1>4. G!NewGrid(cols, rows, fit) = G!SetCursor(g, 0, 0)
    BY DEF G!NewGrid, sel
  <1> HIDE DEF g
  <1>5. G!GridOK(G!SetCursor(g, 0, 0)) /\ Framed(g, G!SetCursor(g, 0, 0))
        /\ G!SetCursor(g, 0, 0).cursor = [col |-> G!Clamped(0, 0, G!AtLeast0(g.cols - 1)),
                                           row |-> G!Clamped(0, 0, G!AtLeast0(g.rows - 1))]
    BY <1>2, CursorSet
  <1>6. G!Clamped(0, 0, G!AtLeast0(cols - 1)) = 0 /\ G!Clamped(0, 0, G!AtLeast0(rows - 1)) = 0
    BY DEF G!Clamped, G!AtLeast0
  <1> QED
    BY <1>1, <1>3, <1>4, <1>5, <1>6 DEF Framed

LEMMA AdjustedOK ==
  ASSUME NEW g, G!GridOK(g)
  PROVE  /\ G!GridOK(G!Adjusted(g))
         /\ Framed(g, G!Adjusted(g))
         /\ G!Adjusted(g).cursor = g.cursor
  <1>1. g \in GridRecords /\ g.cursor.row \in Nat
    BY GridOKRecord DEF G!AtLeast0
  <1> QED
    BY <1>1, AdjustedGrid, GridOKRecord DEF Framed

\* The cursor is inside the grid at the end of content_action, wherever the rows
\* that left had it.
LEMMA CursorClampedOK ==
  ASSUME NEW g \in GridRecords
  PROVE  LET h == G!CursorClamped(g) IN
         /\ G!GridOK(h)
         /\ Framed(g, h)
         /\ h.cursor = [col |-> G!Clamped(g.cursor.col, 0, G!AtLeast0(g.cols - 1)),
                        row |-> G!Clamped(g.cursor.row, 0, G!AtLeast0(g.rows - 1))]
  <1> DEFINE set == G!SetCursor(g, g.cursor.col, g.cursor.row)
  <1>1. /\ G!GridOK(set)
        /\ Framed(g, set)
        /\ set.cursor = [col |-> G!Clamped(g.cursor.col, 0, G!AtLeast0(g.cols - 1)),
                         row |-> G!Clamped(g.cursor.row, 0, G!AtLeast0(g.rows - 1))]
    <2>1. g.cursor.col \in Int /\ g.cursor.row \in Int
      BY DEF GridRecords
    <2> QED
      BY <2>1, CursorSet
  <1>2. G!CursorClamped(g) = G!Adjusted(set)
    BY DEF G!CursorClamped
  <1> HIDE DEF set
  <1> QED
    BY <1>1, <1>2, AdjustedOK DEF Framed

\* A grid that is resized is back at its first cell.
LEMMA ResizedOK ==
  ASSUME NEW g, G!GridOK(g), NEW rows \in Nat
  PROVE  LET h == G!Resize(g, rows) IN
         /\ G!GridOK(h)
         /\ h.cols = g.cols /\ h.rows = rows /\ Len(h.sel) = rows /\ h.fit = g.fit
         /\ h.cursor = [col |-> 0, row |-> 0]
  <1> DEFINE sel == [k \in 1..rows |-> IF k \in DOMAIN g.sel THEN g.sel[k] ELSE FALSE]
             with == [g EXCEPT !.rows = rows, !.sel = sel]
             set == G!SetCursor(with, 0, 0)
  <1>1. g \in GridRecords
    BY GridOKRecord
  <1>2. sel \in Seq(BOOLEAN) /\ Len(sel) = rows
    <2>1. g.sel \in Seq(BOOLEAN)
      BY <1>1 DEF GridRecords
    <2>2. \A k \in DOMAIN g.sel : g.sel[k] \in BOOLEAN
      BY <2>1
    <2>3. \A k \in 1..rows : sel[k] \in BOOLEAN
      BY <2>2, Zenon
    <2>4. DOMAIN sel = 1..rows
      OBVIOUS
    <2>5. sel \in [1..rows -> BOOLEAN]
      BY <2>3, Zenon
    <2> HIDE DEF sel
    <2> QED
      BY <2>4, <2>5
  <1>3. G!Resize(g, rows) = [set EXCEPT !.top = 0]
    BY DEF G!Resize
  <1> HIDE DEF sel
  <1>4. with \in GridRecords /\ with.rows = rows /\ with.sel = sel
        /\ with.cols = g.cols /\ with.fit = g.fit
    BY <1>1, <1>2 DEF GridRecords
  <1> HIDE DEF with
  <1>5. G!GridOK(set) /\ Framed(with, set)
        /\ set.cursor = [col |-> G!Clamped(0, 0, G!AtLeast0(with.cols - 1)),
                         row |-> G!Clamped(0, 0, G!AtLeast0(with.rows - 1))]
    BY <1>4, CursorSet
  <1>6. G!Clamped(0, 0, G!AtLeast0(with.cols - 1)) = 0
        /\ G!Clamped(0, 0, G!AtLeast0(with.rows - 1)) = 0
    BY <1>4 DEF G!Clamped, G!AtLeast0, GridRecords
  <1> HIDE DEF set
  <1>7. set \in GridRecords
    BY <1>5, GridOKRecord
  <1>8. /\ [set EXCEPT !.top = 0] \in GridRecords
        /\ Framed(set, [set EXCEPT !.top = 0])
        /\ [set EXCEPT !.top = 0].cursor = set.cursor
    BY <1>7 DEF GridRecords, Framed
  <1>9. G!GridOK([set EXCEPT !.top = 0])
    BY <1>5, <1>8, GridOKRecord DEF Framed
  <1> QED
    BY <1>2, <1>3, <1>4, <1>5, <1>6, <1>8, <1>9 DEF Framed

\* What selecting leaves: everything but the selection.
Selected(g, h) ==
    /\ h.cols = g.cols /\ h.rows = g.rows /\ h.cursor = g.cursor /\ h.fit = g.fit
    /\ Len(h.sel) = Len(g.sel)

LEMMA SelectedAllOK ==
  ASSUME NEW g, G!GridOK(g), NEW enable \in BOOLEAN
  PROVE  LET h == G!SelectAll(g, enable) IN
         G!GridOK(h) /\ Selected(g, h) /\ \A k \in DOMAIN h.sel : h.sel[k] = enable
  <1> DEFINE sel == [k \in DOMAIN g.sel |-> enable]
  <1>1. g \in GridRecords
    BY GridOKRecord
  <1>2. sel \in Seq(BOOLEAN) /\ Len(sel) = Len(g.sel) /\ \A k \in DOMAIN sel : sel[k] = enable
    BY <1>1 DEF GridRecords
  <1>3. G!SelectAll(g, enable) = [g EXCEPT !.sel = sel]
    BY DEF G!SelectAll
  <1> HIDE DEF sel
  <1>4. [g EXCEPT !.sel = sel] \in GridRecords /\ [g EXCEPT !.sel = sel].sel = sel
        /\ Selected(g, [g EXCEPT !.sel = sel])
    BY <1>1, <1>2 DEF GridRecords, Selected
  <1> QED
    BY <1>2, <1>3, <1>4, GridOKRecord DEF Selected

LEMMA SelectToggledOK ==
  ASSUME NEW g, G!GridOK(g), NEW row
  PROVE  LET h == G!SelectToggle(g, row) IN G!GridOK(h) /\ Selected(g, h)
  <1> DEFINE sel == [k \in DOMAIN g.sel |-> IF k = row + 1 THEN ~g.sel[k] ELSE g.sel[k]]
  <1>1. g \in GridRecords
    BY GridOKRecord
  <1>2. sel \in Seq(BOOLEAN) /\ Len(sel) = Len(g.sel)
    <2>1. g.sel \in Seq(BOOLEAN)
      BY <1>1 DEF GridRecords
    <2>2. sel \in [DOMAIN g.sel -> BOOLEAN]
      <3>1. \A k \in DOMAIN g.sel : g.sel[k] \in BOOLEAN
        BY <2>1
      <3> QED
        BY <3>1, Zenon
    <2>3. DOMAIN g.sel = 1..Len(g.sel) /\ Len(g.sel) \in Nat
      BY <2>1
    <2> HIDE DEF sel
    <2> QED
      BY <2>2, <2>3
  <1>3. G!SelectToggle(g, row) = [g EXCEPT !.sel = sel]
    BY DEF G!SelectToggle
  <1> HIDE DEF sel
  <1>4. [g EXCEPT !.sel = sel] \in GridRecords /\ Selected(g, [g EXCEPT !.sel = sel])
    BY <1>1, <1>2 DEF GridRecords, Selected
  <1> QED
    BY <1>3, <1>4, GridOKRecord DEF Selected

\* The row that is inserted at is one of the grid, or the one after its last.
LEMMA InsertRowIn ==
  ASSUME NEW g, G!GridOK(g), NEW after \in BOOLEAN
  PROVE  G!InsertRow(g, after) \in 0..g.rows
  BY GridOKRecord DEF G!InsertRow, G!Clamped, G!AtLeast0, GridRecords

\* A row that is inserted is not selected, and leaves the cursor on its row.
LEMMA InsertedOK ==
  ASSUME NEW g, G!GridOK(g), Len(g.sel) = g.rows, NEW row \in 0..g.rows
  PROVE  LET h == G!Inserted(g, row) IN
         /\ G!GridOK(h)
         /\ h.cols = g.cols /\ h.rows = g.rows + 1 /\ h.fit = g.fit
         /\ h.sel = InsertAt(g.sel, row + 1, FALSE) /\ Len(h.sel) = g.rows + 1
         /\ h.cursor.col = g.cursor.col
         /\ h.cursor.row = IF g.rows # 0 /\ row <= g.cursor.row
                           THEN g.cursor.row + 1 ELSE g.cursor.row
  <1> DEFINE sel == InsertAt(g.sel, row + 1, FALSE)
             with == [g EXCEPT !.rows = g.rows + 1, !.sel = sel]
             to == IF g.rows # 0 /\ row <= g.cursor.row
                   THEN g.cursor.row + 1 ELSE g.cursor.row
             col == g.cursor.col
             placed == CASE with.rows = 1 -> G!SetCursor(with, col, 0)
                         [] with.rows # 1 /\ row <= g.cursor.row ->
                               G!SetCursor(with, col, g.cursor.row + 1)
                         [] OTHER -> with
  <1>1. g \in GridRecords /\ g.cursor.col \in 0..g.cols - 1
        /\ g.cursor.row \in 0..G!AtLeast0(g.rows - 1)
    BY GridOKRecord
  <1>2. sel \in Seq(BOOLEAN) /\ Len(sel) = g.rows + 1
    <2>1. g.sel \in Seq(BOOLEAN) /\ g.rows \in Nat
      BY <1>1 DEF GridRecords
    <2>2. row + 1 \in 1..Len(g.sel) + 1 /\ FALSE \in BOOLEAN
      BY <2>1
    <2> DEFINE at == row + 1
               no == FALSE
    <2>3. at \in 1..Len(g.sel) + 1 /\ no \in BOOLEAN
      BY <2>2
    <2> HIDE DEF at, no
    <2>4. InsertAt(g.sel, at, no) \in Seq(BOOLEAN)
          /\ Len(InsertAt(g.sel, at, no)) = Len(g.sel) + 1
      BY <2>1, <2>3, InsertExtends
    <2>5. InsertAt(g.sel, at, no) = sel
      BY Zenon DEF at, no
    <2> HIDE DEF sel
    <2> QED
      BY <2>4, <2>5
  <1>3. G!Inserted(g, row) = G!Adjusted(placed)
    <2>1. G!InsertAt(g.sel, row + 1, FALSE) = sel
      BY Zenon DEF G!InsertAt, InsertAt
    <2>2. [g EXCEPT !.rows = g.rows + 1, !.sel = G!InsertAt(g.sel, row + 1, FALSE)] = with
      BY <2>1, Zenon
    <2> HIDE DEF with
    <2> QED
      BY <2>2, Zenon DEF G!Inserted
  <1> HIDE DEF sel
  <1>4. with \in GridRecords /\ with.rows = g.rows + 1 /\ with.sel = sel
        /\ with.cols = g.cols /\ with.fit = g.fit /\ with.cursor = g.cursor
    <2>1. g.rows + 1 \in Nat
      BY <1>1 DEF GridRecords
    <2> QED
      BY <1>1, <1>2, <2>1 DEF GridRecords
  <1>5. to \in 0..g.rows /\ col \in 0..g.cols - 1
    BY <1>1 DEF GridRecords, G!AtLeast0
  <1>13. /\ col \in Int /\ to \in Int
         /\ G!Clamped(col, 0, G!AtLeast0(with.cols - 1)) = col
         /\ G!Clamped(to, 0, G!AtLeast0(with.rows - 1)) = to
    <2>1. g.rows \in Nat /\ g.cols \in Nat \ {0}
      BY <1>1 DEF GridRecords
    <2> HIDE DEF with, to, col
    <2> QED
      BY <1>4, <1>5, <2>1 DEF G!Clamped, G!AtLeast0
  <1>6. G!SetCursor(with, col, to) = IF [col |-> col, row |-> to] = g.cursor
                                     THEN with ELSE G!SetCursor(with, col, to)
    BY <1>4, <1>13 DEF G!SetCursor
  <1>7. G!GridOK(G!SetCursor(with, col, to)) /\ Framed(with, G!SetCursor(with, col, to))
        /\ G!SetCursor(with, col, to).cursor = [col |-> col, row |-> to]
    <2> HIDE DEF with, to, col
    <2> QED
      BY <1>4, <1>13, CursorSet
  <1>8. [col |-> g.cursor.col, row |-> g.cursor.row] = g.cursor
    BY <1>1 DEF GridRecords
  <1> HIDE DEF with
  <1>9. placed = G!SetCursor(with, col, to)
    <2>1. CASE g.rows = 0
      <3>1. to = 0 /\ with.rows = 1
        BY <1>1, <1>4, <2>1 DEF GridRecords, G!AtLeast0
      <3> HIDE DEF to, col
      <3> QED
        BY <3>1, Zenon
    <2>2. CASE g.rows # 0 /\ row <= g.cursor.row
      <3>1. with.rows # 1 /\ row <= g.cursor.row /\ to = g.cursor.row + 1
        <4>1. g.rows \in Nat
          BY <1>1 DEF GridRecords
        <4> QED
          BY <1>4, <2>2, <4>1
      <3> HIDE DEF to, col
      <3> QED
        BY <3>1, Zenon
    <2>3. CASE g.rows # 0 /\ ~(row <= g.cursor.row)
      <3>1. with.rows # 1 /\ ~(row <= g.cursor.row)
        <4>1. g.rows \in Nat
          BY <1>1 DEF GridRecords
        <4> HIDE DEF to, col
        <4> QED
          BY <1>4, <2>3, <4>1
      <3>2. [col |-> col, row |-> to] = g.cursor
        BY <1>8, <2>3
      <3>3. G!SetCursor(with, col, to) = with
        BY <1>6, <3>2
      <3> HIDE DEF to, col
      <3> QED
        BY <3>1, <3>3, Zenon
    <2> QED
      BY <2>1, <2>2, <2>3
  <1> HIDE DEF placed
  <1>10. G!GridOK(placed) /\ Framed(with, placed) /\ placed.cursor = [col |-> col, row |-> to]
    BY <1>7, <1>9
  <1>11. G!GridOK(G!Adjusted(placed)) /\ Framed(placed, G!Adjusted(placed))
         /\ G!Adjusted(placed).cursor = placed.cursor
    BY <1>10, AdjustedOK
  <1>12. [col |-> col, row |-> to].col = col /\ [col |-> col, row |-> to].row = to
    OBVIOUS
  <1> QED
    BY <1>2, <1>3, <1>4, <1>10, <1>11, <1>12 DEF Framed, sel

\* A row that leaves takes its selection with it; the cursor is left where it was.
LEMMA WithoutRowIn ==
  ASSUME NEW g \in GridRecords, Len(g.sel) = g.rows, NEW row \in 0..g.rows - 1
  PROVE  LET h == G!WithoutRow(g, row) IN
         /\ h \in GridRecords
         /\ h.cols = g.cols /\ h.rows = g.rows - 1 /\ h.cursor = g.cursor /\ h.fit = g.fit
         /\ h.sel = RemoveAt(g.sel, row + 1) /\ Len(h.sel) = g.rows - 1
  <1> DEFINE sel == RemoveAt(g.sel, row + 1)
  <1>1. sel \in Seq(BOOLEAN) /\ Len(sel) = g.rows - 1 /\ g.rows - 1 \in Nat
    <2>1. g.sel \in Seq(BOOLEAN) /\ g.rows \in Nat
      BY DEF GridRecords
    <2> DEFINE at == row + 1
    <2>2. at \in 1..Len(g.sel) /\ g.rows - 1 \in Nat
      BY <2>1
    <2> HIDE DEF at
    <2>3. RemoveAt(g.sel, at) \in Seq(BOOLEAN) /\ Len(RemoveAt(g.sel, at)) = Len(g.sel) - 1
      BY <2>1, <2>2, RemovedAt
    <2>4. RemoveAt(g.sel, at) = sel
      BY Zenon DEF at
    <2> HIDE DEF sel
    <2> QED
      BY <2>2, <2>3, <2>4
  <1>2. G!WithoutRow(g, row) = [g EXCEPT !.rows = g.rows - 1, !.sel = sel]
    BY Zenon DEF G!WithoutRow, G!RemoveAt, RemoveAt
  <1> HIDE DEF sel
  <1> QED
    BY <1>1, <1>2 DEF GridRecords, sel

-----------------------------------------------------------------------------
(* The window on the rows.                                                 *)

\* The row of the cursor is in the window, if any row is.
Shown(g) == g.fit > 0 => g.top <= g.cursor.row /\ g.cursor.row < g.top + g.fit

\* adjust_view scrolls until the cursor shows.
LEMMA AdjustedShown ==
  ASSUME NEW g \in GridRecords, g.cursor.row \in Nat
  PROVE  Shown(G!Adjusted(g))
  <1>1. g.top \in Nat /\ g.fit \in Nat /\ ~(g.top + g.fit <= g.cursor.row /\ g.top > g.cursor.row)
    BY DEF GridRecords
  <1>2. CASE g.top + g.fit <= g.cursor.row
    <2> DEFINE h == [g EXCEPT !.top = g.cursor.row - (g.fit - 1)]
    <2>1. G!Adjusted(g) = h
      BY <1>1, <1>2, Zenon DEF G!Adjusted
    <2>2. h.top = g.cursor.row - (g.fit - 1) /\ h.cursor = g.cursor /\ h.fit = g.fit
      BY DEF GridRecords
    <2> HIDE DEF h
    <2> QED
      BY <1>1, <2>1, <2>2 DEF Shown
  <1>3. CASE ~(g.top + g.fit <= g.cursor.row) /\ g.top > g.cursor.row
    <2> DEFINE h == [g EXCEPT !.top = g.cursor.row]
    <2>1. G!Adjusted(g) = h
      BY <1>3, Zenon DEF G!Adjusted
    <2>2. h.top = g.cursor.row /\ h.cursor = g.cursor /\ h.fit = g.fit
      BY DEF GridRecords
    <2> HIDE DEF h
    <2> QED
      BY <1>1, <2>1, <2>2 DEF Shown
  <1>4. CASE ~(g.top + g.fit <= g.cursor.row) /\ ~(g.top > g.cursor.row)
    <2>1. G!Adjusted(g) = g
      BY <1>4, Zenon DEF G!Adjusted
    <2> QED
      BY <1>1, <1>4, <2>1 DEF Shown
  <1> QED
    BY <1>2, <1>3, <1>4

\* Unless the cursor stays where it is, set_cursor shows it.
LEMMA CursorSetShown ==
  ASSUME NEW g \in GridRecords, NEW col \in Int, NEW row \in Int,
         Shown(g) \/ g.cursor.row \notin Nat
  PROVE  Shown(G!SetCursor(g, col, row))
  <1> DEFINE cursor == [col |-> G!Clamped(col, 0, G!AtLeast0(g.cols - 1)),
                        row |-> G!Clamped(row, 0, G!AtLeast0(g.rows - 1))]
             set == [g EXCEPT !.cursor = cursor]
  <1>1. cursor \in [col : Int, row : Int] /\ cursor.row \in Nat
    BY DEF GridRecords, G!Clamped, G!AtLeast0
  <1>2. G!SetCursor(g, col, row) = IF cursor = g.cursor THEN g ELSE G!Adjusted(set)
    BY DEF G!SetCursor
  <1> HIDE DEF cursor
  <1>3. set \in GridRecords /\ set.cursor = cursor
    BY <1>1 DEF GridRecords
  <1> HIDE DEF set
  <1>4. Shown(G!Adjusted(set))
    BY <1>1, <1>3, AdjustedShown
  <1>5. cursor = g.cursor => Shown(g)
    BY <1>1
  <1> QED
    BY <1>2, <1>4, <1>5, Zenon

LEMMA NewGridShown ==
  ASSUME NEW cols \in Nat \ {0}, NEW rows \in Nat, NEW fit \in Nat
  PROVE  Shown(G!NewGrid(cols, rows, fit))
  <1> DEFINE sel == [k \in 1..rows |-> FALSE]
             g == [cols |-> cols, rows |-> rows, sel |-> sel,
                   cursor |-> [col |-> -1, row |-> -1], top |-> 0, fit |-> fit]
  <1>1. sel \in Seq(BOOLEAN)
    OBVIOUS
  <1>2. G!NewGrid(cols, rows, fit) = G!SetCursor(g, 0, 0)
    BY DEF G!NewGrid
  <1> HIDE DEF sel
  <1>3. g \in GridRecords /\ g.cursor.row = -1
    BY <1>1 DEF GridRecords
  <1> HIDE DEF g
  <1> QED
    BY <1>2, <1>3, CursorSetShown

LEMMA CursorClampedShown ==
  ASSUME NEW g \in GridRecords
  PROVE  Shown(G!CursorClamped(g))
  <1> DEFINE set == G!SetCursor(g, g.cursor.col, g.cursor.row)
  <1>1. g.cursor.col \in Int /\ g.cursor.row \in Int
    BY DEF GridRecords
  <1>2. G!GridOK(set)
    BY <1>1, CursorSet
  <1>3. G!CursorClamped(g) = G!Adjusted(set)
    BY DEF G!CursorClamped
  <1> HIDE DEF set
  <1>4. set \in GridRecords /\ set.cursor.row \in Nat
    BY <1>2, GridOKRecord DEF G!AtLeast0
  <1> QED
    BY <1>3, <1>4, AdjustedShown

LEMMA InsertedShown ==
  ASSUME NEW g, G!GridOK(g), Len(g.sel) = g.rows, NEW row \in 0..g.rows
  PROVE  Shown(G!Inserted(g, row))
  <1> DEFINE with == [g EXCEPT !.rows = g.rows + 1, !.sel = G!InsertAt(g.sel, row + 1, FALSE)]
             col == g.cursor.col
             placed == CASE with.rows = 1 -> G!SetCursor(with, col, 0)
                         [] with.rows # 1 /\ row <= g.cursor.row ->
                               G!SetCursor(with, col, g.cursor.row + 1)
                         [] OTHER -> with
  <1>1. G!Inserted(g, row) = G!Adjusted(placed)
    BY Zenon DEF G!Inserted
  <1>2. g \in GridRecords /\ g.cursor.row \in Nat /\ g.cursor.col \in Int /\ g.rows \in Nat
    BY GridOKRecord DEF GridRecords, G!AtLeast0
  <1>3. with \in GridRecords /\ with.cursor = g.cursor
    <2> DEFINE at == row + 1
               no == FALSE
               sel == G!InsertAt(g.sel, row + 1, FALSE)
    <2>1. g.sel \in Seq(BOOLEAN)
      BY <1>2 DEF GridRecords
    <2>2. at \in 1..Len(g.sel) + 1 /\ no \in BOOLEAN
      BY <1>2
    <2>3. sel = InsertAt(g.sel, at, no)
      BY Zenon DEF G!InsertAt, InsertAt
    <2> HIDE DEF at, no, sel
    <2>4. sel \in Seq(BOOLEAN)
      BY <2>1, <2>2, <2>3, InsertExtends
    <2>5. with = [g EXCEPT !.rows = g.rows + 1, !.sel = sel]
      BY DEF sel
    <2> HIDE DEF with
    <2>6. g.rows + 1 \in Nat
      BY <1>2
    <2> QED
      BY <1>2, <2>4, <2>5, <2>6 DEF GridRecords
  <1> HIDE DEF with
  <1>4. placed \in GridRecords /\ placed.cursor.row \in Nat
    <2>1. ASSUME NEW to \in Int
          PROVE  /\ G!SetCursor(with, col, to) \in GridRecords
                 /\ G!SetCursor(with, col, to).cursor.row \in Nat
      <3>1. G!GridOK(G!SetCursor(with, col, to))
        BY <1>2, <1>3, CursorSet
      <3> QED
        BY <3>1, GridOKRecord DEF G!AtLeast0
    <2>2. CASE with.rows = 1
      <3>1. placed = G!SetCursor(with, col, 0)
        BY <2>2, Zenon
      <3> HIDE DEF placed
      <3> QED
        BY <2>1, <3>1
    <2>3. CASE with.rows # 1 /\ row <= g.cursor.row
      <3>1. placed = G!SetCursor(with, col, g.cursor.row + 1)
        BY <2>3, Zenon
      <3> HIDE DEF placed
      <3> QED
        BY <1>2, <2>1, <3>1
    <2>4. CASE with.rows # 1 /\ ~(row <= g.cursor.row)
      <3>1. placed = with
        BY <2>4, Zenon
      <3> HIDE DEF placed
      <3> QED
        BY <1>2, <1>3, <3>1
    <2> QED
      BY <2>2, <2>3, <2>4, Zenon
  <1> HIDE DEF placed
  <1> QED
    BY <1>1, <1>4, AdjustedShown

\* Another number of rows fits: reflow_impl.
LEMMA ReflowedOK ==
  ASSUME NEW g, G!GridOK(g), NEW fit \in Nat
  PROVE  LET h == G!Reflowed(g, fit) IN
         /\ G!GridOK(h) /\ Shown(h)
         /\ h.cols = g.cols /\ h.rows = g.rows /\ h.sel = g.sel /\ h.cursor = g.cursor
  <1> DEFINE with == [g EXCEPT !.fit = fit]
  <1>1. G!Reflowed(g, fit) = G!Adjusted(with)
    BY DEF G!Reflowed
  <1>2. g \in GridRecords
    BY GridOKRecord
  <1>3. /\ with \in GridRecords /\ with.cols = g.cols /\ with.rows = g.rows
        /\ with.sel = g.sel /\ with.cursor = g.cursor
    BY <1>2 DEF GridRecords
  <1> HIDE DEF with
  <1>4. G!GridOK(with)
    BY <1>3, GridOKRecord
  <1>5. with.cursor.row \in Nat
    BY <1>4, GridOKRecord DEF G!AtLeast0
  <1>6. Shown(G!Adjusted(with))
    BY <1>3, <1>5, AdjustedShown
  <1>7. /\ G!GridOK(G!Adjusted(with)) /\ Framed(with, G!Adjusted(with))
        /\ G!Adjusted(with).cursor = with.cursor
    BY <1>4, AdjustedOK
  <1> QED
    BY <1>1, <1>3, <1>6, <1>7 DEF Framed

\* Selecting leaves the window and the cursor alone.
LEMMA SelectedShown ==
  ASSUME NEW g \in GridRecords, Shown(g)
  PROVE  /\ \A enable \in BOOLEAN : Shown(G!SelectAll(g, enable))
         /\ \A row : Shown(G!SelectToggle(g, row))
  <1>1. ASSUME NEW sel
        PROVE  Shown([g EXCEPT !.sel = sel])
    BY DEF GridRecords, Shown
  <1>2. ASSUME NEW enable \in BOOLEAN PROVE Shown(G!SelectAll(g, enable))
    BY <1>1, Zenon DEF G!SelectAll
  <1>3. ASSUME NEW row PROVE Shown(G!SelectToggle(g, row))
    BY <1>1, Zenon DEF G!SelectToggle
  <1> QED
    BY <1>2, <1>3

\* The keys a grid handles itself.
LEMMA GridKeyKeeps ==
  ASSUME G!GridOK(grid), GridKey
  PROVE  /\ G!GridOK(grid') /\ grid'.cols = grid.cols /\ grid'.rows = grid.rows
         /\ Len(grid'.sel) = Len(grid.sel)
         /\ Shown(grid) => Shown(grid')
  <1>1. grid \in GridRecords
    BY GridOKRecord
  <1>2. ASSUME NEW step \in Steps, Move(step[1], step[2])
        PROVE  G!GridOK(grid') /\ Framed(grid, grid') /\ (Shown(grid) => Shown(grid'))
    <2>1. grid.cursor.col \in Int /\ grid.cursor.row \in Int /\ grid.rows \in Int
          /\ grid.fit \in Nat
      BY <1>1 DEF GridRecords
    <2>2. step[1] \in Int /\ step[2] \in Int
      BY <1>2, <2>1 DEF Steps, G!AtLeast0
    <2> DEFINE col == grid.cursor.col + step[1]
               row == grid.cursor.row + step[2]
    <2>3. col \in Int /\ row \in Int /\ grid' = G!SetCursor(grid, col, row)
      BY <1>2, <2>1, <2>2 DEF Move
    <2> HIDE DEF col, row
    <2> QED
      BY <1>1, <2>3, CursorSet, CursorSetShown
  <1>3. ASSUME NEW enable \in BOOLEAN, Select(enable)
        PROVE  G!GridOK(grid') /\ Selected(grid, grid') /\ (Shown(grid) => Shown(grid'))
    BY <1>1, <1>3, SelectedAllOK, SelectedShown DEF Select
  <1>4. ASSUME ToggleSelect
        PROVE  G!GridOK(grid') /\ Selected(grid, grid') /\ (Shown(grid) => Shown(grid'))
    BY <1>1, <1>4, SelectToggledOK, SelectedShown DEF ToggleSelect
  <1> QED
    BY <1>2, <1>3, <1>4 DEF GridKey, Framed, Selected

-----------------------------------------------------------------------------
(* The rows of the schema editor.                                          *)

RowRecords == [orig : Columns, edit : Columns, modified : SUBSET Cells]

\* ModifiedExact says this of each row of the data.
Exact(d) ==
    \A cell \in Cells :
        ~IsDeleted(d) /\ (IsInserted(d) => cell # "name") =>
            (cell \in d.modified <=> d.edit[cell] # d.orig[cell])

GoodRows == {d \in RowRecords : Exact(d)}

\* ColumnsKept says this of the data and the schema.
Kept(rows, columns) ==
    LET kept == {k \in DOMAIN rows : ~IsInserted(rows[k])} IN
    /\ {rows[k].orig : k \in kept} = Range(columns)
    /\ \A j, k \in kept : j < k => rows[j].orig.index < rows[k].orig.index

\* What Exact says, cell by cell.
LEMMA ExactCells ==
  ASSUME NEW d
  PROVE  Exact(d) <=>
           (~IsDeleted(d) =>
              /\ ~IsInserted(d) => ("name" \in d.modified <=> d.edit.name # d.orig.name)
              /\ "type" \in d.modified <=> d.edit.type # d.orig.type
              /\ "size" \in d.modified <=> d.edit.size # d.orig.size
              /\ "signed" \in d.modified <=> d.edit.signed # d.orig.signed)
  BY DEF Exact, Cells

\* Rows that are changed but for the column they stand for.
LEMMA KeptSame ==
  ASSUME NEW columns, NEW rows \in Seq(GoodRows), NEW rows2 \in Seq(GoodRows),
         Kept(rows, columns), Len(rows2) = Len(rows),
         \A k \in 1..Len(rows) : rows2[k].orig = rows[k].orig
  PROVE  Kept(rows2, columns)
  <1>1. DOMAIN rows2 = DOMAIN rows /\ DOMAIN rows = 1..Len(rows)
    OBVIOUS
  <1>2. {k \in DOMAIN rows2 : ~IsInserted(rows2[k])} = {k \in DOMAIN rows : ~IsInserted(rows[k])}
    BY <1>1 DEF IsInserted
  <1>3. {rows2[k].orig : k \in {k \in DOMAIN rows : ~IsInserted(rows[k])}}
          = {rows[k].orig : k \in {k \in DOMAIN rows : ~IsInserted(rows[k])}}
    BY <1>1
  <1> QED
    BY <1>1, <1>2, <1>3 DEF Kept

\* The map at says where in rows those of rows2 are that stand for a column; all
\* of them are, in the same order.
Places(at, rows, rows2) ==
    /\ at \in [1..Len(rows2) -> 1..Len(rows)]
    /\ \A k \in 1..Len(rows2) : ~IsInserted(rows2[k]) =>
          ~IsInserted(rows[at[k]]) /\ rows2[k].orig = rows[at[k]].orig
    /\ \A j, k \in 1..Len(rows2) :
          j < k /\ ~IsInserted(rows2[j]) /\ ~IsInserted(rows2[k]) => at[j] < at[k]
    /\ \A k \in 1..Len(rows) : ~IsInserted(rows[k]) =>
          \E j \in 1..Len(rows2) : at[j] = k /\ ~IsInserted(rows2[j])

LEMMA KeptMapped ==
  ASSUME NEW columns, NEW rows \in Seq(GoodRows), NEW rows2 \in Seq(GoodRows),
         Kept(rows, columns), NEW at, Places(at, rows, rows2)
  PROVE  Kept(rows2, columns)
  <1> DEFINE kept == {k \in DOMAIN rows : ~IsInserted(rows[k])}
             kept2 == {k \in DOMAIN rows2 : ~IsInserted(rows2[k])}
  <1>1. DOMAIN rows2 = 1..Len(rows2) /\ DOMAIN rows = 1..Len(rows)
        /\ Len(rows) \in Nat /\ Len(rows2) \in Nat
    OBVIOUS
  <1>2. \A k \in kept2 : k \in 1..Len(rows2) /\ at[k] \in kept
                         /\ rows2[k].orig = rows[at[k]].orig
    BY <1>1 DEF Places
  <1>3. \A k \in kept : \E j \in kept2 : at[j] = k
    BY <1>1 DEF Places
  <1>4. \A j, k \in kept2 : j < k => at[j] < at[k]
    BY <1>1 DEF Places
  <1>5. /\ {rows[k].orig : k \in kept} = Range(columns)
        /\ \A j, k \in kept : j < k => rows[j].orig.index < rows[k].orig.index
    BY DEF Kept
  <1> HIDE DEF kept, kept2
  <1>6. {rows2[k].orig : k \in kept2} = {rows[k].orig : k \in kept}
    <2>1. ASSUME NEW k \in kept2 PROVE rows2[k].orig \in {rows[j].orig : j \in kept}
      BY <1>2
    <2>2. ASSUME NEW k \in kept PROVE rows[k].orig \in {rows2[j].orig : j \in kept2}
      <3>1. PICK j \in kept2 : at[j] = k
        BY <1>3
      <3>2. rows2[j].orig = rows[k].orig
        BY <1>2, <3>1
      <3> QED
        BY <3>2
    <2> QED
      BY <2>1, <2>2
  <1>7. \A j, k \in kept2 : j < k => rows2[j].orig.index < rows2[k].orig.index
    BY <1>2, <1>4, <1>5
  <1> QED
    BY <1>5, <1>6, <1>7 DEF Kept, kept2

\* A row that is inserted stands for no column of the schema.
LEMMA KeptInsert ==
  ASSUME NEW columns, NEW rows \in Seq(GoodRows), Kept(rows, columns),
         NEW i \in 1..Len(rows) + 1, NEW d \in GoodRows, IsInserted(d)
  PROVE  Kept(InsertAt(rows, i, d), columns)
  <1> DEFINE rows2 == InsertAt(rows, i, d)
  <1>1. /\ rows2 \in Seq(GoodRows) /\ Len(rows2) = Len(rows) + 1
        /\ \A k \in 1..Len(rows) + 1 : rows2[k] =
              IF k < i THEN rows[k] ELSE IF k = i THEN d ELSE rows[k - 1]
    BY InsertExtends DEF Extends
  <1> HIDE DEF rows2
  <1>2. CASE Len(rows) = 0
    <2>1. i = 1 /\ Len(rows2) = 1 /\ rows2[1] = d
      BY <1>1, <1>2
    <2>2. {k \in DOMAIN rows2 : ~IsInserted(rows2[k])} = {}
      BY <1>1, <2>1
    <2>3. {k \in DOMAIN rows : ~IsInserted(rows[k])} = {}
      BY <1>2
    <2>4. Range(columns) = {}
      BY <2>3 DEF Kept
    <2> QED
      BY <2>2, <2>4 DEF Kept, rows2
  <1>3. CASE Len(rows) # 0
    <2> DEFINE at == [k \in 1..Len(rows2) |->
                        IF k < i THEN k ELSE IF k = i THEN 1 ELSE k - 1]
    <2>1. at \in [1..Len(rows2) -> 1..Len(rows)]
      BY <1>1, <1>3
    <2>2. \A k \in 1..Len(rows2) : at[k] = IF k < i THEN k ELSE IF k = i THEN 1 ELSE k - 1
      OBVIOUS
    <2> HIDE DEF at
    <2>3. \A k \in 1..Len(rows2) : ~IsInserted(rows2[k]) => k # i
      BY <1>1
    <2>4. \A k \in 1..Len(rows2) : k # i => rows2[k] = rows[at[k]]
      BY <1>1, <2>2
    <2>5. \A k \in 1..Len(rows2) : ~IsInserted(rows2[k]) =>
             ~IsInserted(rows[at[k]]) /\ rows2[k].orig = rows[at[k]].orig
      BY <2>3, <2>4
    <2>6. \A j, k \in 1..Len(rows2) :
             j < k /\ ~IsInserted(rows2[j]) /\ ~IsInserted(rows2[k]) => at[j] < at[k]
      BY <1>1, <2>2, <2>3
    <2>7. \A k \in 1..Len(rows) : ~IsInserted(rows[k]) =>
             \E j \in 1..Len(rows2) : at[j] = k /\ ~IsInserted(rows2[j])
      <3> SUFFICES ASSUME NEW k \in 1..Len(rows), ~IsInserted(rows[k])
                   PROVE  \E j \in 1..Len(rows2) : at[j] = k /\ ~IsInserted(rows2[j])
        OBVIOUS
      <3> DEFINE j == IF k < i THEN k ELSE k + 1
      <3>1. j \in 1..Len(rows2) /\ j # i /\ at[j] = k
        BY <1>1, <2>2
      <3>2. rows2[j] = rows[k]
        BY <2>4, <3>1
      <3> QED
        BY <3>1, <3>2
    <2>8. Kept(rows2, columns)
      <3>1. Places(at, rows, rows2)
        BY <2>1, <2>5, <2>6, <2>7 DEF Places
      <3> QED
        BY <1>1, <3>1, KeptMapped
    <2> QED
      BY <2>8 DEF rows2
  <1> QED
    BY <1>2, <1>3

\* Nor does one that content_erase lets go.
LEMMA KeptRemove ==
  ASSUME NEW columns, NEW rows \in Seq(GoodRows), Kept(rows, columns),
         NEW i \in 1..Len(rows), IsInserted(rows[i])
  PROVE  Kept(RemoveAt(rows, i), columns)
  <1> DEFINE rows2 == RemoveAt(rows, i)
  <1>1. /\ rows2 \in Seq(GoodRows) /\ Len(rows2) = Len(rows) - 1
        /\ \A k \in 1..Len(rows) - 1 : rows2[k] = IF k < i THEN rows[k] ELSE rows[k + 1]
    BY RemovedAt
  <1> HIDE DEF rows2
  <1> DEFINE at == [k \in 1..Len(rows2) |-> IF k < i THEN k ELSE k + 1]
  <1>2. at \in [1..Len(rows2) -> 1..Len(rows)]
    BY <1>1
  <1>3. \A k \in 1..Len(rows2) : at[k] = IF k < i THEN k ELSE k + 1
    OBVIOUS
  <1> HIDE DEF at
  <1>4. \A k \in 1..Len(rows2) : rows2[k] = rows[at[k]]
    BY <1>1, <1>3
  <1>5. \A k \in 1..Len(rows2) : ~IsInserted(rows2[k]) =>
           ~IsInserted(rows[at[k]]) /\ rows2[k].orig = rows[at[k]].orig
    BY <1>4
  <1>6. \A j, k \in 1..Len(rows2) :
           j < k /\ ~IsInserted(rows2[j]) /\ ~IsInserted(rows2[k]) => at[j] < at[k]
    BY <1>1, <1>3
  <1>7. \A k \in 1..Len(rows) : ~IsInserted(rows[k]) =>
           \E j \in 1..Len(rows2) : at[j] = k /\ ~IsInserted(rows2[j])
    <2> SUFFICES ASSUME NEW k \in 1..Len(rows), ~IsInserted(rows[k])
                 PROVE  \E j \in 1..Len(rows2) : at[j] = k /\ ~IsInserted(rows2[j])
      OBVIOUS
    <2> DEFINE j == IF k < i THEN k ELSE k - 1
    <2>1. k # i
      OBVIOUS
    <2>2. j \in 1..Len(rows2) /\ at[j] = k
      BY <1>1, <1>3, <2>1
    <2>3. rows2[j] = rows[k]
      BY <1>4, <2>2
    <2> QED
      BY <2>2, <2>3
  <1>8. Kept(rows2, columns)
    <2>1. Places(at, rows, rows2)
      BY <1>2, <1>5, <1>6, <1>7 DEF Places
    <2> QED
      BY <1>1, <2>1, KeptMapped
  <1> QED
    BY <1>8 DEF rows2

\* The rows of a schema, as make and reset have them.
LEMMA RowsOfSchema ==
  ASSUME NEW columns \in Seq(Columns), \A k \in DOMAIN columns : columns[k].index = k - 1
  PROVE  /\ RowsOf(columns) \in Seq(GoodRows)
         /\ Len(RowsOf(columns)) = Len(columns)
         /\ Kept(RowsOf(columns), columns)
  <1> DEFINE rows == RowsOf(columns)
  <1>1. DOMAIN columns = 1..Len(columns) /\ Len(columns) \in Nat
    OBVIOUS
  <1>2. \A k \in DOMAIN columns : columns[k] \in Columns
    OBVIOUS
  <1>3. /\ DOMAIN rows = DOMAIN columns
        /\ \A k \in DOMAIN columns :
              rows[k] = [orig |-> columns[k], edit |-> columns[k], modified |-> {}]
    BY DEF RowsOf
  <1>4. rows = [k \in DOMAIN columns |-> rows[k]]
    BY <1>3 DEF RowsOf
  <1> HIDE DEF rows
  <1>5. \A k \in DOMAIN columns :
           rows[k] \in RowRecords /\ rows[k].orig = columns[k] /\ Exact(rows[k])
    BY <1>2, <1>3 DEF RowRecords, Exact
  <1>6. \A k \in DOMAIN columns : rows[k] \in GoodRows
    BY <1>5 DEF GoodRows
  <1>7. rows \in Seq(GoodRows) /\ Len(rows) = Len(columns)
    BY <1>1, <1>3, <1>4, <1>6
  <1>8. \A k \in DOMAIN columns : ~IsInserted(rows[k])
    BY <1>1, <1>5 DEF IsInserted, NoIndex
  <1>9. {k \in DOMAIN rows : ~IsInserted(rows[k])} = DOMAIN columns
    BY <1>3, <1>8
  <1>10. {rows[k].orig : k \in DOMAIN columns} = Range(columns)
    BY <1>5 DEF Range
  <1>11. \A j, k \in DOMAIN columns : j < k => rows[j].orig.index < rows[k].orig.index
    BY <1>1, <1>5
  <1>12. Kept(rows, columns)
    BY <1>9, <1>10, <1>11 DEF Kept
  <1> QED
    BY <1>7, <1>12 DEF rows

\* The type, size or sign of a row that is displayed takes its next value: the
\* marks are exact also where a sign is dropped that is not at the cursor.
LEMMA StepValueGood ==
  ASSUME NEW d \in GoodRows, ~IsDeleted(d), NEW col \in {2, 3, 4}
  PROVE  StepValue(d, col) \in GoodRows /\ StepValue(d, col).orig = d.orig
  <1> DEFINE cell == CellAt(col)
             next == Stepped(d.edit, col)
             marked == Marked(d.modified, cell, next[cell] # d.orig[cell])
             after == StepValue(d, col)
  <1>1. /\ d \in RowRecords /\ d.edit \in Columns /\ d.orig \in Columns
        /\ d.modified \in SUBSET Cells /\ Exact(d)
    BY DEF GoodRows, RowRecords
  <1>2. d.edit.type \in 0..LastType /\ d.edit.size \in 0..LastSize /\ d.edit.signed \in BOOLEAN
    BY <1>1 DEF Columns
  <1>3. /\ (d.edit.type + 1) % (LastType + 1) \in 0..LastType
        /\ (d.edit.size + 1) % (LastSize + 1) \in 0..LastSize
    BY <1>2, SchemaEditorAssumption
  <1>4. \/ /\ cell = "type"
           /\ next = [d.edit EXCEPT !.type = (d.edit.type + 1) % (LastType + 1)]
        \/ /\ cell = "size"
           /\ next = [d.edit EXCEPT !.size = (d.edit.size + 1) % (LastSize + 1)]
        \/ cell = "signed" /\ next = [d.edit EXCEPT !.signed = ~d.edit.signed]
    <2>1. CASE col = 2
      <3>1. cell = "type"
        BY <2>1 DEF CellAt
      <3>2. next = [d.edit EXCEPT !.type = (d.edit.type + 1) % (LastType + 1)]
        <4>1. col = 2 /\ col # 3 /\ col # 4
          BY <2>1
        <4> QED
          BY <4>1, Zenon DEF Stepped
      <3> QED
        BY <3>1, <3>2
    <2>2. CASE col = 3
      <3>1. cell = "size"
        BY <2>2 DEF CellAt
      <3>2. next = [d.edit EXCEPT !.size = (d.edit.size + 1) % (LastSize + 1)]
        <4>1. col = 3 /\ col # 2 /\ col # 4
          BY <2>2
        <4> QED
          BY <4>1, Zenon DEF Stepped
      <3> QED
        BY <3>1, <3>2
    <2>3. CASE col = 4
      <3>1. cell = "signed"
        BY <2>3 DEF CellAt
      <3>2. next = [d.edit EXCEPT !.signed = ~d.edit.signed]
        <4>1. col = 4 /\ col # 2 /\ col # 3
          BY <2>3
        <4> QED
          BY <4>1, Zenon DEF Stepped
      <3> QED
        BY <3>1, <3>2
    <2> QED
      BY <2>1, <2>2, <2>3
  <1>5. after = IF next.type # Integer /\ next.signed
                THEN [d EXCEPT !.edit = [next EXCEPT !.signed = FALSE],
                               !.modified = Marked(marked, "signed", d.orig.signed)]
                ELSE [d EXCEPT !.edit = next, !.modified = marked]
    BY Zenon DEF StepValue
  <1> HIDE DEF cell, next, marked, after
  <1>6. next \in Columns /\ next.index = d.edit.index
    BY <1>1, <1>2, <1>3, <1>4 DEF Columns
  <1>7. cell \in Cells /\ marked \in SUBSET Cells
    BY <1>1, <1>4 DEF Cells, Marked, marked
  <1>8. \A c \in {"type", "size", "signed"} : c \in marked <=> next[c] # d.orig[c]
    BY <1>1, <1>4, ExactCells DEF Marked, marked, Columns
  <1>9. ~IsInserted(d) => ("name" \in marked <=> next.name # d.orig.name)
    BY <1>1, <1>4, ExactCells DEF Marked, marked, Columns
  <1>10. CASE next.type # Integer /\ next.signed
    <2> DEFINE edit == [next EXCEPT !.signed = FALSE]
               modified == Marked(marked, "signed", d.orig.signed)
    <2>1. after = [d EXCEPT !.edit = edit, !.modified = modified]
      BY <1>5, <1>10, Zenon
    <2>2. edit \in Columns /\ edit.index = d.edit.index
          /\ edit.name = next.name /\ edit.type = next.type /\ edit.size = next.size
          /\ edit.signed = FALSE
      BY <1>6 DEF Columns
    <2>3. d.orig.signed \in BOOLEAN
      BY <1>1 DEF Columns
    <2>4. modified \in SUBSET Cells /\ ("signed" \in modified <=> d.orig.signed)
          /\ \A c \in {"name", "type", "size"} : c \in modified <=> c \in marked
      BY <1>7, <2>3 DEF Marked, Cells
    <2> HIDE DEF edit, modified
    <2>5. after \in RowRecords /\ after.orig = d.orig /\ after.edit = edit
          /\ after.modified = modified
      BY <1>1, <2>1, <2>2, <2>4 DEF RowRecords
    <2>6. (IsDeleted(after) <=> IsDeleted(d)) /\ (IsInserted(after) <=> IsInserted(d))
      BY <2>2, <2>5 DEF IsDeleted, IsInserted
    <2>7. after.edit.signed # after.orig.signed <=> d.orig.signed
      BY <2>2, <2>3, <2>5
    <2>8. Exact(after)
      BY <1>8, <1>9, <2>2, <2>4, <2>5, <2>6, <2>7, ExactCells
    <2> QED
      BY <2>5, <2>8 DEF GoodRows, after
  <1>11. CASE ~(next.type # Integer /\ next.signed)
    <2>1. after = [d EXCEPT !.edit = next, !.modified = marked]
      BY <1>5, <1>11, Zenon
    <2>2. after \in RowRecords /\ after.orig = d.orig /\ after.edit = next
          /\ after.modified = marked
      BY <1>1, <1>6, <1>7, <2>1 DEF RowRecords
    <2>3. (IsDeleted(after) <=> IsDeleted(d)) /\ (IsInserted(after) <=> IsInserted(d))
      BY <1>6, <2>2 DEF IsDeleted, IsInserted
    <2>4. Exact(after)
      BY <1>8, <1>9, <2>2, <2>3, ExactCells
    <2> QED
      BY <2>2, <2>4 DEF GoodRows, after
  <1> QED
    BY <1>10, <1>11

\* A name that is accepted is marked if it is not the one of the schema.
LEMMA NamedGood ==
  ASSUME NEW d \in GoodRows, NEW name \in CellNames
  PROVE  LET after == [d EXCEPT !.edit.name = name,
                                !.modified = Marked(d.modified, "name", name # d.orig.name)]
         IN after \in GoodRows /\ after.orig = d.orig
  <1> DEFINE edit == [d.edit EXCEPT !.name = name]
             marked == Marked(d.modified, "name", name # d.orig.name)
             after == [d EXCEPT !.edit.name = name, !.modified = marked]
  <1>1. /\ d \in RowRecords /\ d.edit \in Columns /\ d.orig \in Columns
        /\ d.modified \in SUBSET Cells /\ Exact(d)
    BY DEF GoodRows, RowRecords
  <1>2. edit \in Columns /\ edit.index = d.edit.index /\ edit.name = name
        /\ edit.type = d.edit.type /\ edit.size = d.edit.size /\ edit.signed = d.edit.signed
    BY <1>1 DEF Columns
  <1>3. marked \in SUBSET Cells /\ ("name" \in marked <=> name # d.orig.name)
        /\ \A c \in {"type", "size", "signed"} : c \in marked <=> c \in d.modified
    BY <1>1 DEF Marked, Cells
  <1>4. after = [d EXCEPT !.edit = edit, !.modified = marked]
    BY <1>1 DEF RowRecords
  <1> HIDE DEF edit, marked, after
  <1>5. after \in RowRecords /\ after.orig = d.orig /\ after.edit = edit
        /\ after.modified = marked
    BY <1>1, <1>2, <1>3, <1>4 DEF RowRecords
  <1>6. (IsDeleted(after) <=> IsDeleted(d)) /\ (IsInserted(after) <=> IsInserted(d))
    BY <1>2, <1>5 DEF IsDeleted, IsInserted
  <1>7. Exact(after)
    BY <1>1, <1>2, <1>3, <1>5, <1>6, ExactCells
  <1> QED
    BY <1>5, <1>7 DEF GoodRows, after, marked

\* A row that is restored is as the schema has it.
LEMMA RestoredGood ==
  ASSUME NEW d \in GoodRows
  PROVE  LET after == [d EXCEPT !.edit = d.orig, !.modified = {}]
         IN after \in GoodRows /\ after.orig = d.orig
  <1> DEFINE after == [d EXCEPT !.edit = d.orig, !.modified = {}]
  <1>1. d \in RowRecords
    BY DEF GoodRows
  <1>2. after \in RowRecords /\ after.orig = d.orig /\ after.edit = d.orig
        /\ after.modified = {}
    BY <1>1 DEF RowRecords
  <1> HIDE DEF after
  <1>3. Exact(after)
    BY <1>2, ExactCells
  <1> QED
    BY <1>2, <1>3 DEF GoodRows, after

-----------------------------------------------------------------------------
(* Erasing.                                                                *)

\* What the erasing operations work on, between two of their turns: the cursor
\* may be below the last row.
WorkStates == [data : Seq(GoodRows), grid : GridRecords, index : Nat]

\* The data and the grid agree, and the columns are those of the schema.
Whole(s, columns) ==
    /\ s \in WorkStates
    /\ s.grid.rows = Len(s.data) /\ Len(s.grid.sel) = Len(s.data)
    /\ Kept(s.data, columns)

\* A turn leaves what the window and the cursor are as it was.
SameFrame(s, t) ==
    t.grid.cols = s.grid.cols /\ t.grid.fit = s.grid.fit /\ t.grid.cursor = s.grid.cursor

\* The row goes, or stays and is marked as erased; either way it is not selected.
LEMMA ErasedWhole ==
  ASSUME NEW columns, NEW s, Whole(s, columns), NEW row \in 0..s.grid.rows - 1
  PROVE  LET t == Erased(s, row) IN
         /\ Whole(t, columns) /\ SameFrame(s, t) /\ t.index = s.index
         /\ \/ t.grid.rows = s.grid.rows - 1
            \/ t.grid.rows = s.grid.rows /\ ~t.grid.sel[row + 1]
         /\ \A k \in 1..row : t.grid.sel[k] = s.grid.sel[k]
  <1> DEFINE d == s.data[row + 1]
             t == Erased(s, row)
  <1>1. s.data \in Seq(GoodRows) /\ s.grid \in GridRecords /\ s.index \in Nat
        /\ s.grid.rows = Len(s.data) /\ Len(s.grid.sel) = Len(s.data)
        /\ Kept(s.data, columns) /\ s \in WorkStates
    BY DEF Whole, WorkStates
  <1>2. s.grid.rows \in Nat /\ s.grid.sel \in Seq(BOOLEAN)
    BY <1>1 DEF GridRecords
  <1> DEFINE at == row + 1
  <1>3. at \in 1..Len(s.data) /\ row \in Nat /\ d = s.data[at] /\ at = row + 1
    BY <1>1, <1>2
  <1>4. d \in GoodRows
    BY <1>1, <1>3
  <1>5. CASE IsInserted(d)
    <2> DEFINE rows == RemoveAt(s.data, row + 1)
               g == G!WithoutRow(s.grid, row)
    <2>1. t = [s EXCEPT !.data = rows, !.grid = g]
      BY <1>5, Zenon DEF Erased
    <2>2. rows \in Seq(GoodRows) /\ Len(rows) = Len(s.data) - 1 /\ Kept(rows, columns)
      <3> HIDE DEF at, d
      <3>1. /\ RemoveAt(s.data, at) \in Seq(GoodRows)
            /\ Len(RemoveAt(s.data, at)) = Len(s.data) - 1
        BY <1>1, <1>3, RemovedAt
      <3>2. Kept(RemoveAt(s.data, at), columns)
        BY <1>1, <1>3, <1>5, KeptRemove
      <3> QED
        BY <1>3, <3>1, <3>2
    <2>3. /\ g \in GridRecords
          /\ g.cols = s.grid.cols /\ g.rows = s.grid.rows - 1 /\ g.cursor = s.grid.cursor
          /\ g.fit = s.grid.fit
          /\ g.sel = RemoveAt(s.grid.sel, row + 1) /\ Len(g.sel) = s.grid.rows - 1
      BY <1>1, WithoutRowIn
    <2>4. \A k \in 1..row : g.sel[k] = s.grid.sel[k]
      <3> HIDE DEF at, g
      <3>1. at \in 1..Len(s.grid.sel)
        BY <1>1, <1>3
      <3>2. \A k \in 1..Len(s.grid.sel) - 1 : RemoveAt(s.grid.sel, at)[k] =
               IF k < at THEN s.grid.sel[k] ELSE s.grid.sel[k + 1]
        BY <1>2, <3>1, RemovedAt
      <3>3. g.sel = RemoveAt(s.grid.sel, at)
        BY <1>3, <2>3
      <3>4. ASSUME NEW k \in 1..row PROVE g.sel[k] = s.grid.sel[k]
        <4>1. k \in 1..Len(s.grid.sel) - 1 /\ k < at
          BY <1>1, <1>2, <1>3
        <4> QED
          BY <3>2, <3>3, <4>1, Zenon
      <3> QED
        BY <3>4
    <2> HIDE DEF rows, g, d
    <2>5. t \in WorkStates /\ t.data = rows /\ t.grid = g /\ t.index = s.index
      BY <1>1, <2>1, <2>2, <2>3 DEF WorkStates
    <2> HIDE DEF t
    <2>6. Whole(t, columns) /\ SameFrame(s, t)
      BY <1>1, <2>2, <2>3, <2>5 DEF Whole, SameFrame
    <2> QED
      BY <2>3, <2>4, <2>5, <2>6 DEF t
  <1>6. CASE ~IsInserted(d)
    <2> DEFINE e == [d EXCEPT !.edit = [d.orig EXCEPT !.index = NoIndex]]
               rows == [s.data EXCEPT ![row + 1] = e]
               sel == [s.grid.sel EXCEPT ![row + 1] = FALSE]
               g == [s.grid EXCEPT !.sel = sel]
    <2>1. t = [s EXCEPT !.data = rows, !.grid = g]
      <3>1. t = [s EXCEPT !.data[row + 1].edit = [d.orig EXCEPT !.index = NoIndex],
                          !.grid.sel[row + 1] = FALSE]
        BY <1>6, Zenon DEF Erased
      <3> QED
        BY <1>1, <1>3, <3>1 DEF WorkStates, GridRecords
    <2>2. e \in GoodRows /\ e.orig = d.orig
      <3>1. d \in RowRecords /\ d.orig \in Columns
        BY <1>4 DEF GoodRows, RowRecords
      <3>2. [d.orig EXCEPT !.index = NoIndex] \in Columns
            /\ [d.orig EXCEPT !.index = NoIndex].index = NoIndex
        BY <3>1 DEF Columns
      <3>3. e \in RowRecords /\ e.orig = d.orig /\ e.edit.index = NoIndex
        BY <3>1, <3>2 DEF RowRecords
      <3>4. IsDeleted(e)
        BY <1>6, <3>3 DEF IsDeleted, IsInserted
      <3>5. Exact(e)
        BY <3>4, ExactCells
      <3> QED
        BY <3>3, <3>5 DEF GoodRows
    <2> HIDE DEF e, d
    <2>3. rows \in Seq(GoodRows) /\ Len(rows) = Len(s.data)
          /\ \A k \in 1..Len(s.data) : rows[k].orig = s.data[k].orig
      BY <1>1, <1>3, <2>2
    <2>4. sel \in Seq(BOOLEAN) /\ Len(sel) = Len(s.grid.sel) /\ ~sel[row + 1]
          /\ \A k \in 1..row : sel[k] = s.grid.sel[k]
      <3>1. row + 1 \in DOMAIN s.grid.sel
        BY <1>1, <1>2, <1>3
      <3>2. sel \in Seq(BOOLEAN) /\ Len(sel) = Len(s.grid.sel)
        BY <1>2, <3>1
      <3>3. ~sel[row + 1]
        BY <3>1, Zenon
      <3>4. ASSUME NEW k \in 1..row PROVE sel[k] = s.grid.sel[k]
        <4>1. k # row + 1 /\ k \in DOMAIN s.grid.sel
          BY <1>1, <1>2, <1>3
        <4> QED
          BY <4>1, Zenon
      <3> QED
        BY <3>2, <3>3, <3>4
    <2> HIDE DEF rows, sel
    <2>5. g \in GridRecords
          /\ g.cols = s.grid.cols /\ g.rows = s.grid.rows /\ g.cursor = s.grid.cursor
          /\ g.fit = s.grid.fit /\ g.sel = sel
      BY <1>1, <2>4 DEF GridRecords
    <2>6. Kept(rows, columns)
      BY <1>1, <2>3, KeptSame
    <2> HIDE DEF g
    <2>7. t \in WorkStates /\ t.data = rows /\ t.grid = g /\ t.index = s.index
      BY <1>1, <2>1, <2>3, <2>5 DEF WorkStates
    <2> HIDE DEF t
    <2>8. Whole(t, columns) /\ SameFrame(s, t)
      BY <1>1, <2>3, <2>4, <2>5, <2>6, <2>7 DEF Whole, SameFrame
    <2> QED
      BY <2>4, <2>5, <2>7, <2>8 DEF t
  <1> QED
    BY <1>5, <1>6

\* The rows before the index are not selected any more.
Passed(s) == s.index <= s.grid.rows /\ \A k \in 1..s.index : ~s.grid.sel[k]

LEMMA TurnWhole ==
  ASSUME NEW columns, NEW s, Whole(s, columns), Passed(s), s.index < s.grid.rows
  PROVE  LET t == EraseTurn(s) IN
         /\ Whole(t, columns) /\ SameFrame(s, t) /\ Passed(t)
         /\ t.grid.rows - t.index = s.grid.rows - s.index - 1
  <1> DEFINE row == s.index
             after == IF s.grid.sel[s.index + 1] THEN Erased(s, s.index) ELSE s
             t == EraseTurn(s)
  <1>1. row \in 0..s.grid.rows - 1 /\ s.grid.rows \in Nat /\ s.index \in Nat
    BY DEF Whole, WorkStates, GridRecords
  <1>2. /\ Whole(after, columns) /\ SameFrame(s, after) /\ after.index = s.index
        /\ \/ after.grid.rows = s.grid.rows - 1
           \/ after.grid.rows = s.grid.rows /\ ~after.grid.sel[s.index + 1]
        /\ \A k \in 1..s.index : after.grid.sel[k] = s.grid.sel[k]
    <2>1. CASE s.grid.sel[s.index + 1]
      <3>1. after = Erased(s, s.index)
        BY <2>1, Zenon
      <3> HIDE DEF after
      <3>2. /\ Whole(Erased(s, row), columns) /\ SameFrame(s, Erased(s, row))
            /\ Erased(s, row).index = s.index
            /\ \/ Erased(s, row).grid.rows = s.grid.rows - 1
               \/ Erased(s, row).grid.rows = s.grid.rows /\ ~Erased(s, row).grid.sel[row + 1]
            /\ \A k \in 1..row : Erased(s, row).grid.sel[k] = s.grid.sel[k]
        BY <1>1, ErasedWhole
      <3> QED
        BY <3>1, <3>2, Zenon
    <2>2. CASE ~s.grid.sel[s.index + 1]
      <3>1. after = s
        BY <2>2, Zenon
      <3> HIDE DEF after
      <3> QED
        BY <2>2, <3>1 DEF SameFrame
    <2> QED
      BY <2>1, <2>2
  <1>3. t = IF after.grid.rows < s.grid.rows THEN after
            ELSE [after EXCEPT !.index = after.index + 1]
    BY Zenon DEF EraseTurn
  <1> HIDE DEF after
  <1>4. \A k \in 1..s.index : ~after.grid.sel[k]
    BY <1>2, Zenon DEF Passed
  <1>5. CASE after.grid.rows = s.grid.rows - 1
    <2>1. t = after
      BY <1>1, <1>3, <1>5
    <2> HIDE DEF t
    <2>2. Passed(t)
      BY <1>1, <1>2, <1>4, <1>5, <2>1 DEF Passed
    <2>3. t.grid.rows - t.index = s.grid.rows - s.index - 1
      BY <1>1, <1>2, <1>5, <2>1
    <2> QED
      BY <1>2, <2>1, <2>2, <2>3 DEF t
  <1>6. CASE after.grid.rows = s.grid.rows /\ ~after.grid.sel[s.index + 1]
    <2>1. t = [after EXCEPT !.index = s.index + 1]
      BY <1>1, <1>2, <1>3, <1>6
    <2> HIDE DEF t
    <2>2. after \in WorkStates
      BY <1>2 DEF Whole
    <2>3. t \in WorkStates /\ t.data = after.data /\ t.grid = after.grid /\ t.index = s.index + 1
      BY <1>1, <2>1, <2>2 DEF WorkStates
    <2>4. Whole(t, columns) /\ SameFrame(s, t)
      BY <1>2, <2>3 DEF Whole, SameFrame
    <2>5. Passed(t)
      <3>1. t.index <= t.grid.rows
        BY <1>1, <1>6, <2>3
      <3>2. ASSUME NEW k \in 1..t.index PROVE ~t.grid.sel[k]
        <4>1. k \in 1..s.index \/ k = s.index + 1
          BY <1>1, <2>3
        <4> QED
          BY <1>4, <1>6, <2>3, <4>1, Zenon
      <3> QED
        BY <3>1, <3>2 DEF Passed
    <2>6. t.grid.rows - t.index = s.grid.rows - s.index - 1
      BY <1>1, <1>6, <2>3
    <2> QED
      BY <2>4, <2>5, <2>6 DEF t
  <1> QED
    BY <1>2, <1>5, <1>6

\* The states the loop goes through.
Turns(f, s, n) ==
    f = [k \in 0..n |-> IF k = 0 THEN s ELSE EraseTurn(f[k - 1])]

LEMMA TurnsDefined ==
  ASSUME NEW s, NEW n \in Nat
  PROVE  \E f : Turns(f, s, n)
  <1> DEFINE T == {m \in Nat : \E f : Turns(f, s, m)}
  <1>1. 0 \in T
    <2> DEFINE f == [k \in 0..0 |-> s]
    <2>1. Turns(f, s, 0)
      BY DEF Turns
    <2> QED
      BY <2>1
  <1>2. ASSUME NEW m \in T PROVE m + 1 \in T
    <2>1. PICK f : Turns(f, s, m)
      OBVIOUS
    <2>2. m \in Nat
      OBVIOUS
    <2> DEFINE h == [k \in 0..m + 1 |-> IF k = 0 THEN s ELSE EraseTurn(f[k - 1])]
    <2>3. \A k \in 0..m : f[k] = IF k = 0 THEN s ELSE EraseTurn(f[k - 1])
      <3>1. f = [k \in 0..m |-> IF k = 0 THEN s ELSE EraseTurn(f[k - 1])]
        BY <2>1 DEF Turns
      <3> QED
        BY <3>1
    <2>4. \A k \in 0..m : h[k] = f[k]
      BY <2>2, <2>3
    <2>5. \A k \in 0..m + 1 : k # 0 => k - 1 \in 0..m
      BY <2>2
    <2>6. Turns(h, s, m + 1)
      <3>1. \A k \in 0..m + 1 : (IF k = 0 THEN s ELSE EraseTurn(f[k - 1]))
                                 = IF k = 0 THEN s ELSE EraseTurn(h[k - 1])
        BY <2>4, <2>5
      <3>2. h = [k \in 0..m + 1 |-> IF k = 0 THEN s ELSE EraseTurn(h[k - 1])]
        BY <3>1
      <3> QED
        BY <3>2 DEF Turns
    <2> QED
      BY <2>2, <2>6
  <1>3. T = Nat
    <2> HIDE DEF T
    <2>1. T \in SUBSET Nat
      BY DEF T
    <2> QED
      BY <1>1, <1>2, <2>1, Induction
  <1> QED
    BY <1>3

\* The loop of erase_selected ends with no row selected: as many turns as there
\* were rows bring the index to the end, whether rows left or stayed.
LEMMA LoopWhole ==
  ASSUME NEW columns, NEW s, Whole(s, columns), s.index = 0
  PROVE  LET t == EraseLoop(s) IN
         /\ Whole(t, columns) /\ SameFrame(s, t)
         /\ \A k \in DOMAIN t.grid.sel : ~t.grid.sel[k]
  <1> DEFINE n == s.grid.rows
             Reached(t, k) == /\ Whole(t, columns) /\ SameFrame(s, t) /\ Passed(t)
                              /\ t.grid.rows - t.index = n - k
  <1>1. n \in Nat
    BY DEF Whole, WorkStates, GridRecords
  <1> DEFINE turns == CHOOSE f : Turns(f, s, n)
  <1>2. EraseLoop(s) = turns[n]
    BY Zenon DEF EraseLoop, Turns
  <1>3. Turns(turns, s, n)
    BY <1>1, TurnsDefined, Zenon
  <1> HIDE DEF turns
  <1>4. /\ turns[0] = s
        /\ \A k \in 1..n : turns[k] = EraseTurn(turns[k - 1])
    <2>1. turns = [k \in 0..n |-> IF k = 0 THEN s ELSE EraseTurn(turns[k - 1])]
      BY <1>3 DEF Turns
    <2> HIDE DEF n
    <2> QED
      BY <1>1, <2>1
  <1> DEFINE T == {k \in Nat : k <= n => Reached(turns[k], k)}
  <1>5. 0 \in T
    <2>1. SameFrame(s, s)
      BY DEF SameFrame
    <2>2. Passed(s)
      BY <1>1 DEF Passed
    <2>3. s.grid.rows - s.index = n - 0
      OBVIOUS
    <2> QED
      BY <1>4, <2>1, <2>2, <2>3
  <1>6. ASSUME NEW k \in T PROVE k + 1 \in T
    <2>1. k \in Nat
      OBVIOUS
    <2> SUFFICES ASSUME k + 1 <= n PROVE Reached(turns[k + 1], k + 1)
      BY <2>1
    <2> DEFINE t == turns[k]
    <2>2. Reached(t, k)
      BY <1>1, <2>1
    <2>3. turns[k + 1] = EraseTurn(t)
      <3>1. k + 1 \in 1..n /\ (k + 1) - 1 = k
        BY <1>1, <2>1
      <3> QED
        BY <1>4, <3>1
    <2>4. t.grid.rows \in Nat /\ t.index \in Nat
      BY <2>2 DEF Whole, WorkStates, GridRecords
    <2>5. t.index < t.grid.rows
      BY <1>1, <2>1, <2>2, <2>4
    <2> HIDE DEF t, n
    <2>6. /\ Whole(EraseTurn(t), columns) /\ SameFrame(t, EraseTurn(t)) /\ Passed(EraseTurn(t))
          /\ EraseTurn(t).grid.rows - EraseTurn(t).index = t.grid.rows - t.index - 1
      BY <2>2, <2>5, TurnWhole
    <2>7. SameFrame(s, EraseTurn(t))
      BY <2>2, <2>6 DEF SameFrame
    <2>8. t.grid.rows - t.index - 1 = n - (k + 1)
      BY <1>1, <2>1, <2>2, <2>4
    <2> QED
      BY <2>3, <2>6, <2>7, <2>8
  <1>7. T = Nat
    <2> HIDE DEF T
    <2>1. T \in SUBSET Nat
      BY DEF T
    <2> QED
      BY <1>5, <1>6, <2>1, Induction
  <1> DEFINE t == turns[n]
  <1>8. Reached(t, n)
    BY <1>1, <1>7
  <1>9. t.grid.rows \in Nat /\ t.index \in Nat /\ t.grid.sel \in Seq(BOOLEAN)
        /\ Len(t.grid.sel) = t.grid.rows
    BY <1>8 DEF Whole, WorkStates, GridRecords
  <1>10. t.index = t.grid.rows
    BY <1>1, <1>8, <1>9
  <1> HIDE DEF t
  <1>11. \A k \in DOMAIN t.grid.sel : ~t.grid.sel[k]
    <2>1. DOMAIN t.grid.sel = 1..t.index
      BY <1>9, <1>10
    <2>2. \A k \in 1..t.index : ~t.grid.sel[k]
      BY <1>8 DEF Passed
    <2> QED
      BY <2>1, <2>2, Zenon
  <1> QED
    BY <1>2, <1>8, <1>11, Zenon DEF t

-----------------------------------------------------------------------------
(* The inductive invariant of the schema editor.                           *)

\* Resetting gives back the rows of the schema in order because its columns are
\* numbered by their place; an accepted name is marked as one because the field
\* is open only over a name.
IInv ==
    /\ schema \in Seq(Columns) /\ \A k \in DOMAIN schema : schema[k].index = k - 1
    /\ data \in Seq(GoodRows) /\ Kept(data, schema)
    /\ G!GridOK(grid) /\ grid.cols = 5
    /\ grid.rows = Len(data) /\ Len(grid.sel) = Len(data)
    /\ control \in BOOLEAN
    /\ control => data # <<>> /\ grid.cursor.col = 1

\* The invariant holds what the run checks.
LEMMA IInvImplies ==
  ASSUME IInv
  PROVE  TypeOK /\ SizesAgree /\ ColumnsKept /\ ModifiedExact
  <1>1. data \in Seq(RowRecords) /\ \A k \in DOMAIN data : Exact(data[k])
    BY DEF IInv, GoodRows
  <1>2. TypeOK
    BY <1>1 DEF IInv, TypeOK, RowRecords
  <1>3. SizesAgree
    BY DEF IInv, SizesAgree
  <1>4. ColumnsKept
    BY DEF IInv, Kept, ColumnsKept
  <1>5. ModifiedExact
    BY <1>1 DEF Exact, ModifiedExact
  <1> QED
    BY <1>2, <1>3, <1>4, <1>5

\* Where there are rows the cursor is on one.
LEMMA CursorOnRow ==
  ASSUME IInv, data # <<>>
  PROVE  /\ grid.cursor.row \in 0..grid.rows - 1
         /\ grid.cursor.row + 1 \in 1..Len(data)
         /\ Row \in GoodRows
  <1>1. data \in Seq(GoodRows) /\ grid.rows = Len(data) /\ G!GridOK(grid)
    BY DEF IInv
  <1>2. Len(data) \in Nat /\ Len(data) # 0
    BY <1>1
  <1>3. grid.cursor.row \in 0..G!AtLeast0(grid.rows - 1)
    BY <1>1, GridOKRecord
  <1>4. grid.cursor.row \in 0..grid.rows - 1 /\ grid.cursor.row + 1 \in 1..Len(data)
    BY <1>1, <1>2, <1>3 DEF G!AtLeast0
  <1> QED
    BY <1>1, <1>4 DEF Row

LEMMA InitHolds == Init => IInv
  <1> SUFFICES ASSUME Init PROVE IInv
    OBVIOUS
  <1>1. PICK columns \in Schemas :
           schema = [k \in DOMAIN columns |-> [columns[k] EXCEPT !.index = k - 1]]
    BY DEF Init
  <1> DEFINE Column == [index : {0}, name : Names, type : {LastType}, size : {0},
                        signed : {LastType = Integer, FALSE}]
  <1>2. PICK n \in 0..MaxColumns : columns \in [1..n -> Column]
    BY DEF Schemas
  <1>3. \A c \in Column : \A i \in 0..MaxColumns - 1 :
           [c EXCEPT !.index = i] \in Columns /\ [c EXCEPT !.index = i].index = i
    <2> SUFFICES ASSUME NEW c \in Column, NEW i \in 0..MaxColumns - 1
                 PROVE  /\ [c EXCEPT !.index = i] \in Columns
                        /\ [c EXCEPT !.index = i].index = i
      OBVIOUS
    <2> DEFINE Signs == {LastType = Integer, FALSE}
    <2>1. Signs \subseteq BOOLEAN
      BY Zenon
    <2> HIDE DEF Signs
    <2>2. c \in [index : {0}, name : Names, type : {LastType}, size : {0}, signed : Signs]
      BY DEF Signs
    <2>3. c.name \in CellNames /\ c.signed \in BOOLEAN
      BY <2>1, <2>2 DEF CellNames
    <2>4. c.type \in 0..LastType /\ c.size \in 0..LastSize
      BY <2>2, SchemaEditorAssumption
    <2> HIDE DEF Column
    <2> QED
      BY <2>2, <2>3, <2>4 DEF Columns
  <1>4. \A k \in 1..n : k - 1 \in 0..MaxColumns - 1
    BY <1>2, SchemaEditorAssumption
  <1> HIDE DEF Column
  <1>5. DOMAIN schema = 1..n
    BY <1>1, <1>2
  <1>6. \A k \in 1..n : schema[k] \in Columns /\ schema[k].index = k - 1
    BY <1>1, <1>2, <1>3, <1>4
  <1>7. schema \in Seq(Columns) /\ Len(schema) = n /\ n \in Nat
    <2>1. schema \in [1..n -> Columns]
      BY <1>1, <1>2, <1>5, <1>6
    <2> QED
      BY <1>2, <2>1, SchemaEditorAssumption
  <1>8. \A k \in DOMAIN schema : schema[k].index = k - 1
    BY <1>5, <1>6
  <1>9. data \in Seq(GoodRows) /\ Len(data) = n /\ Kept(data, schema)
    BY <1>7, <1>8, RowsOfSchema DEF Init
  <1>10. /\ G!GridOK(grid) /\ grid.cols = 5 /\ grid.rows = n /\ Len(grid.sel) = n
    <2>1. 5 \in Nat \ {0} /\ FitCount \in Nat
      BY SchemaEditorAssumption
    <2>2. grid = G!NewGrid(5, n, FitCount)
      BY <1>7 DEF Init
    <2> QED
      BY <1>7, <2>1, <2>2, NewGridOK
  <1> QED
    BY <1>7, <1>8, <1>9, <1>10 DEF IInv, Init

\* A key that changes no more than the selection, the cursor and the window.
LEMMA GridStep ==
  ASSUME IInv, ~control, UNCHANGED <<schema, data, control>>,
         G!GridOK(grid'), grid'.cols = grid.cols, grid'.rows = grid.rows,
         Len(grid'.sel) = Len(grid.sel)
  PROVE  IInv'
  BY DEF IInv

\* One that replaces the row at the cursor by one that stands for the same column.
LEMMA RowStep ==
  ASSUME IInv, data # <<>>, NEW d \in GoodRows, d.orig = Row.orig,
         data' = [data EXCEPT ![grid.cursor.row + 1] = d],
         UNCHANGED <<schema, grid>>, control' = FALSE
  PROVE  IInv'
  <1> DEFINE at == grid.cursor.row + 1
  <1>1. at \in 1..Len(data) /\ Row = data[at]
    BY CursorOnRow DEF Row
  <1>2. data \in Seq(GoodRows) /\ Kept(data, schema)
    BY DEF IInv
  <1>3. data' = [data EXCEPT ![at] = d]
    OBVIOUS
  <1> HIDE DEF at
  <1>4. /\ data' \in Seq(GoodRows) /\ Len(data') = Len(data)
        /\ \A k \in 1..Len(data) : data'[k].orig = data[k].orig
    <2> DEFINE rows == [data EXCEPT ![at] = d]
    <2>1. rows \in Seq(GoodRows) /\ Len(rows) = Len(data)
      BY <1>1, <1>2
    <2>2. \A k \in 1..Len(data) : rows[k] = IF k = at THEN d ELSE data[k]
      BY <1>1, <1>2
    <2>3. d.orig = data[at].orig
      BY <1>1
    <2> HIDE DEF rows
    <2>4. \A k \in 1..Len(data) : rows[k].orig = data[k].orig
      BY <2>2, <2>3
    <2>5. data' = rows
      BY <1>3 DEF rows
    <2> QED
      BY <2>1, <2>4, <2>5
  <1>5. Kept(data', schema)
    BY <1>2, <1>4, KeptSame
  <1> QED
    BY <1>4, <1>5 DEF IInv

\* What a row that is inserted does to the data and the grid.
LEMMA InsertedRow ==
  ASSUME IInv, NEW after \in BOOLEAN, Insert(after)
  PROVE  \E row \in 0..Len(data) : \E d \in GoodRows :
         /\ IsInserted(d)
         /\ data' = InsertAt(data, row + 1, d)
         /\ G!GridOK(grid') /\ grid'.cols = grid.cols
         /\ grid'.rows = grid.rows + 1 /\ Len(grid'.sel) = grid.rows + 1
         /\ grid'.sel = InsertAt(grid.sel, row + 1, FALSE)
         /\ grid'.cursor.row = IF grid.rows # 0 /\ row <= grid.cursor.row
                               THEN grid.cursor.row + 1 ELSE grid.cursor.row
  <1> DEFINE row == G!InsertRow(grid, after)
             edit == [NoColumn EXCEPT !.name = NewName(Len(data))]
             d == [orig |-> NoColumn, modified |-> {}, edit |-> edit]
  <1>1. /\ G!GridOK(grid) /\ grid.rows = Len(data) /\ Len(grid.sel) = grid.rows
        /\ data \in Seq(GoodRows) /\ Len(data) \in 0..MaxRows
    BY SchemaEditorAssumption DEF IInv, Insert
  <1>2. row \in 0..grid.rows
    BY <1>1, InsertRowIn
  <1>3. data' = InsertAt(data, row + 1, d) /\ grid' = G!Inserted(grid, row)
    BY DEF Insert
  <1>4. NewName(Len(data)) \in CellNames /\ NoName \in CellNames
    BY <1>1 DEF CellNames
  <1>5. /\ NoColumn \in Columns /\ edit \in Columns /\ NoColumn.index = NoIndex
        /\ edit.type = NoColumn.type /\ edit.size = NoColumn.size /\ edit.index = NoIndex
        /\ edit.signed = NoColumn.signed
    <2> DEFINE none == NoName
               new == NewName(Len(data))
    <2>1. none \in CellNames /\ new \in CellNames
      BY <1>4
    <2>2. 0 \in 0..LastType /\ 0 \in 0..LastSize /\ FALSE \in BOOLEAN
          /\ NoIndex \in {NoIndex} \cup 0..MaxColumns - 1
      BY SchemaEditorAssumption
    <2>3. /\ NoColumn = [index |-> NoIndex, name |-> none, type |-> 0, size |-> 0,
                         signed |-> FALSE]
          /\ edit = [index |-> NoIndex, name |-> new, type |-> 0, size |-> 0,
                     signed |-> FALSE]
      <3>1. NoColumn = [index |-> NoIndex, name |-> none, type |-> 0, size |-> 0,
                        signed |-> FALSE]
        BY Zenon DEF NoColumn
      <3>2. edit = [NoColumn EXCEPT !.name = new]
        BY Zenon DEF edit
      <3> HIDE DEF none, new, edit
      <3> QED
        BY <3>1, <3>2
    <2> HIDE DEF none, new, edit
    <2> QED
      BY <2>1, <2>2, <2>3 DEF Columns
  <1> HIDE DEF row, edit
  <1>6. d \in RowRecords /\ d.orig = NoColumn /\ d.edit = edit /\ d.modified = {}
    BY <1>5 DEF RowRecords
  <1> HIDE DEF d
  <1>7. IsInserted(d)
    BY <1>5, <1>6 DEF IsInserted
  <1>8. Exact(d)
    BY <1>5, <1>6, <1>7, ExactCells
  <1>9. d \in GoodRows
    BY <1>6, <1>8 DEF GoodRows
  <1>10. /\ G!GridOK(grid') /\ grid'.cols = grid.cols
         /\ grid'.rows = grid.rows + 1 /\ Len(grid'.sel) = grid.rows + 1
         /\ grid'.sel = InsertAt(grid.sel, row + 1, FALSE)
         /\ grid'.cursor.row = IF grid.rows # 0 /\ row <= grid.cursor.row
                               THEN grid.cursor.row + 1 ELSE grid.cursor.row
    <2>1. LET h == G!Inserted(grid, row) IN
          /\ G!GridOK(h)
          /\ h.cols = grid.cols /\ h.rows = grid.rows + 1 /\ h.fit = grid.fit
          /\ h.sel = InsertAt(grid.sel, row + 1, FALSE) /\ Len(h.sel) = grid.rows + 1
          /\ h.cursor.col = grid.cursor.col
          /\ h.cursor.row = IF grid.rows # 0 /\ row <= grid.cursor.row
                            THEN grid.cursor.row + 1 ELSE grid.cursor.row
      BY <1>1, <1>2, InsertedOK
    <2> QED
      BY <1>3, <2>1, Zenon
  <1>11. row \in 0..Len(data)
    BY <1>1, <1>2
  <1> QED
    BY <1>3, <1>7, <1>9, <1>10, <1>11, Zenon

LEMMA InsertStep ==
  ASSUME IInv, NEW after \in BOOLEAN, Insert(after)
  PROVE  IInv'
  <1>1. PICK row \in 0..Len(data) : \E d \in GoodRows :
           /\ IsInserted(d)
           /\ data' = InsertAt(data, row + 1, d)
           /\ G!GridOK(grid') /\ grid'.cols = grid.cols
           /\ grid'.rows = grid.rows + 1 /\ Len(grid'.sel) = grid.rows + 1
    BY InsertedRow, Zenon
  <1>2. PICK d \in GoodRows :
           /\ IsInserted(d)
           /\ data' = InsertAt(data, row + 1, d)
           /\ G!GridOK(grid') /\ grid'.cols = grid.cols
           /\ grid'.rows = grid.rows + 1 /\ Len(grid'.sel) = grid.rows + 1
    BY <1>1, Zenon
  <1>3. data \in Seq(GoodRows) /\ Kept(data, schema) /\ grid.rows = Len(data)
    BY DEF IInv
  <1> DEFINE at == row + 1
  <1>4. at \in 1..Len(data) + 1 /\ data' = InsertAt(data, at, d)
    BY <1>2, <1>3
  <1> HIDE DEF at
  <1>5. data' \in Seq(GoodRows) /\ Len(data') = Len(data) + 1
    BY <1>3, <1>4, InsertExtends
  <1>6. Kept(data', schema)
    BY <1>2, <1>3, <1>4, KeptInsert
  <1> QED
    BY <1>2, <1>3, <1>5, <1>6 DEF IInv, Insert

LEMMA ResetStep ==
  ASSUME IInv, Reset
  PROVE  IInv'
  <1>1. schema \in Seq(Columns) /\ (\A k \in DOMAIN schema : schema[k].index = k - 1)
        /\ G!GridOK(grid) /\ Len(schema) \in Nat
    BY DEF IInv
  <1>2. data' \in Seq(GoodRows) /\ Len(data') = Len(schema) /\ Kept(data', schema)
    BY <1>1, RowsOfSchema DEF Reset
  <1> DEFINE g == G!Resize(grid, Len(schema))
  <1>3. G!GridOK(g) /\ g.cols = grid.cols /\ g.rows = Len(schema)
        /\ Len(g.sel) = Len(schema)
    BY <1>1, ResizedOK
  <1>4. grid' = G!SelectAll(g, FALSE)
    BY DEF Reset
  <1> HIDE DEF g
  <1>5. G!GridOK(grid') /\ Selected(g, grid')
    BY <1>3, <1>4, SelectedAllOK
  <1> QED
    BY <1>2, <1>3, <1>5 DEF IInv, Reset, Selected

LEMMA StepCellStep ==
  ASSUME IInv, StepCell
  PROVE  IInv'
  <1>1. Row \in GoodRows /\ grid.cursor.col \in {2, 3, 4} /\ ~IsDeleted(Row)
    BY CursorOnRow DEF StepCell
  <1> DEFINE d == StepValue(Row, grid.cursor.col)
  <1>2. d \in GoodRows /\ d.orig = Row.orig
    BY <1>1, StepValueGood
  <1>3. data' = [data EXCEPT ![grid.cursor.row + 1] = d]
    BY DEF StepCell, Row
  <1> HIDE DEF d
  <1>4. control' = FALSE /\ data # <<>> /\ UNCHANGED <<schema, grid>>
    BY DEF StepCell, IInv
  <1> QED
    BY <1>2, <1>3, <1>4, RowStep

LEMMA RestoreStep ==
  ASSUME IInv, Restore
  PROVE  IInv'
  <1>1. Row \in GoodRows
    BY CursorOnRow DEF Restore
  <1> DEFINE d == [Row EXCEPT !.edit = Row.orig, !.modified = {}]
  <1>2. d \in GoodRows /\ d.orig = Row.orig
    BY <1>1, RestoredGood
  <1>3. data' = [data EXCEPT ![grid.cursor.row + 1] = d]
    BY DEF Restore, Row
  <1> HIDE DEF d
  <1>4. control' = FALSE /\ data # <<>> /\ UNCHANGED <<schema, grid>>
    BY DEF Restore, IInv
  <1> QED
    BY <1>2, <1>3, <1>4, RowStep

LEMMA AcceptFieldStep ==
  ASSUME IInv, NEW name \in CellNames, AcceptField(name)
  PROVE  IInv'
  <1>1. control /\ data # <<>> /\ grid.cursor.col = 1
    BY DEF IInv, AcceptField
  <1>2. Row \in GoodRows
    BY <1>1, CursorOnRow
  <1>3. CASE name = NoName
    <2>1. UNCHANGED <<schema, data, grid>> /\ control' = FALSE
      BY <1>3 DEF AcceptField
    <2> QED
      BY <2>1 DEF IInv
  <1>4. CASE name # NoName
    <2> DEFINE d == [Row EXCEPT !.edit.name = name,
                       !.modified = Marked(Row.modified, "name", name # Row.orig.name)]
    <2>1. d \in GoodRows /\ d.orig = Row.orig
      BY <1>2, NamedGood
    <2>2. CellAt(grid.cursor.col) = "name"
      BY <1>1 DEF CellAt
    <2>3. data' = [data EXCEPT ![grid.cursor.row + 1] = d]
      BY <1>4, <2>2, Zenon DEF AcceptField
    <2> HIDE DEF d
    <2> QED
      BY <1>1, <2>1, <2>3, RowStep DEF AcceptField
  <1> QED
    BY <1>3, <1>4

\* What the erasing operations begin with.
LEMMA WorkingWhole ==
  ASSUME IInv
  PROVE  Whole(Working, schema) /\ Working.index = 0 /\ Working.grid = grid
  <1>1. grid \in GridRecords
    BY GridOKRecord DEF IInv
  <1> QED
    BY <1>1 DEF IInv, Working, Whole, WorkStates

\* The end of an erasing operation: the cursor is brought back on a row.
LEMMA EraseEnd ==
  ASSUME IInv, NEW s, Whole(s, schema), s.grid.cols = 5,
         \A k \in DOMAIN s.grid.sel : ~s.grid.sel[k],
         data' = s.data, grid' = G!CursorClamped(s.grid),
         UNCHANGED <<schema, control>>, ~control
  PROVE  IInv' /\ \A k \in DOMAIN grid'.sel : ~grid'.sel[k]
  <1>1. /\ s.grid \in GridRecords /\ s.data \in Seq(GoodRows)
        /\ s.grid.rows = Len(s.data) /\ Len(s.grid.sel) = Len(s.data) /\ Kept(s.data, schema)
    BY DEF Whole, WorkStates
  <1>2. G!GridOK(grid') /\ Framed(s.grid, grid')
    BY <1>1, CursorClampedOK
  <1>3. IInv'
    BY <1>1, <1>2 DEF IInv, Framed
  <1>4. grid'.sel = s.grid.sel
    BY <1>2 DEF Framed
  <1> QED
    BY <1>3, <1>4, Zenon

LEMMA EraseSelectedStep ==
  ASSUME IInv, EraseSelected
  PROVE  IInv' /\ \A k \in DOMAIN grid'.sel : ~grid'.sel[k]
  <1> DEFINE s == EraseLoop(Working)
  <1>1. /\ Whole(s, schema) /\ SameFrame(Working, s)
        /\ \A k \in DOMAIN s.grid.sel : ~s.grid.sel[k]
    BY WorkingWhole, LoopWhole, Zenon
  <1>2. data' = s.data /\ grid' = G!CursorClamped(s.grid)
    BY Zenon DEF EraseSelected
  <1> HIDE DEF s
  <1>3. s.grid.cols = 5
    BY <1>1, WorkingWhole DEF SameFrame, IInv
  <1>4. UNCHANGED <<schema, control>> /\ ~control
    BY DEF EraseSelected
  <1> QED
    BY <1>1, <1>2, <1>3, <1>4, EraseEnd

LEMMA EraseCursorAndSelectedStep ==
  ASSUME IInv, EraseCursorAndSelected
  PROVE  IInv' /\ \A k \in DOMAIN grid'.sel : ~grid'.sel[k]
  <1> DEFINE one == Erased(Working, grid.cursor.row)
             g == G!CursorClamped(one.grid)
             next == [one EXCEPT !.grid = g]
             s == EraseLoop(next)
  <1>1. grid.cursor.row \in 0..Working.grid.rows - 1
    BY CursorOnRow, WorkingWhole DEF EraseCursorAndSelected
  <1>2. Whole(one, schema) /\ SameFrame(Working, one) /\ one.index = 0
    BY <1>1, WorkingWhole, ErasedWhole
  <1>3. data' = s.data /\ grid' = G!CursorClamped(s.grid)
    BY Zenon DEF EraseCursorAndSelected
  <1> HIDE DEF one
  <1>4. one \in WorkStates /\ one.grid \in GridRecords /\ one.grid.cols = 5
    BY <1>2, WorkingWhole DEF Whole, WorkStates, SameFrame, IInv
  <1>5. G!GridOK(g) /\ Framed(one.grid, g) /\ g \in GridRecords
    BY <1>4, CursorClampedOK, GridOKRecord
  <1> HIDE DEF g
  <1>6. next \in WorkStates /\ next.data = one.data /\ next.grid = g /\ next.index = 0
    BY <1>2, <1>4, <1>5 DEF WorkStates
  <1> HIDE DEF next
  <1>7. Whole(next, schema) /\ next.grid.cols = 5
    BY <1>2, <1>4, <1>5, <1>6 DEF Whole, Framed
  <1>8. /\ Whole(s, schema) /\ SameFrame(next, s)
        /\ \A k \in DOMAIN s.grid.sel : ~s.grid.sel[k]
    BY <1>6, <1>7, LoopWhole, Zenon
  <1> HIDE DEF s
  <1>9. s.grid.cols = 5
    BY <1>7, <1>8 DEF SameFrame
  <1>10. UNCHANGED <<schema, control>> /\ ~control
    BY DEF EraseCursorAndSelected
  <1> QED
    BY <1>3, <1>8, <1>9, <1>10, EraseEnd

LEMMA NextKeeps == IInv /\ [Next]_vars => IInv'
  <1> SUFFICES ASSUME IInv, [Next]_vars PROVE IInv'
    OBVIOUS
  <1>1. CASE GridKeys
    <2>1. G!GridOK(grid)
      BY DEF IInv
    <2> QED
      BY <1>1, <2>1, GridKeyKeeps, GridStep DEF GridKeys
  <1>2. ASSUME NEW after \in BOOLEAN, Insert(after) PROVE IInv'
    BY <1>2, InsertStep
  <1>3. CASE Reset
    BY <1>3, ResetStep
  <1>4. CASE OpenField
    BY <1>4 DEF IInv, OpenField
  <1>5. CASE StepCell
    BY <1>5, StepCellStep
  <1>6. CASE EraseSelected
    BY <1>6, EraseSelectedStep
  <1>7. CASE EraseCursorAndSelected
    BY <1>7, EraseCursorAndSelectedStep
  <1>8. CASE Restore
    BY <1>8, RestoreStep
  <1>9. ASSUME NEW name \in Names \cup {NoName}, AcceptField(name) PROVE IInv'
    <2>1. name \in CellNames
      BY DEF CellNames
    <2> QED
      BY <1>9, <2>1, AcceptFieldStep
  <1>10. CASE control /\ AcceptField(Row.edit.name)
    <2>1. Row \in GoodRows
      BY <1>10, CursorOnRow DEF IInv
    <2>2. Row.edit.name \in CellNames
      BY <2>1 DEF GoodRows, RowRecords, Columns
    <2> QED
      BY <1>10, <2>2, AcceptFieldStep
  <1>11. CASE CancelField
    BY <1>11 DEF IInv, CancelField
  <1>12. CASE UNCHANGED vars
    BY <1>12 DEF IInv, vars
  <1> QED
    BY <1>1, <1>2, <1>3, <1>4, <1>5, <1>6, <1>7, <1>8, <1>9, <1>10, <1>11, <1>12 DEF Next

LEMMA AlwaysIInv == Spec => []IInv
  <1>1. Init => IInv
    BY InitHolds
  <1>2. IInv /\ [Next]_vars => IInv'
    BY NextKeeps
  <1> QED
    BY <1>1, <1>2, PTL DEF Spec

\* The editor's state has its type (TableSchemaEditor.cpp): the cursor is inside
\* the grid whatever was erased, and the rows hold columns.
THEOREM SchemaTyped == Spec => []TypeOK
  <1>1. IInv => TypeOK
    BY IInvImplies
  <1> QED
    BY <1>1, AlwaysIInv, PTL

\* What content_action asserts (BasicGrid.cpp): the grid, its selection and m_data
\* have as many rows after any keys.
THEOREM SchemaSizesAgree == Spec => []SizesAgree
  <1>1. IInv => SizesAgree
    BY IInvImplies
  <1> QED
    BY <1>1, AlwaysIInv, PTL

\* Every column of the schema stays in the editor once, in its order, however rows
\* are inserted, erased and restored (content_insert, content_erase).
THEOREM SchemaColumnsKept == Spec => []ColumnsKept
  <1>1. IInv => ColumnsKept
    BY IInvImplies
  <1> QED
    BY <1>1, AlwaysIInv, PTL

\* The cells that are marked are those that differ from the schema, also where
\* cursor_step_value drops a sign that is not at the cursor.
THEOREM SchemaModifiedExact == Spec => []ModifiedExact
  <1>1. IInv => ModifiedExact
    BY IInvImplies
  <1> QED
    BY <1>1, AlwaysIInv, PTL

\* erase_selected passes over no selected row, although the rows move up under the
\* loop's index when one leaves and stay when one is a column of the schema.
THEOREM SchemaErasesAll == Spec => ErasesAllSelected
  <1>1. IInv /\ [Next]_vars =>
          [EraseSelected \/ EraseCursorAndSelected =>
             \A k \in DOMAIN grid'.sel : ~grid'.sel[k]]_vars
    BY EraseSelectedStep, EraseCursorAndSelectedStep
  <1> QED
    BY <1>1, AlwaysIInv, PTL DEF Spec, ErasesAllSelected

\* What is inserted can be taken out again.
LEMMA RemoveInserted ==
  ASSUME NEW S, NEW s \in Seq(S), NEW i \in 1..Len(s) + 1, NEW e \in S
  PROVE  RemoveAt(InsertAt(s, i, e), i) = s
  <1> DEFINE with == InsertAt(s, i, e)
             back == RemoveAt(with, i)
  <1>1. /\ with \in Seq(S) /\ Len(with) = Len(s) + 1
        /\ \A k \in 1..Len(s) + 1 : with[k] =
              IF k < i THEN s[k] ELSE IF k = i THEN e ELSE s[k - 1]
    <2>1. with \in Seq(S) /\ Len(with) = Len(s) + 1 /\ Extends(s, i, e, with)
      BY InsertExtends
    <2> QED
      BY <2>1, Zenon DEF Extends
  <1> HIDE DEF with
  <1>2. i \in 1..Len(with)
    BY <1>1
  <1>3. /\ back \in Seq(S) /\ Len(back) = Len(with) - 1
        /\ \A k \in 1..Len(with) - 1 : back[k] = IF k < i THEN with[k] ELSE with[k + 1]
    BY <1>1, <1>2, RemovedAt
  <1> HIDE DEF back
  <1>4. ASSUME NEW k \in 1..Len(s) PROVE back[k] = s[k]
    <2>1. CASE k < i
      BY <1>1, <1>3, <2>1
    <2>2. CASE ~(k < i)
      <3>1. k + 1 \in 1..Len(s) + 1 /\ ~(k + 1 < i) /\ k + 1 # i /\ (k + 1) - 1 = k
        BY <2>2
      <3>2. with[k + 1] = s[(k + 1) - 1]
        BY <1>1, <3>1
      <3> QED
        BY <1>1, <1>3, <2>2, <3>1, <3>2
    <2> QED
      BY <2>1, <2>2
  <1>5. Len(back) = Len(s)
    BY <1>1, <1>3
  <1>6. back = s
    BY <1>3, <1>4, <1>5
  <1> QED
    BY <1>6 DEF back, with

LEMMA InsertRowsKept ==
  ASSUME IInv, NEW after \in BOOLEAN, Insert(after), data # <<>>
  PROVE  /\ Row' = Row
         /\ \E k \in DOMAIN data' :
             /\ RemoveAt(data', k) = data /\ RemoveAt(grid'.sel, k) = grid.sel
             /\ IsInserted(data'[k]) /\ ~grid'.sel[k]
  <1>1. PICK row \in 0..Len(data) : \E d \in GoodRows :
           /\ IsInserted(d)
           /\ data' = InsertAt(data, row + 1, d)
           /\ grid'.sel = InsertAt(grid.sel, row + 1, FALSE)
           /\ grid'.cursor.row = IF grid.rows # 0 /\ row <= grid.cursor.row
                                 THEN grid.cursor.row + 1 ELSE grid.cursor.row
    BY InsertedRow, Zenon
  <1>2. PICK d \in GoodRows :
           /\ IsInserted(d)
           /\ data' = InsertAt(data, row + 1, d)
           /\ grid'.sel = InsertAt(grid.sel, row + 1, FALSE)
           /\ grid'.cursor.row = IF grid.rows # 0 /\ row <= grid.cursor.row
                                 THEN grid.cursor.row + 1 ELSE grid.cursor.row
    BY <1>1, Zenon
  <1>3. /\ data \in Seq(GoodRows) /\ grid.rows = Len(data) /\ Len(grid.sel) = Len(data)
        /\ Len(data) \in Nat
    BY DEF IInv
  <1>4. grid.sel \in Seq(BOOLEAN)
    BY GridOKRecord DEF IInv, GridRecords
  <1>5. grid.cursor.row + 1 \in 1..Len(data) /\ grid.cursor.row \in 0..grid.rows - 1
    BY CursorOnRow
  <1> DEFINE at == row + 1
             no == FALSE
             old == grid.cursor.row + 1
             new == grid'.cursor.row + 1
  <1>6. /\ at \in 1..Len(data) + 1 /\ no \in BOOLEAN /\ old \in 1..Len(data)
        /\ new \in 1..Len(data) + 1
        /\ new = IF at <= old THEN old + 1 ELSE old
    <2>1. grid.cursor.row \in Nat /\ row \in Nat /\ grid.rows # 0
      BY <1>3, <1>5
    <2>2. grid'.cursor.row = IF row <= grid.cursor.row
                             THEN grid.cursor.row + 1 ELSE grid.cursor.row
      BY <1>2, <2>1, Zenon
    <2>3. at <= old <=> row <= grid.cursor.row
      BY <2>1
    <2>4. new = IF at <= old THEN old + 1 ELSE old
      BY <2>1, <2>2, <2>3
    <2>5. at \in 1..Len(data) + 1 /\ no \in BOOLEAN /\ old \in 1..Len(data)
      BY <1>3, <1>5
    <2> HIDE DEF at, no, old, new
    <2> QED
      BY <1>3, <2>4, <2>5
  <1>7. Row = data[old] /\ Row' = data'[new]
    BY DEF Row
  <1>8. data' = InsertAt(data, at, d) /\ grid'.sel = InsertAt(grid.sel, at, no)
    BY <1>2, Zenon
  <1> HIDE DEF at, no, old, new
  <1>9. /\ data' \in Seq(GoodRows) /\ Len(data') = Len(data) + 1
        /\ \A k \in 1..Len(data) + 1 : data'[k] =
              IF k < at THEN data[k] ELSE IF k = at THEN d ELSE data[k - 1]
    <2>1. /\ InsertAt(data, at, d) \in Seq(GoodRows)
          /\ Len(InsertAt(data, at, d)) = Len(data) + 1
          /\ Extends(data, at, d, InsertAt(data, at, d))
      BY <1>3, <1>6, InsertExtends
    <2> QED
      BY <1>8, <2>1 DEF Extends
  <1>10. grid'.sel[at] = no
    <2>1. \A k \in 1..Len(grid.sel) + 1 : InsertAt(grid.sel, at, no)[k] =
             IF k < at THEN grid.sel[k] ELSE IF k = at THEN no ELSE grid.sel[k - 1]
      <3>1. at \in 1..Len(grid.sel) + 1
        BY <1>3, <1>6
      <3>2. Extends(grid.sel, at, no, InsertAt(grid.sel, at, no))
        BY <1>4, <1>6, <3>1, InsertExtends
      <3> QED
        BY <3>2, Zenon DEF Extends
    <2>2. at \in 1..Len(grid.sel) + 1 /\ ~(at < at)
      BY <1>3, <1>6
    <2> QED
      BY <1>8, <2>1, <2>2, Zenon
  <1>11. RemoveAt(data', at) = data /\ RemoveAt(grid'.sel, at) = grid.sel
    BY <1>3, <1>4, <1>6, <1>8, RemoveInserted
  <1>12. data'[at] = d /\ at \in DOMAIN data'
    BY <1>3, <1>6, <1>9
  <1>13. data'[new] = data[old]
    BY <1>3, <1>6, <1>9
  <1>14. ~grid'.sel[at]
    BY <1>10, Zenon DEF no
  <1>15. IsInserted(data'[at])
    BY <1>2, <1>12
  <1> QED
    BY <1>7, <1>11, <1>12, <1>13, <1>14, <1>15, Zenon

\* content_action with insert_before keeps the cursor on the row it was on, and the
\* other rows and their selection as they were.
THEOREM SchemaInsertKeeps == Spec => InsertKeepsRows
  <1>1. IInv /\ [Next]_vars =>
          [\A after \in BOOLEAN : Insert(after) /\ data # <<>> =>
             /\ Row' = Row
             /\ \E k \in DOMAIN data' :
                 /\ RemoveAt(data', k) = data /\ RemoveAt(grid'.sel, k) = grid.sel
                 /\ IsInserted(data'[k]) /\ ~grid'.sel[k]]_vars
    BY InsertRowsKept, Zenon
  <1> QED
    BY <1>1, AlwaysIInv, PTL DEF Spec, InsertKeepsRows

-----------------------------------------------------------------------------
(* The metadata grid.                                                      *)

\* While the field is open it lies over the cursor and has the text of a cell; the
\* cell it was opened on is of its type, if it was not opened as any.
FieldOK ==
    \/ field = NoField
    \/ /\ field \in [open : {TRUE}, type : {"string", "number", "object_id", "dynamic"},
                     text : FieldNames \cup Texts, line : Int]
       /\ field.line = LineOfCursor(grid)
       /\ fields # <<>> => field.text \in Typed(grid.cursor.col)
       /\ fields # <<>> /\ field.type # "dynamic" =>
             \E v \in CellAtCursor : v.kind = field.type

\* The grid part of the inductive invariant.
Mirrored(g, rows) ==
    /\ G!GridOK(g) /\ g.cols = 2 /\ Shown(g)
    /\ g.rows = Len(rows) /\ Len(g.sel) = Len(rows)

MInv == fields \in Seq(FieldTypes) /\ Mirrored(grid, fields) /\ FieldOK

LEMMA MInvImplies ==
  ASSUME MInv
  PROVE  MGTypeOK /\ GridMirrorsFields /\ CursorShown
  <1>1. MGTypeOK
    BY DEF MInv, Mirrored, FieldOK, MGTypeOK
  <1>2. GridMirrorsFields
    BY DEF MInv, Mirrored, GridMirrorsFields
  <1>3. field.open => field.line = LineOfCursor(grid)
    <2>1. CASE field = NoField
      BY <2>1 DEF NoField
    <2>2. CASE field # NoField
      BY <2>2 DEF MInv, FieldOK
    <2> QED
      BY <2>1, <2>2
  <1>4. CursorShown
    BY <1>3 DEF MInv, Mirrored, Shown, CursorShown, InputControl
  <1> QED
    BY <1>1, <1>2, <1>4

LEMMA ClosedField ==
  ASSUME MInv, ~InputControl
  PROVE  field = NoField
  BY DEF MInv, FieldOK, InputControl

\* The cell at the cursor is one of the table.
LEMMA CellOfTable ==
  ASSUME MInv, fields # <<>>
  PROVE  /\ grid.cursor.row + 1 \in 1..Len(fields)
         /\ grid.cursor.col \in {0, 1}
         /\ fields[grid.cursor.row + 1] \in FieldTypes
         /\ CellAtCursor = {IF grid.cursor.col = 0
                              THEN String(fields[grid.cursor.row + 1].name)
                              ELSE fields[grid.cursor.row + 1].value}
  <1>1. fields \in Seq(FieldTypes) /\ grid.rows = Len(fields) /\ G!GridOK(grid)
        /\ grid.cols = 2
    BY DEF MInv, Mirrored
  <1>2. grid.cursor.row \in 0..G!AtLeast0(grid.rows - 1) /\ grid.cursor.col \in 0..1
    BY <1>1, GridOKRecord
  <1>3. Len(fields) \in Nat /\ Len(fields) # 0
    BY <1>1
  <1>4. grid.cursor.row + 1 \in 1..Len(fields)
    BY <1>1, <1>2, <1>3 DEF G!AtLeast0
  <1>5. fields[grid.cursor.row + 1] \in FieldTypes
    BY <1>1, <1>4
  <1> QED
    BY <1>2, <1>4, <1>5 DEF CellAtCursor

LEMMA MInitHolds ==
  ASSUME MGInit
  PROVE  MInv
  <1>1. PICK n \in 0..MaxFields : fields \in [1..n -> FieldTypes]
    BY DEF MGInit
  <1>2. fields \in Seq(FieldTypes) /\ Len(fields) \in Nat
    BY <1>1, MetadataGridAssumption
  <1>3. PICK fit \in Fits : grid = G!NewGrid(2, Len(fields), fit)
    BY DEF MGInit
  <1>4. fit \in Nat /\ 2 \in Nat \ {0}
    BY <1>3, MetadataGridAssumption
  <1>5. Mirrored(grid, fields)
    <2> DEFINE g == G!NewGrid(2, Len(fields), fit)
    <2>1. G!GridOK(g) /\ g.cols = 2 /\ g.rows = Len(fields) /\ Len(g.sel) = Len(fields)
      BY <1>2, <1>4, NewGridOK
    <2>2. Shown(g)
      BY <1>2, <1>4, NewGridShown
    <2> HIDE DEF g
    <2>3. Mirrored(g, fields)
      BY <2>1, <2>2, Zenon DEF Mirrored
    <2> QED
      BY <1>3, <2>3, Zenon DEF g
  <1> QED
    BY <1>2, <1>5, Zenon DEF MInv, FieldOK, MGInit

\* A key of the grid, with the field closed.
LEMMA MGridStep ==
  ASSUME MInv, ~InputControl, UNCHANGED <<fields, field>>,
         G!GridOK(grid'), Shown(grid'), grid'.cols = grid.cols, grid'.rows = grid.rows,
         Len(grid'.sel) = Len(grid.sel)
  PROVE  MInv'
  <1>1. field' = NoField
    BY ClosedField
  <1>2. FieldOK'
    BY <1>1 DEF FieldOK, NoField
  <1> QED
    BY <1>2 DEF MInv, Mirrored

LEMMA MNewFieldStep ==
  ASSUME MInv, NewField
  PROVE  MInv'
  <1>1. /\ fields \in Seq(FieldTypes) /\ Len(fields) \in Nat
        /\ grid.rows = Len(fields) /\ Len(grid.sel) = grid.rows
        /\ G!GridOK(grid) /\ grid.cols = 2 /\ Shown(grid)
    BY DEF MInv, Mirrored
  <1>2. field = NoField
    BY ClosedField DEF NewField
  <1>3. NullValue \in Values
    BY DEF Values
  <1>4. CASE \E row \in 0..Len(fields) :
                /\ Len(fields) < MaxFields
                /\ fields' = InsertAt(fields, row + 1, [name |-> NewName(grid.rows),
                                                        value |-> NullValue])
                /\ grid' = G!Inserted(grid, row)
                /\ UNCHANGED field
    <2>1. PICK row \in 0..Len(fields) :
                /\ Len(fields) < MaxFields
                /\ fields' = InsertAt(fields, row + 1, [name |-> NewName(grid.rows),
                                                        value |-> NullValue])
                /\ grid' = G!Inserted(grid, row)
                /\ UNCHANGED field
      BY <1>4, Zenon
    <2> DEFINE at == row + 1
               new == [name |-> NewName(grid.rows), value |-> NullValue]
    <2>2. at \in 1..Len(fields) + 1
      BY <1>1
    <2>3. new \in FieldTypes
      <3>1. grid.rows \in 0..MaxFields - 1
        BY <1>1, <2>1, MetadataGridAssumption
      <3>2. NewName(grid.rows) \in FieldNames
        BY <3>1 DEF FieldNames
      <3> QED
        BY <1>3, <3>2 DEF FieldTypes
    <2>4. fields' = InsertAt(fields, at, new)
      BY <2>1
    <2> HIDE DEF at, new
    <2>5. fields' \in Seq(FieldTypes) /\ Len(fields') = Len(fields) + 1
      BY <1>1, <2>2, <2>3, <2>4, InsertExtends
    <2>6. G!GridOK(grid') /\ grid'.cols = grid.cols /\ grid'.rows = grid.rows + 1
          /\ Len(grid'.sel) = grid.rows + 1
      <3>1. row \in 0..grid.rows
        BY <1>1
      <3> QED
        BY <1>1, <2>1, <3>1, InsertedOK
    <2>7. Shown(grid')
      <3>1. row \in 0..grid.rows
        BY <1>1
      <3> QED
        BY <1>1, <2>1, <3>1, InsertedShown
    <2>8. field' = NoField
      BY <1>2, <2>1
    <2>9. FieldOK'
      BY <2>8 DEF FieldOK, NoField
    <2> QED
      BY <1>1, <2>5, <2>6, <2>7, <2>9 DEF MInv, Mirrored
  <1>5. CASE \E k \in DOMAIN fields :
                /\ fields' = [fields EXCEPT ![k].value = NullValue]
                /\ field' = ClosedBy(k - 1, 1)
                /\ UNCHANGED grid
    <2>1. PICK k \in DOMAIN fields :
                /\ fields' = [fields EXCEPT ![k].value = NullValue]
                /\ field' = ClosedBy(k - 1, 1)
                /\ UNCHANGED grid
      BY <1>5, Zenon
    <2>2. fields' \in Seq(FieldTypes) /\ Len(fields') = Len(fields)
      <3> DEFINE new == [fields[k] EXCEPT !.value = NullValue]
                 with == [fields EXCEPT ![k] = new]
      <3>1. fields[k] \in FieldTypes
        BY <1>1
      <3>2. new \in FieldTypes
        BY <1>3, <3>1 DEF FieldTypes
      <3>3. fields' = with
        BY <2>1
      <3> HIDE DEF new
      <3>4. with \in Seq(FieldTypes) /\ Len(with) = Len(fields)
        BY <1>1, <3>2
      <3> QED
        BY <3>3, <3>4
    <2>3. field' = NoField
      BY <1>2, <2>1 DEF ClosedBy
    <2>4. FieldOK'
      BY <2>3 DEF FieldOK, NoField
    <2> QED
      BY <1>1, <2>1, <2>2, <2>4 DEF MInv, Mirrored
  <1> QED
    BY <1>4, <1>5, Zenon DEF NewField, FieldCreated, Named

-----------------------------------------------------------------------------
(* Editing a cell of the metadata.                                         *)

\* The open field of a state whose table is not empty.
LEMMA FieldOpen ==
  ASSUME MInv, InputControl
  PROVE  /\ field \in [open : {TRUE}, type : {"string", "number", "object_id", "dynamic"},
                       text : FieldNames \cup Texts, line : Int]
         /\ field.line = LineOfCursor(grid)
         /\ fields # <<>> => field.text \in Typed(grid.cursor.col)
         /\ fields # <<>> /\ field.type # "dynamic" =>
               \E v \in CellAtCursor : v.kind = field.type
  <1>1. field # NoField
    BY DEF InputControl, NoField
  <1> QED
    BY <1>1 DEF MInv, FieldOK

\* Whatever is read at the cursor has a text that a field can have.
LEMMA CellTyped ==
  ASSUME MInv, NEW v \in CellAtCursor
  PROVE  /\ v.kind \in {"null", "string", "number", "object_id"}
         /\ TextOf(v) \in FieldNames \cup Texts
         /\ fields # <<>> => TextOf(v) \in Typed(grid.cursor.col)
  <1>1. ASSUME NEW t PROVE String(t).kind = "string" /\ TextOf(String(t)) = t
    <2>1. String(t).kind = "string" /\ String(t).text = t
      BY DEF String
    <2>2. "string" # "null" /\ "string" # "object_id" /\ "string" # "number"
      OBVIOUS
    <2> QED
      BY <2>1, <2>2, Zenon DEF TextOf
  <1>2. ASSUME NEW u \in Values
        PROVE  u.kind \in {"null", "string", "number", "object_id"}
               /\ TextOf(u) \in Texts
    <2>1. CASE u = NullValue
      <3>1. u.kind = "null" /\ "null" # "object_id" /\ "null" # "number"
            /\ "null" # "string"
        BY <2>1 DEF NullValue
      <3>2. TextOf(u) = Empty
        BY <3>1, Zenon DEF TextOf
      <3> QED
        BY <3>1, <3>2 DEF Texts
    <2>2. CASE \E t \in Texts : u = String(t)
      BY <1>1, <2>2
    <2>3. CASE \E n \in Numbers : u = Number(n)
      <3>1. PICK n \in Numbers : u = Number(n)
        BY <2>3
      <3>2. u.kind = "number" /\ u.number = n /\ "number" # "null" /\ "number" # "object_id"
            /\ "number" # "string"
        BY <3>1 DEF Number
      <3>3. TextOf(u) = Printed[n]
        BY <3>2, Zenon DEF TextOf
      <3> QED
        BY <3>2, <3>3, MetadataGridAssumption
    <2>4. CASE \E id \in Ids : u = ObjectId(id)
      <3>1. PICK id \in Ids : u = ObjectId(id)
        BY <2>4
      <3>2. u.kind = "object_id" /\ u.id = id /\ "object_id" # "null"
            /\ "object_id" # "number" /\ "object_id" # "string"
        BY <3>1 DEF ObjectId
      <3>3. TextOf(u) = PathTo[id]
        BY <3>2, Zenon DEF TextOf
      <3> QED
        BY <3>2, <3>3, MetadataGridAssumption
    <2> QED
      BY <2>1, <2>2, <2>3, <2>4 DEF Values
  <1>3. CASE fields = <<>>
    BY <1>2, <1>3 DEF CellAtCursor
  <1>4. CASE fields # <<>>
    <2> DEFINE f == fields[grid.cursor.row + 1]
    <2>1. f \in FieldTypes /\ grid.cursor.col \in {0, 1}
          /\ v = IF grid.cursor.col = 0 THEN String(f.name) ELSE f.value
      BY <1>4, CellOfTable
    <2>2. f.name \in FieldNames /\ f.value \in Values
      BY <2>1 DEF FieldTypes
    <2> HIDE DEF f
    <2>3. CASE grid.cursor.col = 0
      BY <1>1, <2>1, <2>2, <2>3 DEF Typed
    <2>4. CASE grid.cursor.col # 0
      BY <1>2, <2>1, <2>2, <2>4 DEF Typed
    <2> QED
      BY <2>3, <2>4
  <1> QED
    BY <1>3, <1>4

LEMMA MOpenCellStep ==
  ASSUME MInv, NEW dynamic \in BOOLEAN, OpenCell(dynamic)
  PROVE  MInv'
  <1>1. PICK v \in CellAtCursor :
           field' = [open |-> TRUE,
                     type |-> IF dynamic \/ v.kind = "null" THEN "dynamic" ELSE v.kind,
                     text |-> TextOf(v),
                     line |-> LineOfCursor(grid)]
    BY DEF OpenCell
  <1> DEFINE type == IF dynamic \/ v.kind = "null" THEN "dynamic" ELSE v.kind
  <1>2. type \in {"string", "number", "object_id", "dynamic"}
        /\ (type # "dynamic" => v.kind = type)
    BY CellTyped
  <1>3. field' = [open |-> TRUE, type |-> type, text |-> TextOf(v),
                  line |-> LineOfCursor(grid)]
    BY <1>1
  <1> HIDE DEF type
  <1>4. UNCHANGED <<fields, grid>>
    BY DEF OpenCell
  <1>5. CellAtCursor' = CellAtCursor
    BY <1>4 DEF CellAtCursor
  <1>6. LineOfCursor(grid) \in Int
    <2>1. grid \in GridRecords
      BY GridOKRecord DEF MInv, Mirrored
    <2> QED
      BY <2>1 DEF GridRecords, LineOfCursor
  <1>7. /\ field' \in [open : {TRUE}, type : {"string", "number", "object_id", "dynamic"},
                       text : FieldNames \cup Texts, line : Int]
        /\ field'.text = TextOf(v) /\ field'.type = type
        /\ field'.line = LineOfCursor(grid)
    <2>1. TextOf(v) \in FieldNames \cup Texts
      BY CellTyped
    <2> QED
      BY <1>2, <1>3, <1>6, <2>1
  <1>8. fields # <<>> => field'.text \in Typed(grid.cursor.col)
    BY <1>7, CellTyped
  <1>9. FieldOK'
    <2>1. (field.line = LineOfCursor(grid))'
      BY <1>4, <1>7 DEF LineOfCursor
    <2>2. (fields # <<>> => field.text \in Typed(grid.cursor.col))'
      BY <1>4, <1>8
    <2>3. fields' # <<>> /\ field'.type # "dynamic" =>
             \E u \in CellAtCursor' : u.kind = field'.type
      BY <1>2, <1>5, <1>7
    <2> QED
      BY <1>7, <2>1, <2>2, <2>3 DEF FieldOK
  <1> QED
    BY <1>4, <1>9 DEF MInv, Mirrored

LEMMA MTypeStep ==
  ASSUME MInv, NEW text \in FieldNames \cup Texts, Type(text)
  PROVE  MInv'
  <1>1. UNCHANGED <<fields, grid>> /\ InputControl /\ field' = [field EXCEPT !.text = text]
    BY DEF Type
  <1>2. text \in Typed(grid.cursor.col)
    BY DEF Type
  <1>3. CellAtCursor' = CellAtCursor
    BY <1>1 DEF CellAtCursor
  <1>4. /\ field' \in [open : {TRUE}, type : {"string", "number", "object_id", "dynamic"},
                       text : FieldNames \cup Texts, line : Int]
        /\ field'.text = text /\ field'.type = field.type /\ field'.line = field.line
    BY <1>1, FieldOpen
  <1>5. (field.line = LineOfCursor(grid))'
    BY <1>1, <1>4, FieldOpen DEF LineOfCursor
  <1>6. (fields # <<>> => field.text \in Typed(grid.cursor.col))'
    BY <1>1, <1>2, <1>4
  <1>7. fields' # <<>> /\ field'.type # "dynamic" =>
           \E u \in CellAtCursor' : u.kind = field'.type
    BY <1>1, <1>3, <1>4, FieldOpen
  <1>8. FieldOK'
    BY <1>4, <1>5, <1>6, <1>7 DEF FieldOK
  <1> QED
    BY <1>1, <1>8 DEF MInv, Mirrored

LEMMA MCancelCellStep ==
  ASSUME MInv, CancelCell
  PROVE  MInv'
  <1>1. FieldOK'
    BY DEF FieldOK, CancelCell, NoField
  <1> QED
    BY <1>1 DEF MInv, Mirrored, CancelCell

LEMMA MReflowStep ==
  ASSUME MInv, NEW fit \in Fits, Reflow(fit)
  PROVE  MInv'
  <1>1. G!GridOK(grid) /\ fit \in Nat /\ grid' = G!Reflowed(grid, fit) /\ fields' = fields
    BY MetadataGridAssumption DEF MInv, Mirrored, Reflow
  <1>2. /\ G!GridOK(grid') /\ Shown(grid')
        /\ grid'.cols = grid.cols /\ grid'.rows = grid.rows /\ grid'.sel = grid.sel
        /\ grid'.cursor = grid.cursor
    BY <1>1, ReflowedOK
  <1>3. Mirrored(grid, fields)' /\ fields' \in Seq(FieldTypes)
    BY <1>1, <1>2 DEF MInv, Mirrored
  <1>4. FieldOK'
    <2>1. CASE ~InputControl
      <3>1. field' = NoField
        BY <2>1, ClosedField DEF Reflow
      <3> QED
        BY <3>1 DEF FieldOK, NoField
    <2>2. CASE InputControl
      <3>1. field' = [field EXCEPT !.line = LineOfCursor(grid')]
        BY <2>2 DEF Reflow
      <3>2. LineOfCursor(grid') \in Int
        <4>1. grid' \in GridRecords
          BY <1>2, GridOKRecord
        <4> QED
          BY <4>1 DEF GridRecords, LineOfCursor
      <3>3. /\ field' \in [open : {TRUE}, type : {"string", "number", "object_id", "dynamic"},
                           text : FieldNames \cup Texts, line : Int]
            /\ field'.text = field.text /\ field'.type = field.type
            /\ field'.line = LineOfCursor(grid')
        BY <2>2, <3>1, <3>2, FieldOpen
      <3>4. CellAtCursor' = CellAtCursor
        BY <1>1, <1>2 DEF CellAtCursor
      <3>5. (field.line = LineOfCursor(grid))'
        BY <3>3
      <3>6. (fields # <<>> => field.text \in Typed(grid.cursor.col))'
        BY <1>1, <1>2, <2>2, <3>3, FieldOpen
      <3>7. fields' # <<>> /\ field'.type # "dynamic" =>
               \E u \in CellAtCursor' : u.kind = field'.type
        BY <1>1, <2>2, <3>3, <3>4, FieldOpen
      <3> QED
        BY <3>3, <3>5, <3>6, <3>7 DEF FieldOK
    <2> QED
      BY <2>1, <2>2
  <1> QED
    BY <1>3, <1>4 DEF MInv

\* What is read of the text of the open field.
LEMMA ReadBackTyped ==
  ASSUME NEW f
  PROVE  /\ f.text \in Texts => ReadBack(f) \in Values
         /\ f.type = "string" => ReadBack(f).kind \in {"null", "string"}
         /\ f.type = "object_id" => ReadBack(f).kind \in {"null", "object_id"}
         /\ f.type = "string" /\ f.text # Empty => ReadBack(f) = String(f.text)
         /\ f.type = "number" /\ f.text # Empty => ReadBack(f) = ReadFrom[f.text]
         /\ f.type = "object_id" /\ f.text # Empty =>
               ReadBack(f) = ObjectId(FindPath[f.text])
  <1> DEFINE path == f.type = "object_id" \/ (f.type = "dynamic" /\ f.text \in Paths)
  <1>1. ASSUME f.text = Empty
        PROVE  ReadBack(f) = NullValue
    BY <1>1, Zenon DEF ReadBack
  <1>2. ASSUME f.text # Empty, f.type = "string"
        PROVE  ReadBack(f) = String(f.text)
    <2>1. ~path
      BY <1>2
    <2> QED
      BY <1>2, <2>1, Zenon DEF ReadBack
  <1>3. ASSUME f.text # Empty, path
        PROVE  ReadBack(f) = ObjectId(FindPath[f.text])
    <2>1. f.type # "string"
      BY <1>3
    <2> QED
      BY <1>3, <2>1, Zenon DEF ReadBack
  <1>4. ASSUME f.text # Empty, f.type # "string", ~path
        PROVE  ReadBack(f) = ReadFrom[f.text]
    BY <1>4, Zenon DEF ReadBack
  <1>5. f.type = "number" => f.type # "string" /\ ~path
    OBVIOUS
  <1>6. f.type = "object_id" => path
    OBVIOUS
  <1> HIDE DEF path
  <1>7. f.text \in Texts => ReadBack(f) \in Values
    BY <1>1, <1>2, <1>3, <1>4, MetadataGridAssumption DEF Values
  <1>8. f.type = "string" => ReadBack(f).kind \in {"null", "string"}
    BY <1>1, <1>2 DEF NullValue, String
  <1>9. f.type = "object_id" => ReadBack(f).kind \in {"null", "object_id"}
    BY <1>1, <1>3, <1>6 DEF NullValue, ObjectId
  <1> QED
    BY <1>2, <1>3, <1>4, <1>5, <1>6, <1>7, <1>8, <1>9

\* What accepting does to the table: nothing, or the cell at the cursor takes
\* what was typed.
LEMMA Accepted ==
  ASSUME MInv, AcceptCell
  PROVE  \/ fields' = fields
         \/ /\ fields # <<>> /\ ReadBack(field) \notin CellAtCursor
            /\ grid.cursor.col = 0
            /\ fields' = [fields EXCEPT ![grid.cursor.row + 1] =
                             [fields[grid.cursor.row + 1] EXCEPT !.name = field.text]]
         \/ /\ fields # <<>> /\ ReadBack(field) \notin CellAtCursor
            /\ grid.cursor.col # 0
            /\ fields' = [fields EXCEPT ![grid.cursor.row + 1] =
                             [fields[grid.cursor.row + 1] EXCEPT !.value = ReadBack(field)]]
  <1>1. CASE fields = <<>> \/ ReadBack(field) \in CellAtCursor
    <2>1. fields' \in {fields}
      BY <1>1, Zenon DEF AcceptCell
    <2> QED
      BY <2>1
  <1>2. CASE fields # <<>> /\ ReadBack(field) \notin CellAtCursor /\ grid.cursor.col = 0
    <2>1. fields' \in Renamed(grid.cursor.row, field.text)
      BY <1>2, Zenon DEF AcceptCell
    <2> QED
      BY <1>2, <2>1 DEF Renamed
  <1>3. CASE fields # <<>> /\ ReadBack(field) \notin CellAtCursor /\ grid.cursor.col # 0
    <2>1. fields' \in ValueSet(grid.cursor.row, ReadBack(field))
      BY <1>3, Zenon DEF AcceptCell
    <2> QED
      BY <1>3, <2>1 DEF ValueSet
  <1> QED
    BY <1>1, <1>2, <1>3

LEMMA MAcceptCellStep ==
  ASSUME MInv, AcceptCell
  PROVE  MInv'
  <1>1. InputControl /\ grid' = grid /\ field' = NoField
    BY DEF AcceptCell
  <1>2. FieldOK'
    BY <1>1 DEF FieldOK, NoField
  <1>3. fields \in Seq(FieldTypes)
    BY DEF MInv
  <1> DEFINE at == grid.cursor.row + 1
  <1>4. ASSUME NEW f \in FieldTypes, fields # <<>>, fields' = [fields EXCEPT ![at] = f]
        PROVE  fields' \in Seq(FieldTypes) /\ Len(fields') = Len(fields)
    <2>1. at \in 1..Len(fields)
      BY <1>4, CellOfTable
    <2> HIDE DEF at
    <2> DEFINE with == [fields EXCEPT ![at] = f]
    <2>2. with \in Seq(FieldTypes) /\ Len(with) = Len(fields)
      BY <1>3, <2>1
    <2> QED
      BY <1>4, <2>2
  <1>5. fields # <<>> => fields[at] \in FieldTypes
    BY CellOfTable
  <1>6. fields' \in Seq(FieldTypes) /\ Len(fields') = Len(fields)
    <2>1. CASE fields' = fields
      BY <1>3, <2>1
    <2>2. CASE fields # <<>> /\ grid.cursor.col = 0
               /\ fields' = [fields EXCEPT ![at] = [fields[at] EXCEPT !.name = field.text]]
      <3>1. field.text \in FieldNames
        BY <1>1, <2>2, FieldOpen DEF Typed
      <3>2. [fields[at] EXCEPT !.name = field.text] \in FieldTypes
        BY <1>5, <2>2, <3>1 DEF FieldTypes
      <3> HIDE DEF at
      <3> QED
        BY <1>4, <2>2, <3>2
    <2>3. CASE fields # <<>> /\ grid.cursor.col # 0
               /\ fields' = [fields EXCEPT ![at] =
                                [fields[at] EXCEPT !.value = ReadBack(field)]]
      <3>1. ReadBack(field) \in Values
        <4>1. field.text \in Texts
          BY <1>1, <2>3, FieldOpen DEF Typed
        <4> QED
          BY <4>1, ReadBackTyped
      <3>2. [fields[at] EXCEPT !.value = ReadBack(field)] \in FieldTypes
        BY <1>5, <2>3, <3>1 DEF FieldTypes
      <3> HIDE DEF at
      <3> QED
        BY <1>4, <2>3, <3>2
    <2> QED
      BY <2>1, <2>2, <2>3, Accepted
  <1> QED
    BY <1>1, <1>2, <1>6 DEF MInv, Mirrored

\* A string is its text, and an object id is that of an object.
LEMMA MCellKinds ==
  ASSUME MInv, NEW v \in CellAtCursor, fields # <<>>
  PROVE  /\ v.kind = "string" => v = String(TextOf(v))
         /\ v.kind = "object_id" => v = ObjectId(v.id)
  <1> DEFINE f == fields[grid.cursor.row + 1]
  <1>1. f \in FieldTypes /\ (v = String(f.name) \/ v = f.value)
    BY CellOfTable
  <1>2. (\E t : v = String(t)) \/ v \in Values
    BY <1>1 DEF FieldTypes
  <1>3. CASE \E t : v = String(t)
    <2>1. PICK t : v = String(t)
      BY <1>3
    <2>2. v.kind = "string" /\ v.text = t
      BY <2>1 DEF String
    <2>3. v.kind # "null" /\ v.kind # "object_id" /\ v.kind # "number"
      BY <2>2
    <2>4. TextOf(v) = t
      BY <2>2, <2>3, Zenon DEF TextOf
    <2> QED
      BY <2>1, <2>3, <2>4
  <1>4. CASE v = NullValue
    BY <1>4 DEF NullValue
  <1>5. CASE \E n \in Numbers : v = Number(n)
    BY <1>5 DEF Number
  <1>6. CASE \E id \in Ids : v = ObjectId(id)
    BY <1>6 DEF ObjectId
  <1> QED
    BY <1>2, <1>3, <1>4, <1>5, <1>6 DEF Values

\* What AcceptKeepsCell says of a step.
LEMMA CellKept ==
  ASSUME MInv, AcceptCell, fields # <<>>,
         field.type # "dynamic"
  PROVE  LET old == CHOOSE v \in CellAtCursor : TRUE
             new == CHOOSE v \in CellAtCursor' : TRUE
         IN /\ field.text = TextOf(old) /\ ReadsBack(old) => fields' = fields
            /\ old.kind \in {"string", "object_id"} => new.kind \in {old.kind, "null"}
  <1> DEFINE at == grid.cursor.row + 1
             cell == IF grid.cursor.col = 0 THEN String(fields[at].name) ELSE fields[at].value
             old == CHOOSE v \in CellAtCursor : TRUE
             new == CHOOSE v \in CellAtCursor' : TRUE
  <1>1. CellAtCursor = {cell} /\ at \in 1..Len(fields) /\ fields[at] \in FieldTypes
        /\ fields \in Seq(FieldTypes)
    BY CellOfTable DEF MInv
  <1>2. InputControl /\ grid' = grid
    BY DEF AcceptCell
  <1>3. old = cell
    BY <1>1
  <1> HIDE DEF old
  <1>4. field.type = cell.kind /\ field.type \in {"string", "number", "object_id"}
    BY <1>1, <1>2, FieldOpen
  <1>5. /\ cell.kind = "string" => cell = String(TextOf(cell))
        /\ cell.kind = "object_id" => cell = ObjectId(cell.id)
    <2>1. cell \in CellAtCursor
      BY <1>1
    <2> HIDE DEF cell
    <2> QED
      BY <2>1, MCellKinds
  <1>6. ASSUME field.text = TextOf(cell), ReadsBack(cell)
        PROVE  fields' = fields
    <2>1. ReadBack(field) = cell
      <3> HIDE DEF cell
      <3>1. /\ field.text # Empty
            /\ cell.kind = "number" => ReadFrom[field.text] = cell
            /\ cell.kind = "object_id" => FindPath[field.text] = cell.id
        BY <1>6 DEF ReadsBack
      <3>2. CASE cell.kind = "string"
        BY <1>4, <1>5, <1>6, <3>1, <3>2, ReadBackTyped
      <3>3. CASE cell.kind = "number"
        BY <1>4, <3>1, <3>3, ReadBackTyped
      <3>4. CASE cell.kind = "object_id"
        BY <1>4, <1>5, <3>1, <3>4, ReadBackTyped
      <3> QED
        BY <1>4, <3>2, <3>3, <3>4
    <2>2. ReadBack(field) \in CellAtCursor
      BY <1>1, <2>1
    <2> QED
      BY <2>2, Accepted
  <1>7. ASSUME cell.kind \in {"string", "object_id"}
        PROVE  new.kind \in {cell.kind, "null"}
    <2>1. field.type = cell.kind
      BY <1>4
    <2>2. ReadBack(field).kind \in {cell.kind, "null"}
      <3> HIDE DEF cell
      <3>1. CASE cell.kind = "string"
        BY <2>1, <3>1, ReadBackTyped
      <3>2. CASE cell.kind = "object_id"
        BY <2>1, <3>2, ReadBackTyped
      <3> QED
        BY <1>7, <3>1, <3>2
    <2>3. ASSUME NEW f, fields' = [fields EXCEPT ![at] = f]
          PROVE  fields' # <<>> /\ fields'[at] = f
      <3> HIDE DEF at, cell
      <3>1. DOMAIN fields = 1..Len(fields) /\ at \in DOMAIN fields
        BY <1>1
      <3>2. DOMAIN fields' = DOMAIN fields /\ fields'[at] = f
        BY <2>3, <3>1
      <3> QED
        BY <3>1, <3>2
    <2>4. ASSUME fields' # <<>>
          PROVE  CellAtCursor' = {IF grid.cursor.col = 0 THEN String(fields'[at].name)
                                    ELSE fields'[at].value}
      BY <1>2, <2>4, Zenon DEF CellAtCursor
    <2>5. CASE fields' = fields
      <3>1. CellAtCursor' = {cell}
        BY <2>4, <2>5
      <3>2. new = cell
        BY <3>1
      <3> QED
        BY <1>7, <3>2
    <2>6. CASE grid.cursor.col = 0
               /\ fields' = [fields EXCEPT ![at] = [fields[at] EXCEPT !.name = field.text]]
      <3>1. CellAtCursor' = {String(fields'[at].name)}
        BY <2>3, <2>4, <2>6
      <3>2. new = String(fields'[at].name)
        BY <3>1
      <3>3. cell.kind = "string"
        BY <2>6 DEF String
      <3> HIDE DEF new, cell
      <3> QED
        BY <3>2, <3>3 DEF String
    <2>7. CASE grid.cursor.col # 0
               /\ fields' = [fields EXCEPT ![at] =
                                [fields[at] EXCEPT !.value = ReadBack(field)]]
      <3>1. CellAtCursor' = {fields'[at].value}
        BY <2>3, <2>4, <2>7
      <3>2. fields'[at].value = ReadBack(field)
        <4>1. fields'[at] = [fields[at] EXCEPT !.value = ReadBack(field)]
          BY <2>3, <2>7
        <4> QED
          BY <1>1, <4>1 DEF FieldTypes
      <3>3. new = fields'[at].value
        BY <3>1
      <3> HIDE DEF new
      <3> QED
        BY <2>2, <3>2, <3>3
    <2> QED
      BY <2>5, <2>6, <2>7, Accepted
  <1> HIDE DEF cell
  <1> QED
    BY <1>3, <1>6, <1>7, Zenon DEF old

-----------------------------------------------------------------------------
(* Removing fields of the metadata.                                        *)

\* A table and its grid, between two notifications.
Paired(s) == s.fields \in Seq(FieldTypes) /\ Mirrored(s.grid, s.fields)

\* A notification takes the row of the field out of the grid.
LEMMA RemovedPaired ==
  ASSUME NEW s, Paired(s), NEW row \in 0..Len(s.fields) - 1
  PROVE  LET t == Removed(s, row) IN
         /\ Paired(t)
         /\ t.fields = RemoveAt(s.fields, row + 1)
         /\ t.grid.sel = RemoveAt(s.grid.sel, row + 1)
  <1> DEFINE without == G!WithoutRow(s.grid, row)
             g == G!CursorClamped(without)
             rows == RemoveAt(s.fields, row + 1)
             t == Removed(s, row)
  <1>1. /\ s.fields \in Seq(FieldTypes) /\ Len(s.fields) \in Nat
        /\ G!GridOK(s.grid) /\ s.grid.cols = 2
        /\ s.grid.rows = Len(s.fields) /\ Len(s.grid.sel) = s.grid.rows
        /\ s.grid \in GridRecords
    BY GridOKRecord DEF Paired, Mirrored
  <1>2. row \in 0..s.grid.rows - 1
    BY <1>1
  <1>3. rows \in Seq(FieldTypes) /\ Len(rows) = Len(s.fields) - 1
    <2> DEFINE at == row + 1
    <2>1. at \in 1..Len(s.fields)
      BY <1>1
    <2> HIDE DEF at
    <2>2. RemoveAt(s.fields, at) \in Seq(FieldTypes)
          /\ Len(RemoveAt(s.fields, at)) = Len(s.fields) - 1
      BY <1>1, <2>1, RemovedAt
    <2> QED
      BY <2>2 DEF at
  <1>4. /\ without \in GridRecords
        /\ without.cols = 2 /\ without.rows = s.grid.rows - 1
        /\ without.sel = RemoveAt(s.grid.sel, row + 1)
        /\ Len(without.sel) = s.grid.rows - 1
    BY <1>1, <1>2, WithoutRowIn
  <1>5. t = [fields |-> rows, grid |-> g]
    BY Zenon DEF Removed, FieldRemoved
  <1> HIDE DEF without
  <1>6. G!GridOK(g) /\ Framed(without, g) /\ Shown(g)
    BY <1>4, CursorClampedOK, CursorClampedShown
  <1> HIDE DEF g, rows
  <1>7. t.fields = rows /\ t.grid = g
    BY <1>5
  <1> HIDE DEF t
  <1>8. Paired(t)
    BY <1>1, <1>3, <1>4, <1>6, <1>7 DEF Paired, Mirrored, Framed
  <1> QED
    BY <1>4, <1>6, <1>7, <1>8 DEF Framed, t, rows

\* In t the rows of s from the last down to the row after the n - k first ones have
\* been looked at: of these the selected ones are gone, all others are there, in
\* order, with their selection; from says where in s they are.
Survives(from, s, t, k) ==
    LET n == Len(s.fields) IN
    /\ from \in [1..Len(t.fields) -> 1..n]
    /\ \A i, j \in 1..Len(t.fields) : i < j => from[i] < from[j]
    /\ \A j \in 1..Len(t.fields) :
          /\ from[j] <= n - k \/ ~s.grid.sel[from[j]]
          /\ t.fields[j] = s.fields[from[j]]
          /\ t.grid.sel[j] <=> s.grid.sel[from[j]]
    /\ \A i \in 1..n : i <= n - k \/ ~s.grid.sel[i] =>
          \E j \in 1..Len(t.fields) : from[j] = i
    /\ \A j \in 1..n - k : j \in 1..Len(t.fields) /\ from[j] = j

LEMMA RemoveTurnSurvives ==
  ASSUME NEW s, Paired(s), NEW t, Paired(t), NEW k \in 0..Len(s.fields) - 1,
         \E from : Survives(from, s, t, k)
  PROVE  LET u == RemoveTurn(t, Len(s.fields) - (k + 1)) IN
         Paired(u) /\ \E from : Survives(from, s, u, k + 1)
  <1> DEFINE n == Len(s.fields)
             at == n - k
             row == n - (k + 1)
             u == RemoveTurn(t, row)
             len == Len(t.fields)
  <1>1. n \in Nat /\ len \in Nat /\ k \in Nat /\ at \in 1..n /\ row \in Nat
        /\ row + 1 = at /\ k + 1 \in Nat /\ n - (k + 1) = at - 1
    BY DEF Paired
  <1>2. PICK from : Survives(from, s, t, k)
    OBVIOUS
  <1>3. /\ from \in [1..len -> 1..n]
        /\ \A i, j \in 1..len : i < j => from[i] < from[j]
        /\ \A j \in 1..len : from[j] <= at \/ ~s.grid.sel[from[j]]
        /\ \A j \in 1..len : t.fields[j] = s.fields[from[j]]
        /\ \A j \in 1..len : t.grid.sel[j] <=> s.grid.sel[from[j]]
        /\ \A i \in 1..n : i <= at \/ ~s.grid.sel[i] => \E j \in 1..len : from[j] = i
        /\ \A j \in 1..at : j \in 1..len /\ from[j] = j
    BY <1>2 DEF Survives
  <1>4. at \in 1..len /\ from[at] = at /\ (t.grid.sel[at] <=> s.grid.sel[at])
    <2>1. at \in 1..at
      BY <1>1
    <2>2. at \in 1..len /\ from[at] = at
      BY <1>3, <2>1, Zenon
    <2>3. t.grid.sel[at] <=> s.grid.sel[from[at]]
      BY <1>3, <2>2, Zenon
    <2> QED
      BY <2>2, <2>3, Zenon
  <1>5. u = IF t.grid.sel[at] THEN Removed(t, row) ELSE t
    BY <1>1, Zenon DEF RemoveTurn
  <1> HIDE DEF u
  <1>6. CASE ~s.grid.sel[at]
    <2>1. u = t
      BY <1>4, <1>5, <1>6, Zenon
    <2>2. \A j \in 1..len : from[j] <= at - 1 \/ ~s.grid.sel[from[j]]
      <3>1. ASSUME NEW j \in 1..len, ~(from[j] <= at - 1)
            PROVE  ~s.grid.sel[from[j]]
        <4>1. from[j] <= at => from[j] = at
          <5>1. from[j] \in 1..n
            BY <1>3
          <5> HIDE DEF at, n, row, len
          <5> QED
            BY <1>1, <3>1, <5>1
        <4> QED
          BY <1>3, <1>6, <4>1, Zenon
      <3> QED
        BY <3>1
    <2>3. \A i \in 1..n : i <= at - 1 \/ ~s.grid.sel[i] => \E j \in 1..len : from[j] = i
      <3>1. \A i \in 1..n : i <= at - 1 => i <= at
        BY <1>1
      <3> QED
        BY <1>3, <3>1, Zenon
    <2>4. \A j \in 1..at - 1 : j \in 1..len /\ from[j] = j
      <3>1. \A j \in 1..at - 1 : j \in 1..at
        BY <1>1
      <3> QED
        BY <1>3, <3>1, Zenon
    <2>5. Survives(from, s, t, k + 1)
      <3> HIDE DEF at, row
      <3>1. n - (k + 1) = at - 1
        BY <1>1
      <3> HIDE DEF n, len
      <3> QED
        BY <1>3, <2>2, <2>3, <2>4, <3>1, Zenon DEF Survives, n, len
    <2> QED
      BY <2>1, <2>5 DEF u
  <1>7. CASE s.grid.sel[at]
    <2>1. u = Removed(t, row)
      BY <1>4, <1>5, <1>7, Zenon
    <2>2. row \in 0..Len(t.fields) - 1
      BY <1>1, <1>4
    <2>3. /\ Paired(u) /\ u.fields = RemoveAt(t.fields, row + 1)
          /\ u.grid.sel = RemoveAt(t.grid.sel, row + 1)
      BY <2>1, <2>2, RemovedPaired
    <2>4. t.fields \in Seq(FieldTypes) /\ t.grid.sel \in Seq(BOOLEAN)
          /\ Len(t.grid.sel) = len
      BY GridOKRecord DEF Paired, Mirrored, GridRecords
    <2> DEFINE rest == Len(u.fields)
    <2> HIDE DEF at, row, n
    <2>5. rest = len - 1
          /\ \A j \in 1..len - 1 : u.fields[j] = IF j < at THEN t.fields[j] ELSE t.fields[j + 1]
      <3>1. u.fields = RemoveAt(t.fields, at)
        BY <1>1, <2>3
      <3>2. Len(u.fields) = Len(t.fields) - 1 /\ Skips(t.fields, at, u.fields)
        BY <1>4, <2>4, <3>1, RemoveSkips
      <3> QED
        BY <3>2, Zenon DEF Skips
    <2>6. \A j \in 1..len - 1 :
             u.grid.sel[j] = IF j < at THEN t.grid.sel[j] ELSE t.grid.sel[j + 1]
      <3>1. u.grid.sel = RemoveAt(t.grid.sel, at) /\ at \in 1..Len(t.grid.sel)
        BY <1>1, <1>4, <2>3, <2>4
      <3>2. \A j \in 1..Len(t.grid.sel) - 1 : RemoveAt(t.grid.sel, at)[j] =
               IF j < at THEN t.grid.sel[j] ELSE t.grid.sel[j + 1]
        BY <2>4, <3>1, RemovedAt
      <3> QED
        BY <2>4, <3>1, <3>2, Zenon
    <2> HIDE DEF len, rest
    <2> DEFINE to == [j \in 1..rest |-> IF j < at THEN j ELSE j + 1]
               from2 == [j \in 1..rest |-> from[to[j]]]
    <2>7. /\ to \in [1..rest -> 1..len]
          /\ \A j \in 1..rest : to[j] = (IF j < at THEN j ELSE j + 1) /\ to[j] # at
      BY <1>1, <1>4, <2>5
    <2>8. \A j \in 1..rest : from2[j] = from[to[j]]
      OBVIOUS
    <2>9. from2 \in [1..rest -> 1..n]
      BY <1>3, <2>7
    <2> HIDE DEF from2
    <2>10. \A i, j \in 1..rest : i < j => to[i] < to[j]
      BY <1>1, <2>5, <2>7
    <2> HIDE DEF to
    <2>11. \A i, j \in 1..rest : i < j => from2[i] < from2[j]
      BY <1>3, <2>7, <2>8, <2>10
    <2>12. ASSUME NEW j \in 1..rest
           PROVE  /\ from2[j] <= at - 1 \/ ~s.grid.sel[from2[j]]
                  /\ u.fields[j] = s.fields[from2[j]]
                  /\ u.grid.sel[j] <=> s.grid.sel[from2[j]]
      <3> DEFINE i == to[j]
      <3>1. i \in 1..len /\ i # at /\ from2[j] = from[i]
        BY <2>7, <2>8
      <3>2. j \in 1..len - 1 /\ i = IF j < at THEN j ELSE j + 1
        BY <2>5, <2>7
      <3> HIDE DEF i
      <3>3. u.fields[j] = t.fields[i]
        BY <2>5, <3>2
      <3>4. u.grid.sel[j] = t.grid.sel[i]
        BY <2>6, <3>2, Zenon
      <3>5. from[i] <= at => from[i] <= at - 1
        <4>1. from[i] # at
          <5>1. i < at \/ at < i
            BY <1>1, <1>4, <3>1
          <5>2. from[i] < from[at] \/ from[at] < from[i]
            BY <1>3, <1>4, <3>1, <5>1
          <5>3. from[i] \in 1..n
            BY <1>3, <3>1
          <5> QED
            BY <1>1, <1>4, <5>2, <5>3
        <4>2. from[i] \in 1..n
          BY <1>3, <3>1
        <4> QED
          BY <1>1, <4>1, <4>2
      <3>6. from[i] <= at \/ ~s.grid.sel[from[i]]
        BY <1>3, <3>1, Zenon
      <3>7. t.fields[i] = s.fields[from[i]] /\ (t.grid.sel[i] <=> s.grid.sel[from[i]])
        BY <1>3, <3>1, Zenon
      <3> QED
        BY <3>1, <3>3, <3>4, <3>5, <3>6, <3>7, Zenon
    <2>13. ASSUME NEW i \in 1..n, i <= at - 1 \/ ~s.grid.sel[i]
           PROVE  \E j \in 1..rest : from2[j] = i
      <3>1. i <= at \/ ~s.grid.sel[i]
        <4>1. i <= at - 1 => i <= at
          BY <1>1
        <4> QED
          BY <2>13, <4>1, Zenon
      <3>2. PICK l \in 1..len : from[l] = i
        BY <1>3, <3>1, Zenon
      <3>3. i # at
        <4>1. ~(at <= at - 1)
          BY <1>1
        <4> QED
          BY <1>7, <2>13, <4>1, Zenon
      <3>4. l # at
        BY <1>4, <3>2, <3>3
      <3> DEFINE j == IF l < at THEN l ELSE l - 1
      <3>5. j \in 1..rest /\ to[j] = l
        BY <1>1, <1>4, <2>5, <2>7, <3>4
      <3> HIDE DEF j
      <3> QED
        BY <2>8, <3>2, <3>5
    <2>14. ASSUME NEW j \in 1..at - 1 PROVE j \in 1..rest /\ from2[j] = j
      <3>1. j \in 1..rest /\ to[j] = j /\ j \in 1..at
        BY <1>1, <1>4, <2>5, <2>7
      <3> QED
        BY <1>3, <2>8, <3>1
    <2>15. Survives(from2, s, u, k + 1)
      <3>1. n - (k + 1) = at - 1
        BY <1>1
      <3> QED
        BY <2>9, <2>11, <2>12, <2>13, <2>14, <3>1, Zenon DEF Survives, n, rest
    <2> QED
      BY <2>3, <2>15 DEF u, row, n
  <1> QED
    BY <1>6, <1>7

\* The states the loop goes through, from the last row to the first.
RemoveTurns(f, s, n) ==
    f = [k \in 0..n |-> IF k = 0 THEN s ELSE RemoveTurn(f[k - 1], s.grid.rows - k)]

LEMMA RemoveTurnsDefined ==
  ASSUME NEW s, NEW n \in Nat
  PROVE  \E f : RemoveTurns(f, s, n)
  <1> DEFINE T == {m \in Nat : \E f : RemoveTurns(f, s, m)}
  <1>1. 0 \in T
    <2> DEFINE f == [k \in 0..0 |-> s]
    <2>1. RemoveTurns(f, s, 0)
      BY DEF RemoveTurns
    <2> QED
      BY <2>1
  <1>2. ASSUME NEW m \in T PROVE m + 1 \in T
    <2>1. PICK f : RemoveTurns(f, s, m)
      OBVIOUS
    <2>2. m \in Nat
      OBVIOUS
    <2> DEFINE h == [k \in 0..m + 1 |->
                       IF k = 0 THEN s ELSE RemoveTurn(f[k - 1], s.grid.rows - k)]
    <2>3. \A k \in 0..m :
             f[k] = IF k = 0 THEN s ELSE RemoveTurn(f[k - 1], s.grid.rows - k)
      <3>1. f = [k \in 0..m |->
                   IF k = 0 THEN s ELSE RemoveTurn(f[k - 1], s.grid.rows - k)]
        BY <2>1 DEF RemoveTurns
      <3> QED
        BY <3>1
    <2>4. \A k \in 0..m : h[k] = f[k]
      BY <2>2, <2>3
    <2>5. \A k \in 0..m + 1 : k # 0 => k - 1 \in 0..m
      BY <2>2
    <2>6. RemoveTurns(h, s, m + 1)
      <3>1. \A k \in 0..m + 1 :
               (IF k = 0 THEN s ELSE RemoveTurn(f[k - 1], s.grid.rows - k))
               = IF k = 0 THEN s ELSE RemoveTurn(h[k - 1], s.grid.rows - k)
        BY <2>4, <2>5
      <3>2. h = [k \in 0..m + 1 |->
                   IF k = 0 THEN s ELSE RemoveTurn(h[k - 1], s.grid.rows - k)]
        BY <3>1
      <3> QED
        BY <3>2 DEF RemoveTurns
    <2> QED
      BY <2>2, <2>6
  <1>3. T = Nat
    <2> HIDE DEF T
    <2>1. T \in SUBSET Nat
      BY DEF T
    <2> QED
      BY <1>1, <1>2, <2>1, Induction
  <1> QED
    BY <1>3

\* The loop leaves the rows that were not selected, in order, with none selected.
LEMMA RemoveLoopSurvives ==
  ASSUME NEW s, Paired(s)
  PROVE  LET t == RemoveLoop(s) IN
         Paired(t) /\ \E from : Survives(from, s, t, Len(s.fields))
  <1> DEFINE n == Len(s.fields)
             Reached(t, k) == Paired(t) /\ \E from : Survives(from, s, t, k)
  <1>1. n \in Nat /\ s.grid.rows = n
    BY DEF Paired, Mirrored
  <1> DEFINE turns == CHOOSE f : RemoveTurns(f, s, s.grid.rows)
  <1>2. RemoveLoop(s) = turns[s.grid.rows]
    BY Zenon DEF RemoveLoop, RemoveTurns
  <1>3. RemoveTurns(turns, s, n)
    <2>1. \E f : RemoveTurns(f, s, s.grid.rows)
      BY <1>1, RemoveTurnsDefined
    <2>2. RemoveTurns(turns, s, s.grid.rows)
      BY <2>1, Zenon
    <2> HIDE DEF turns
    <2> QED
      BY <1>1, <2>2
  <1> HIDE DEF turns
  <1>4. /\ turns[0] = s
        /\ \A k \in 1..n : turns[k] = RemoveTurn(turns[k - 1], n - k)
    <2>1. turns = [k \in 0..n |->
                     IF k = 0 THEN s ELSE RemoveTurn(turns[k - 1], s.grid.rows - k)]
      BY <1>3 DEF RemoveTurns
    <2> HIDE DEF n
    <2>2. turns[0] = s
      BY <1>1, <2>1
    <2>3. \A k \in 1..n : turns[k] = RemoveTurn(turns[k - 1], s.grid.rows - k)
      BY <1>1, <2>1
    <2> QED
      BY <1>1, <2>2, <2>3
  <1> DEFINE T == {k \in Nat : k <= n => Reached(turns[k], k)}
  <1>5. 0 \in T
    <2> DEFINE from == [j \in 1..n |-> j]
    <2>1. Survives(from, s, s, 0)
      BY <1>1 DEF Survives
    <2> HIDE DEF from, n
    <2> QED
      BY <1>4, <2>1
  <1>6. ASSUME NEW k \in T PROVE k + 1 \in T
    <2>1. k \in Nat
      OBVIOUS
    <2> SUFFICES ASSUME k + 1 <= n PROVE Reached(turns[k + 1], k + 1)
      BY <2>1
    <2> DEFINE t == turns[k]
    <2>2. Reached(t, k)
      BY <1>1, <2>1
    <2>3. turns[k + 1] = RemoveTurn(t, n - (k + 1))
      <3>1. k + 1 \in 1..n /\ (k + 1) - 1 = k
        BY <1>1, <2>1
      <3> QED
        BY <1>4, <3>1
    <2>4. k \in 0..n - 1
      BY <1>1, <2>1
    <2> HIDE DEF t
    <2>5. /\ Paired(RemoveTurn(t, Len(s.fields) - (k + 1)))
          /\ \E from : Survives(from, s, RemoveTurn(t, Len(s.fields) - (k + 1)), k + 1)
      BY <2>2, <2>4, RemoveTurnSurvives
    <2> QED
      BY <2>3, <2>5
  <1>7. T = Nat
    <2> HIDE DEF T
    <2>1. T \in SUBSET Nat
      BY DEF T
    <2> QED
      BY <1>5, <1>6, <2>1, Induction
  <1>8. Reached(turns[n], n)
    BY <1>1, <1>7
  <1> QED
    BY <1>1, <1>2, <1>8

LEMMA MWorking ==
  ASSUME MInv
  PROVE  Paired(Table) /\ Table.fields = fields /\ Table.grid = grid
  BY DEF MInv, Paired, Table

\* The end of a removal.
LEMMA MRemoveEnd ==
  ASSUME MInv, NEW s, Paired(s), fields' = s.fields, grid' = s.grid,
         ~InputControl, field' = field
  PROVE  MInv'
  <1>1. field' = NoField
    BY ClosedField
  <1>2. FieldOK'
    BY <1>1 DEF FieldOK, NoField
  <1> QED
    BY <1>2 DEF MInv, Paired, Mirrored

LEMMA MRemoveSelectedStep ==
  ASSUME MInv, RemoveSelected
  PROVE  /\ MInv'
         /\ \E from \in [DOMAIN fields' -> DOMAIN fields] :
             /\ \A j, k \in DOMAIN fields' : j < k => from[j] < from[k]
             /\ Range(from) = {k \in DOMAIN fields : ~grid.sel[k]}
             /\ \A k \in DOMAIN fields' : fields'[k] = fields[from[k]]
         /\ \A k \in DOMAIN grid'.sel : ~grid'.sel[k]
  <1> DEFINE s == RemoveLoop(Table)
             n == Len(fields)
  <1>1. fields' = s.fields /\ grid' = s.grid /\ ~InputControl /\ field' = field
    BY Zenon DEF RemoveSelected
  <1>2. Paired(s) /\ \E from : Survives(from, Table, s, n)
    <2>1. Paired(RemoveLoop(Table))
          /\ \E from : Survives(from, Table, RemoveLoop(Table), Len(Table.fields))
      BY MWorking, RemoveLoopSurvives
    <2> QED
      BY <2>1, MWorking
  <1> HIDE DEF s
  <1>3. PICK from : Survives(from, Table, s, n)
    BY <1>2
  <1>4. /\ DOMAIN fields = 1..n /\ n \in Nat
        /\ DOMAIN fields' = 1..Len(s.fields) /\ Len(s.fields) \in Nat
        /\ DOMAIN grid'.sel = 1..Len(s.fields)
    <2>1. s.grid.sel \in Seq(BOOLEAN) /\ Len(s.grid.sel) = Len(s.fields)
          /\ s.fields \in Seq(FieldTypes)
      BY <1>2, GridOKRecord DEF Paired, Mirrored, GridRecords
    <2>2. fields \in Seq(FieldTypes)
      BY DEF MInv
    <2> QED
      BY <1>1, <2>1, <2>2
  <1>5. /\ from \in [1..Len(s.fields) -> 1..n]
        /\ \A i, j \in 1..Len(s.fields) : i < j => from[i] < from[j]
        /\ \A j \in 1..Len(s.fields) :
              /\ from[j] <= n - n \/ ~grid.sel[from[j]]
              /\ s.fields[j] = fields[from[j]]
              /\ s.grid.sel[j] <=> grid.sel[from[j]]
        /\ \A i \in 1..n : i <= n - n \/ ~grid.sel[i] =>
              \E j \in 1..Len(s.fields) : from[j] = i
    BY <1>3, MWorking, Zenon DEF Survives
  <1>6. \A i \in 1..n : ~(i <= n - n)
    BY <1>4
  <1>7. ASSUME NEW j \in 1..Len(s.fields)
        PROVE  from[j] \in 1..n /\ ~grid.sel[from[j]] /\ ~s.grid.sel[j]
    <2>1. from[j] \in 1..n
      BY <1>5
    <2> QED
      BY <1>5, <1>6, <2>1, Zenon
  <1>8. Range(from) = {k \in DOMAIN fields : ~grid.sel[k]}
    <2>1. DOMAIN from = 1..Len(s.fields)
      BY <1>5
    <2>2. Range(from) = {from[j] : j \in 1..Len(s.fields)}
      BY <2>1, Zenon DEF Range
    <2>3. \A j \in 1..Len(s.fields) : from[j] \in {k \in 1..n : ~grid.sel[k]}
      BY <1>7, Zenon
    <2>4. \A i \in {k \in 1..n : ~grid.sel[k]} : \E j \in 1..Len(s.fields) : from[j] = i
      BY <1>5, Zenon
    <2> QED
      BY <1>4, <2>2, <2>3, <2>4
  <1>9. MInv'
    BY <1>1, <1>2, MRemoveEnd
  <1>10. \A k \in DOMAIN grid'.sel : ~grid'.sel[k]
    BY <1>1, <1>4, <1>7, Zenon
  <1>11. /\ from \in [DOMAIN fields' -> DOMAIN fields]
         /\ \A j, k \in DOMAIN fields' : j < k => from[j] < from[k]
         /\ \A k \in DOMAIN fields' : fields'[k] = fields[from[k]]
    BY <1>1, <1>4, <1>5, Zenon
  <1> QED
    BY <1>8, <1>9, <1>10, <1>11, Zenon

LEMMA MRemoveCursorStep ==
  ASSUME MInv, RemoveCursorAndSelected
  PROVE  MInv'
  <1> DEFINE one == Removed(Table, grid.cursor.row)
             s == RemoveLoop(one)
  <1>1. fields' = s.fields /\ grid' = s.grid /\ ~InputControl /\ field' = field
    BY Zenon DEF RemoveCursorAndSelected
  <1>2. grid.cursor.row \in 0..Len(fields) - 1
    <2>1. G!GridOK(grid) /\ grid.rows = Len(fields) /\ grid.rows > 0
      BY DEF MInv, Mirrored, RemoveCursorAndSelected
    <2> QED
      BY <2>1, GridOKRecord DEF G!AtLeast0, GridRecords
  <1>3. Paired(one)
    BY <1>2, MWorking, RemovedPaired
  <1> HIDE DEF one
  <1>4. Paired(s)
    BY <1>3, RemoveLoopSurvives
  <1> HIDE DEF s
  <1> QED
    BY <1>1, <1>4, MRemoveEnd

-----------------------------------------------------------------------------
(* Theorems about the metadata grid.                                       *)

LEMMA MNextKeeps == MInv /\ [MGNext]_mgvars => MInv'
  <1> SUFFICES ASSUME MInv, [MGNext]_mgvars PROVE MInv'
    OBVIOUS
  <1>1. CASE TableGridKeys
    <2>1. G!GridOK(grid) /\ Shown(grid)
      BY DEF MInv, Mirrored
    <2> QED
      BY <1>1, <2>1, GridKeyKeeps, MGridStep DEF TableGridKeys
  <1>2. CASE NewField
    BY <1>2, MNewFieldStep
  <1>3. CASE RemoveSelected
    BY <1>3, MRemoveSelectedStep
  <1>4. CASE RemoveCursorAndSelected
    BY <1>4, MRemoveCursorStep
  <1>5. ASSUME NEW dynamic \in BOOLEAN, OpenCell(dynamic) PROVE MInv'
    BY <1>5, MOpenCellStep
  <1>6. ASSUME NEW text \in FieldNames \cup Texts, Type(text) PROVE MInv'
    BY <1>6, MTypeStep
  <1>7. CASE AcceptCell
    BY <1>7, MAcceptCellStep
  <1>8. CASE CancelCell
    BY <1>8, MCancelCellStep
  <1>9. ASSUME NEW fit \in Fits, Reflow(fit) PROVE MInv'
    BY <1>9, MReflowStep
  <1>10. CASE UNCHANGED mgvars
    BY <1>10 DEF MInv, Mirrored, FieldOK, mgvars, CellAtCursor
  <1> QED
    BY <1>1, <1>2, <1>3, <1>4, <1>5, <1>6, <1>7, <1>8, <1>9, <1>10 DEF MGNext

LEMMA AlwaysMInv == MGSpec => []MInv
  <1>1. MGInit => MInv
    BY MInitHolds
  <1>2. MInv /\ [MGNext]_mgvars => MInv'
    BY MNextKeeps
  <1> QED
    BY <1>1, <1>2, PTL DEF MGSpec

\* The metadata grid's state has its type (TableGrid.cpp, BasePropView.cpp): the
\* table holds fields with names and values, and the cursor is inside the grid.
THEOREM MetadataTyped == MGSpec => []MGTypeOK
  <1>1. MInv => MGTypeOK
    BY MInvImplies
  <1> QED
    BY <1>1, AlwaysMInv, PTL

\* The notifications BasePropView.cpp binds keep one row, with a selection, for every
\* field of the table, whatever the keys create and remove.
THEOREM MetadataMirrored == MGSpec => []GridMirrorsFields
  <1>1. MInv => GridMirrorsFields
    BY MInvImplies
  <1> QED
    BY <1>1, AlwaysMInv, PTL

\* The row of the cursor is in the window, and the open field over it, whatever
\* comes and goes and however the terminal is resized (adjust_view, reflow_field).
THEOREM MetadataShown == MGSpec => []CursorShown
  <1>1. MInv => CursorShown
    BY MInvImplies
  <1> QED
    BY <1>1, AlwaysMInv, PTL

\* Removing the selected fields removes those and no others, although each
\* notification moves the rows below it before the loop looks at the next.
THEOREM MetadataRemoves == MGSpec => RemovesSelected
  <1>1. MInv /\ [MGNext]_mgvars =>
          [RemoveSelected =>
             /\ \E from \in [DOMAIN fields' -> DOMAIN fields] :
                 /\ \A j, k \in DOMAIN fields' : j < k => from[j] < from[k]
                 /\ Range(from) = {k \in DOMAIN fields : ~grid.sel[k]}
                 /\ \A k \in DOMAIN fields' : fields'[k] = fields[from[k]]
             /\ \A k \in DOMAIN grid'.sel : ~grid'.sel[k]]_mgvars
    BY MRemoveSelectedStep, Zenon
  <1> QED
    BY <1>1, AlwaysMInv, PTL DEF MGSpec, RemovesSelected

\* A cell that is accepted with the text it was opened with is not edited, and a
\* string does not become a number or an object (set_from_bytes of the field's
\* type, TableGrid.cpp).
THEOREM MetadataKeepsCell == MGSpec => AcceptKeepsCell
  <1>1. MInv /\ [MGNext]_mgvars =>
          [AcceptCell /\ fields # <<>> /\ field.type # "dynamic" =>
             LET old == CHOOSE v \in CellAtCursor : TRUE
                 new == CHOOSE v \in CellAtCursor' : TRUE
             IN /\ field.text = TextOf(old) /\ ReadsBack(old) => fields' = fields
                /\ old.kind \in {"string", "object_id"} =>
                      new.kind \in {old.kind, "null"}]_mgvars
    BY CellKept, Zenon
  <1> QED
    BY <1>1, AlwaysMInv, PTL DEF MGSpec, AcceptKeepsCell
=============================================================================
