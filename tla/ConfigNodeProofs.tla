--------------------------- MODULE ConfigNodeProofs ---------------------------
(***************************************************************************)
(* Theorems about ConfigNode, for any names of sessions.                   *)
(***************************************************************************)
EXTENDS ConfigNode, Integers, FiniteSetTheorems, SequenceTheorems, TLAPS

\* What can be assigned in a node.
Pairs(node) ==
    IF node = "sessions" THEN {<<"builder", "node">>}
    ELSE {<<e, Expected(e)>> : e \in Entries[node]}

\* import is in the node n, or in one that is made for it.
Inside(n) ==
    \/ open = <<"root", n>>
    \/ n = "sessions" /\ open = <<"root", "sessions", "session">>

Splices == [name : NamesIn("sessions"), values : SUBSET Pairs("session")]
BuiltNodes == [name : NamesIn("sessions"), index : Nat, values : SUBSET Pairs("session")]
Outcomes == {"reading", "imported", "valid", "missing", "unknown", "invalid", "exists",
             "asserted"}

Shape ==
    /\ open \in {<<>>, <<"root">>, <<"root", "sessions", "session">>}
            \cup {<<"root", n>> : n \in Declared}
    /\ assigned \subseteq Declared \cup {"root"}
    /\ outcome \in Outcomes

AllPairs == UNION {Pairs(n) : n \in Declared}

Typed ==
    /\ values \in [Declared -> SUBSET AllPairs]
    /\ \A n \in Declared : values[n] \subseteq Pairs(n)
    /\ splice \in Splices
    /\ built \subseteq BuiltNodes
    /\ nodeCount \in Nat

\* "builder" is assigned as soon as there is a session, and there is none that
\* is not counted.
Counted ==
    /\ IsFiniteSet(built)
    /\ IndicesFill
    /\ built # {} <=> values["sessions"] # {}

\* What was assigned lies in nodes import has returned from or is still in.
Returned ==
    outcome \in {"reading", "imported"} =>
        /\ outcome = "reading" <=> open # <<>>
        /\ \A n \in Declared : values[n] # {} => n \in assigned \/ Inside(n)
        /\ outcome = "imported" => "root" \in assigned

IInv == Shape /\ Typed /\ Counted /\ Returned /\ ValidIfUsable

-----------------------------------------------------------------------------
(* The nodes.                                                              *)

LEMMA NodeEntries ==
    /\ Entries["root"] = {} /\ Entries["log"] = {"path"} /\ Entries["term"] = {"info"}
    /\ Entries["sessions"] = {"builder"}
    /\ Entries["session"] = {"type", "path", "auto-open", "auto-create"}
  BY DEF Entries

LEMMA NodePairs ==
    /\ Pairs("log") = {<<"path", "string">>} /\ Pairs("term") = {<<"info", "string">>}
    /\ Pairs("sessions") = {<<"builder", "node">>}
    /\ Pairs("session") = {<<"type", "string">>, <<"path", "string">>,
                           <<"auto-open", "boolean">>, <<"auto-create", "boolean">>}
  BY NodeEntries DEF Pairs, Expected

LEMMA PairTypes == \A n \in Declared \cup {"session"} : Pairs(n) \subseteq Entries[n] \X Types
  BY NodeEntries, NodePairs DEF Declared, Types

LEMMA InvTypes == IInv => TypeOK
  <1> SUFFICES ASSUME IInv PROVE TypeOK
    OBVIOUS
  <1>1. \A n \in Declared : values[n] \subseteq Entries[n] \X Types
    BY PairTypes DEF IInv, Typed
  <1>2. Entries.session = Entries["session"]
    BY DEF Entries
  <1>3. \A v : v \in SUBSET Pairs("session") => v \in Values(Entries.session)
    BY <1>2, PairTypes DEF Values
  <1>4. \A b \in built : b.name \in NamesIn("sessions") /\ b.index \in Nat
                         /\ b.values \in SUBSET Pairs("session")
    BY DEF IInv, Typed, BuiltNodes
  <1>5. splice.name \in NamesIn("sessions") /\ splice.values \in SUBSET Pairs("session")
    BY DEF IInv, Typed, Splices
  <1>6. \A b \in built : b.values \in Values(Entries.session)
    BY <1>3, <1>4
  <1>7. splice.values \in Values(Entries.session)
    BY <1>3, <1>5
  <1> QED BY <1>1, <1>4, <1>5, <1>6, <1>7 DEF TypeOK, IInv, Shape, Typed, Outcomes

LEMMA Front2 ==
  ASSUME NEW a, NEW b
  PROVE  SubSeq(<<a, b>>, 1, 1) = <<a>>
  <1> DEFINE S == {a, b}
             s == SubSeq(<<a, b>>, 1, 1)
             t == <<a>>
  <1>s. a \in S /\ b \in S
    OBVIOUS
  <1> HIDE DEF S
  <1>1. /\ <<a, b>> \in Seq(S) /\ Len(<<a, b>>) = 2
        /\ <<a, b>>[1] = a /\ <<a, b>>[2] = b
    BY <1>s
  <1>2. s \in Seq(S) /\ Len(s) = 1 /\ s[1] = a
    BY <1>1, <1>s
  <1>3. t \in Seq(S) /\ Len(t) = 1 /\ t[1] = a
    BY <1>s
  <1> HIDE DEF s, t
  <1>4. s = t
    BY <1>2, <1>3, SeqEqual
  <1> QED BY <1>4 DEF s, t

LEMMA Front3 ==
  ASSUME NEW a, NEW b, NEW c
  PROVE  SubSeq(<<a, b, c>>, 1, 2) = <<a, b>>
  <1> DEFINE S == {a, b, c}
             s == SubSeq(<<a, b, c>>, 1, 2)
             t == <<a, b>>
  <1>s. a \in S /\ b \in S /\ c \in S
    OBVIOUS
  <1> HIDE DEF S
  <1>1. /\ <<a, b, c>> \in Seq(S) /\ Len(<<a, b, c>>) = 3
        /\ <<a, b, c>>[1] = a /\ <<a, b, c>>[2] = b /\ <<a, b, c>>[3] = c
    BY <1>s
  <1>2. s \in Seq(S) /\ Len(s) = 2 /\ s[1] = a /\ s[2] = b
    BY <1>1, <1>s
  <1>3. t \in Seq(S) /\ Len(t) = 2 /\ t[1] = a /\ t[2] = b
    BY <1>s
  <1> HIDE DEF s, t
  <1>4. s = t
    BY <1>2, <1>3, SeqEqual
  <1> QED BY <1>4 DEF s, t

LEMMA Append1 ==
  ASSUME NEW a, NEW b
  PROVE  Append(<<a>>, b) = <<a, b>>
  <1> DEFINE S == {a, b}
             s == Append(<<a>>, b)
             t == <<a, b>>
  <1>s. a \in S /\ b \in S
    OBVIOUS
  <1> HIDE DEF S
  <1>1. <<a>> \in Seq(S) /\ Len(<<a>>) = 1 /\ <<a>>[1] = a
    BY <1>s
  <1>2. s \in Seq(S) /\ Len(s) = 2 /\ s[1] = a /\ s[2] = b
    BY <1>1, <1>s
  <1>3. t \in Seq(S) /\ Len(t) = 2 /\ t[1] = a /\ t[2] = b
    BY <1>s
  <1> HIDE DEF s, t
  <1>4. s = t
    BY <1>2, <1>3, SeqEqual
  <1> QED BY <1>4 DEF s, t

LEMMA Append2 ==
  ASSUME NEW a, NEW b, NEW c
  PROVE  Append(<<a, b>>, c) = <<a, b, c>>
  <1> DEFINE S == {a, b, c}
             s == Append(<<a, b>>, c)
             t == <<a, b, c>>
  <1>s. a \in S /\ b \in S /\ c \in S
    OBVIOUS
  <1> HIDE DEF S
  <1>1. <<a, b>> \in Seq(S) /\ Len(<<a, b>>) = 2 /\ <<a, b>>[1] = a /\ <<a, b>>[2] = b
    BY <1>s
  <1>2. s \in Seq(S) /\ Len(s) = 3 /\ s[1] = a /\ s[2] = b /\ s[3] = c
    BY <1>1, <1>s
  <1>3. t \in Seq(S) /\ Len(t) = 3 /\ t[1] = a /\ t[2] = b /\ t[3] = c
    BY <1>s
  <1> HIDE DEF s, t
  <1>4. s = t
    BY <1>2, <1>3, SeqEqual
  <1> QED BY <1>4 DEF s, t

LEMMA OpenShape ==
  ASSUME Shape, Reading
  PROVE  \/ open = <<"root">> /\ Here = "root" /\ Shut = <<>>
         \/ \E n \in Declared : open = <<"root", n>> /\ Here = n /\ Shut = <<"root">>
         \/ /\ open = <<"root", "sessions", "session">>
            /\ Here = "session" /\ Shut = <<"root", "sessions">>
  <1>1. CASE open = <<"root">>
    BY <1>1 DEF Here, Shut
  <1>2. ASSUME NEW n \in Declared, open = <<"root", n>>
        PROVE  Here = n /\ Shut = <<"root">>
    <2>1. SubSeq(<<"root", n>>, 1, 1) = <<"root">>
      BY Front2
    <2> QED BY <1>2, <2>1 DEF Here, Shut
  <1>3. CASE open = <<"root", "sessions", "session">>
    <2>1. SubSeq(<<"root", "sessions", "session">>, 1, 2) = <<"root", "sessions">>
      BY Front3
    <2> QED BY <1>3, <2>1 DEF Here, Shut
  <1> QED BY <1>1, <1>2, <1>3 DEF Shape, Reading

-----------------------------------------------------------------------------
(* The steps.                                                              *)

LEMMA Frame ==
  ASSUME IInv, UNCHANGED <<values, splice, built, nodeCount>>
  PROVE  Typed' /\ Counted'
  BY DEF IInv, Typed, Counted, IndicesFill

LEMMA Undecided ==
  ASSUME outcome' \notin {"valid", "missing"}
  PROVE  ValidIfUsable'
  BY DEF ValidIfUsable

LEMMA InitInv == Init => IInv
  <1> SUFFICES ASSUME Init PROVE IInv
    OBVIOUS
  <1>1. Shape
    BY DEF Init, Shape, Outcomes
  <1>2. Typed
    BY DEF Init, Typed, Splices, NoSplice, NamesIn, NoName
  <1>3. Counted
    <2>1. IsFiniteSet({}) /\ Cardinality({}) = 0
      BY FS_EmptySet
    <2>2. 0..0 - 1 = {}
      OBVIOUS
    <2>3. {b.index : b \in {}} = {}
      OBVIOUS
    <2> QED BY <2>1, <2>2, <2>3 DEF Init, Counted, IndicesFill, Declared
  <1>4. Returned
    BY DEF Init, Returned
  <1>5. ValidIfUsable
    BY DEF Init, ValidIfUsable
  <1> QED BY <1>1, <1>2, <1>3, <1>4, <1>5 DEF IInv

LEMMA ThrowStep ==
  ASSUME IInv, NEW error \in {"unknown", "invalid", "exists", "asserted"}, Throw(error)
  PROVE  IInv'
  <1>1. Shape'
    BY DEF IInv, Shape, Throw, Outcomes
  <1>2. Typed' /\ Counted'
    BY Frame DEF Throw
  <1>3. Returned' /\ ValidIfUsable'
    BY Undecided DEF Throw, Returned
  <1> QED BY <1>1, <1>2, <1>3 DEF IInv

LEMMA AssignStep ==
  ASSUME IInv, NEW entry, NEW type \in Types, Assign(entry, type)
  PROVE  IInv'
  <1>1. Shape /\ Reading /\ outcome = "reading"
    BY DEF IInv, Assign, Reading
  <1>2. Shape' /\ ValidIfUsable'
    BY <1>1, Undecided DEF Assign, Shape
  <1>4. CASE Here = "session"
    <2>1. <<entry, type>> \in Pairs("session")
      BY <1>4, NodeEntries, NodePairs DEF Assign, Expected
    <2>2. With(splice.values, entry, type) \subseteq Pairs("session")
      BY <2>1 DEF With, IInv, Typed, Splices
    <2>3. splice' = [splice EXCEPT !.values = With(splice.values, entry, type)]
      BY <1>4 DEF Assign, IInv, Typed, Splices
    <2>4. splice' \in Splices
      BY <2>2, <2>3 DEF IInv, Typed, Splices
    <2>5. UNCHANGED <<values, built, nodeCount, open, assigned, outcome>>
      BY <1>4 DEF Assign
    <2>6. Typed'
      BY <2>4, <2>5 DEF IInv, Typed
    <2>7. Counted'
      BY <2>5 DEF IInv, Counted, IndicesFill
    <2>8. Returned'
      BY <2>5 DEF IInv, Returned, Inside
    <2> QED BY <1>2, <2>6, <2>7, <2>8 DEF IInv
  <1>5. CASE Here # "session"
    <2>1. PICK n \in Declared : open = <<"root", n>> /\ Here = n
      BY <1>1, <1>5, OpenShape, NodeEntries DEF Assign
    <2>2. n # "sessions" /\ n \in {"log", "term"}
      BY <2>1, NodeEntries DEF Assign, MakesNode, Declared
    <2>3. <<entry, type>> \in Pairs(n)
      BY <2>1, <2>2, NodeEntries, NodePairs DEF Assign, Expected
    <2>4. /\ values' = [values EXCEPT ![n] = With(values[n], entry, type)]
          /\ UNCHANGED <<splice, open, assigned, built, nodeCount, outcome>>
      BY <1>5, <2>1 DEF Assign
    <2>5. With(values[n], entry, type) \subseteq Pairs(n)
      BY <2>3 DEF With, IInv, Typed
    <2>6. With(values[n], entry, type) \subseteq AllPairs
      BY <2>5 DEF AllPairs
    <2>7. /\ values' \in [Declared -> SUBSET AllPairs]
          /\ values'[n] = With(values[n], entry, type)
          /\ \A m \in Declared : m # n => values'[m] = values[m]
      BY <2>4, <2>6 DEF IInv, Typed
    <2>8. Typed'
      BY <2>4, <2>5, <2>7 DEF IInv, Typed
    <2>9. values'["sessions"] = values["sessions"]
      BY <2>2, <2>7 DEF Declared
    <2>10. Counted'
      BY <2>4, <2>9 DEF IInv, Counted, IndicesFill
    <2>11. Returned'
      <3>1. \A m \in Declared : values'[m] # {} => m \in assigned \/ Inside(m)
        BY <1>1, <2>1, <2>7 DEF IInv, Returned, Inside
      <3> QED BY <1>1, <2>4, <3>1 DEF IInv, Returned, Inside
    <2> QED BY <1>2, <2>8, <2>10, <2>11 DEF IInv
  <1> QED BY <1>4, <1>5

LEMMA BuildNodeStep ==
  ASSUME IInv, Reading, NEW name \in NamesIn(Here), NEW type \in Types, BuildNode(name, type)
  PROVE  IInv'
  <1>1. Shape /\ outcome = "reading" /\ Here = "sessions"
    BY DEF IInv, BuildNode, Reading, MakesNode
  <1>2. CASE Throw("invalid") \/ Throw("asserted")
    BY <1>2, ThrowStep
  <1>3. CASE /\ splice' = [name |-> name, values |-> {}]
             /\ open' = Append(open, "session")
             /\ UNCHANGED <<assigned, values, built, nodeCount, outcome>>
    <2>1. open = <<"root", "sessions">>
      BY <1>1, OpenShape
    <2>2. open' = <<"root", "sessions", "session">>
      BY <1>3, <2>1, Append2
    <2>3. Shape' /\ ValidIfUsable'
      BY <1>1, <1>3, <2>2, Undecided DEF Shape
    <2>4. splice' \in Splices
      BY <1>1, <1>3 DEF Splices
    <2>5. Typed'
      BY <1>3, <2>4 DEF IInv, Typed
    <2>6. Counted'
      BY <1>3 DEF IInv, Counted, IndicesFill
    <2>7. \A n \in Declared : Inside(n) => Inside(n)'
      BY <2>1, <2>2 DEF Inside, Declared
    <2>8. Returned'
      BY <1>1, <1>3, <2>2, <2>7 DEF IInv, Returned
    <2> QED BY <2>3, <2>5, <2>6, <2>8 DEF IInv
  <1> QED BY <1>2, <1>3 DEF BuildNode

LEMMA EmplaceStep ==
  ASSUME IInv, Emplace
  PROVE  IInv'
  <1> DEFINE new == [name |-> splice.name, index |-> nodeCount, values |-> splice.values]
  <1>1. Shape /\ Reading /\ outcome = "reading" /\ Here = "session"
    BY DEF IInv, Emplace, Reading
  <1>2. CASE Throw("exists")
    BY <1>2, ThrowStep
  <1>3. CASE /\ built' = built \cup {new}
             /\ nodeCount' = nodeCount + 1
             /\ splice' = NoSplice
             /\ open' = Shut
             /\ values' = [values EXCEPT !["sessions"] = {<<"builder", "node">>}]
             /\ UNCHANGED <<assigned, outcome>>
    <2>1. open = <<"root", "sessions", "session">> /\ open' = <<"root", "sessions">>
      BY <1>1, <1>3, OpenShape DEF Declared
    <2>2. Shape' /\ ValidIfUsable'
      BY <1>1, <1>3, <2>1, Undecided DEF Shape, Declared
    <2>3. /\ new \in BuiltNodes /\ new.index = nodeCount
          /\ nodeCount \in Nat /\ nodeCount' \in Nat /\ splice' \in Splices
      <3>1. splice.name \in NamesIn("sessions") /\ splice.values \in SUBSET Pairs("session")
        BY DEF IInv, Typed, Splices
      <3>2. nodeCount \in Nat
        BY DEF IInv, Typed
      <3>3. NoSplice \in Splices
        BY DEF NoSplice, Splices, NamesIn, NoName
      <3>4. new \in BuiltNodes /\ new.index = nodeCount
        BY <3>1, <3>2 DEF BuiltNodes
      <3> QED BY <1>3, <3>2, <3>3, <3>4
    <2> HIDE DEF new
    <2>4. {<<"builder", "node">>} \subseteq AllPairs
      BY NodePairs DEF AllPairs, Declared
    <2>5. /\ values' \in [Declared -> SUBSET AllPairs]
          /\ values'["sessions"] = {<<"builder", "node">>}
          /\ \A n \in Declared : n # "sessions" => values'[n] = values[n]
      BY <1>3, <2>4 DEF IInv, Typed, Declared
    <2>6. Typed'
      BY <1>3, <2>3, <2>5, NodePairs DEF IInv, Typed
    <2>7. /\ IsFiniteSet(built) /\ Cardinality(built) = nodeCount
          /\ {b.index : b \in built} = 0..nodeCount - 1
      BY DEF IInv, Counted, IndicesFill
    <2>8. new \notin built
      <3>1. ASSUME new \in built PROVE FALSE
        <4>1. nodeCount \in 0..nodeCount - 1
          BY <2>3, <2>7, <3>1
        <4> QED BY <2>3, <4>1
      <3> QED BY <3>1
    <2>9. IsFiniteSet(built') /\ Cardinality(built') = nodeCount'
      <3>1. IsFiniteSet(built \cup {new}) /\ Cardinality(built \cup {new}) = Cardinality(built) + 1
        BY <2>7, <2>8, FS_AddElement
      <3> QED BY <1>3, <2>7, <3>1
    <2>10. {b.index : b \in built'} = 0..nodeCount' - 1
      <3>1. {b.index : b \in built \cup {new}} = {b.index : b \in built} \cup {new.index}
        OBVIOUS
      <3>2. 0..(nodeCount + 1) - 1 = (0..nodeCount - 1) \cup {nodeCount}
        BY <2>3
      <3> QED BY <1>3, <2>3, <2>7, <3>1, <3>2
    <2>11. Counted'
      BY <1>3, <2>5, <2>9, <2>10 DEF Counted, IndicesFill
    <2>12. \A n \in Declared : Inside(n) => Inside(n)'
      BY <2>1 DEF Inside, Declared
    <2>13. Inside("sessions")'
      BY <2>1 DEF Inside
    <2>14. Returned'
      BY <1>1, <1>3, <2>1, <2>5, <2>12, <2>13 DEF IInv, Returned
    <2> QED BY <2>2, <2>6, <2>11, <2>14 DEF IInv
  <1> QED BY <1>2, <1>3 DEF Emplace

LEMMA EnterStep ==
  ASSUME IInv, NEW name, EnterNode(name)
  PROVE  IInv'
  <1>1. Shape /\ Reading /\ outcome = "reading" /\ Here = "root" /\ name \in Declared
    BY DEF IInv, EnterNode, Reading
  <1>2. open = <<"root">>
    BY <1>1, OpenShape DEF Declared
  <1>3. open' = <<"root", name>>
    BY <1>2, Append1 DEF EnterNode
  <1>4. Shape' /\ ValidIfUsable'
    BY <1>1, <1>3, Undecided DEF EnterNode, Shape
  <1>5. Typed' /\ Counted'
    BY Frame DEF EnterNode
  <1>6. \A n \in Declared : ~Inside(n)
    BY <1>2 DEF Inside
  <1>7. Returned'
    BY <1>1, <1>3, <1>6 DEF EnterNode, IInv, Returned
  <1> QED BY <1>4, <1>5, <1>7 DEF IInv

LEMMA EndStep ==
  ASSUME IInv, EndNode
  PROVE  IInv'
  <1>1. Shape /\ Reading /\ outcome = "reading" /\ Here # "session"
    BY DEF IInv, EndNode, Reading
  <1>2. Typed' /\ Counted'
    BY Frame DEF EndNode
  <1>3. CASE Here = "root"
    <2>1. open = <<"root">> /\ open' = <<>> /\ outcome' = "imported" /\ "root" \in assigned'
      BY <1>1, <1>3, OpenShape DEF EndNode, Declared
    <2>2. Shape' /\ ValidIfUsable'
      BY <1>1, <1>3, <2>1, Undecided DEF EndNode, Shape, Outcomes
    <2>3. \A n \in Declared : ~Inside(n)
      BY <2>1 DEF Inside
    <2>4. Returned'
      BY <1>1, <2>1, <2>3 DEF EndNode, IInv, Returned
    <2> QED BY <1>2, <2>2, <2>4 DEF IInv
  <1>4. CASE Here # "root"
    <2>1. PICK n \in Declared : open = <<"root", n>> /\ Here = n /\ Shut = <<"root">>
      BY <1>1, <1>4, OpenShape
    <2>2. open' = <<"root">> /\ outcome' = "reading" /\ assigned' = assigned \cup {n}
      BY <1>1, <1>4, <2>1 DEF EndNode
    <2>3. Shape' /\ ValidIfUsable'
      BY <1>1, <2>2, Undecided DEF Shape
    <2>4. \A m \in Declared : Inside(m) => m = n
      BY <2>1 DEF Inside
    <2>5. Returned'
      BY <1>1, <2>2, <2>4 DEF EndNode, IInv, Returned
    <2> QED BY <1>2, <2>3, <2>5 DEF IInv
  <1> QED BY <1>3, <1>4

\* After an import whose nodes have all returned, validate asks for exactly
\* what App::init reads.
LEMMA ValidatesUsable ==
  ASSUME IInv, outcome = "imported"
  PROVE  Validates <=> Usable
  <1>1. /\ \A n \in Declared : values[n] # {} => n \in assigned
        /\ "root" \in assigned
    BY DEF IInv, Returned, Inside
  <1>2. /\ values["term"] \subseteq {<<"info", "string">>}
        /\ values["sessions"] \subseteq {<<"builder", "node">>}
    BY NodePairs DEF IInv, Typed, Declared
  <1>3. Supplied("log", values["log"])
    BY DEF Supplied, IsOptional
  <1>4. Supplied("term", values["term"]) <=> <<"info", "string">> \in values["term"]
    <2>1. Supplied("term", values["term"]) <=> "info" \in Assigned(values["term"])
      BY NodeEntries DEF Supplied, IsOptional, Optional
    <2>2. "info" \in Assigned(values["term"]) <=> <<"info", "string">> \in values["term"]
      BY <1>2 DEF Assigned
    <2> QED BY <2>1, <2>2
  <1>5. Supplied("sessions", values["sessions"]) <=> values["sessions"] # {}
    <2>1. Supplied("sessions", values["sessions"]) <=> "builder" \in Assigned(values["sessions"])
      BY NodeEntries DEF Supplied, IsOptional, Optional
    <2>2. "builder" \in Assigned(values["sessions"]) <=> values["sessions"] # {}
      BY <1>2 DEF Assigned
    <2> QED BY <2>1, <2>2
  <1>6. values["sessions"] # {} <=> built # {}
    BY DEF IInv, Counted
  <1>7. ASSUME NEW b \in built
        PROVE  Supplied("session", b.values) <=>
                  {<<"type", "string">>, <<"path", "string">>} \subseteq b.values
    <2>1. b.values \subseteq {<<"type", "string">>, <<"path", "string">>,
                              <<"auto-open", "boolean">>, <<"auto-create", "boolean">>}
      BY NodePairs DEF IInv, Typed, BuiltNodes
    <2>2. Supplied("session", b.values) <=>
             "type" \in Assigned(b.values) /\ "path" \in Assigned(b.values)
      BY NodeEntries DEF Supplied, IsOptional, Optional
    <2>3. /\ "type" \in Assigned(b.values) <=> <<"type", "string">> \in b.values
          /\ "path" \in Assigned(b.values) <=> <<"path", "string">> \in b.values
      BY <2>1 DEF Assigned
    <2> QED BY <2>2, <2>3
  <1>8. Validates <=> /\ "term" \in assigned /\ "sessions" \in assigned
                      /\ Supplied("term", values["term"])
                      /\ Supplied("sessions", values["sessions"])
                      /\ \A b \in built : Supplied("session", b.values)
    BY <1>1, <1>3 DEF Validates, Declared, Optional
  <1>9. Usable <=> /\ <<"info", "string">> \in values["term"]
                   /\ built # {}
                   /\ \A b \in built :
                         {<<"type", "string">>, <<"path", "string">>} \subseteq b.values
    BY DEF Usable
  <1>10. /\ <<"info", "string">> \in values["term"] => "term" \in assigned
         /\ built # {} => "sessions" \in assigned
    BY <1>1, <1>6 DEF Declared
  <1> QED BY <1>4, <1>5, <1>6, <1>7, <1>8, <1>9, <1>10

LEMMA ValidateStep ==
  ASSUME IInv, Validate
  PROVE  IInv'
  <1>1. outcome = "imported" /\ UNCHANGED <<open, assigned, values, built, nodeCount, splice>>
    BY DEF Validate
  <1>2. Shape' /\ Returned'
    BY <1>1 DEF Validate, IInv, Shape, Outcomes, Returned
  <1>3. Typed' /\ Counted'
    BY <1>1, Frame
  <1>4. Usable' <=> Usable
    BY <1>1 DEF Usable
  <1>5. ValidIfUsable'
    BY <1>1, <1>4, ValidatesUsable DEF Validate, ValidIfUsable
  <1> QED BY <1>2, <1>3, <1>5 DEF IInv

LEMMA NextInv == IInv /\ [Next]_vars => IInv'
  <1> SUFFICES ASSUME IInv, [Next]_vars PROVE IInv'
    OBVIOUS
  <1>1. CASE UNCHANGED vars
    <2>1. Shape' /\ Returned'
      BY <1>1 DEF vars, IInv, Shape, Returned, Inside
    <2>2. ValidIfUsable'
      BY <1>1 DEF vars, IInv, ValidIfUsable, Usable
    <2>3. Typed' /\ Counted'
      BY <1>1, Frame DEF vars
    <2> QED BY <2>1, <2>2, <2>3 DEF IInv
  <1>2. ASSUME Reading, NEW name \in NamesIn(Here), NEW type \in Types,
               \/ Assign(name, type) \/ AssignInvalid(name, type)
               \/ BuildNode(name, type) \/ Unknown(name, type)
        PROVE  IInv'
    <2>1. CASE Assign(name, type)
      BY <2>1, AssignStep
    <2>2. CASE AssignInvalid(name, type)
      BY <2>2, ThrowStep DEF AssignInvalid
    <2>3. CASE BuildNode(name, type)
      BY <1>2, <2>3, BuildNodeStep
    <2>4. CASE Unknown(name, type)
      BY <2>4, ThrowStep DEF Unknown
    <2> QED BY <1>2, <2>1, <2>2, <2>3, <2>4
  <1>3. ASSUME NEW name, EnterNode(name) PROVE IInv'
    BY <1>3, EnterStep
  <1> QED BY <1>1, <1>2, <1>3, EmplaceStep, EndStep, ValidateStep DEF Next

LEMMA Invariance == Spec => []IInv
  BY InitInv, NextInv, PTL DEF Spec

\* Every variable of the import keeps its type.
THEOREM TypeCorrect == Spec => []TypeOK
  BY Invariance, InvTypes, PTL

\* Whatever is in the file, the sessions that were built fill the indices below
\* node_count, by which App::init puts them into a vector.
THEOREM IndicesAreFilled == Spec => []IndicesFill
  <1>1. IInv => IndicesFill
    BY DEF IInv, Counted
  <1> QED BY <1>1, Invariance, PTL

\* Whatever is in the file, validate accepts exactly the configurations that
\* App::init can use.
THEOREM ValidIsUsable == Spec => []ValidIfUsable
  <1>1. IInv => ValidIfUsable
    BY DEF IInv
  <1> QED BY <1>1, Invariance, PTL
=============================================================================
