------------------------------ MODULE ConfigNode ------------------------------
(***************************************************************************)
(* Reading the configuration: the tree of ConfigNodes App declares, the    *)
(* import of a file into it (ConfigNode.cpp), its validation, and what     *)
(* App::init makes of it.  The file is not built beforehand: each step     *)
(* chooses the next thing in it, a value, the beginning of a node or the   *)
(* end of one, and import does what it does on reaching it.  The calls of  *)
(* import that are under way are the open nodes.                           *)
(*                                                                         *)
(* Values are their types.  No entry of App collects values, so an entry   *)
(* has one.                                                                *)
(***************************************************************************)
EXTENDS Naturals, Sequences, FiniteSets

CONSTANT SessionNames       \* names of sessions

Types == {"string", "boolean", "node"}
NoName == ""

\* The entries of each node; "session" stands for the template of "builder".
Entries == [root |-> {}, log |-> {"path"}, term |-> {"info"},
            sessions |-> {"builder"},
            session |-> {"type", "path", "auto-open", "auto-create"}]
Declared == {"log", "term", "sessions"}     \* m_nodes of the root
Optional == {"log", "auto-open", "auto-create"}
Expected(entry) == IF entry \in {"auto-open", "auto-create"} THEN "boolean" ELSE "string"
IsOptional(node, entry) == entry \in Optional \/ node = "log"

\* Names that occur in a node: those declared there, and others.
NamesIn(node) ==
    CASE node = "root" -> Declared \cup {"other"}
      [] node = "sessions" -> SessionNames \cup {"builder", NoName}
      [] OTHER -> Entries[node] \cup {"other"}

VARIABLES
    open,           \* the nodes import is in, the innermost last
    assigned,       \* declared nodes, and "root", with Flags::assigned
    values,         \* the value of each assigned entry of a declared node
    built,          \* the nodes that "builder" has made
    nodeCount,      \* node_count of "builder"
    splice,         \* the node it is making
    outcome         \* how far App::init got

vars == <<open, assigned, values, built, nodeCount, splice, outcome>>

Values(entries) == SUBSET (entries \X Types)
NoSplice == [name |-> NoName, values |-> {}]

TypeOK ==
    /\ open \in {<<>>, <<"root">>, <<"root", "sessions", "session">>}
            \cup {<<"root", n>> : n \in Declared}
    /\ assigned \subseteq Declared \cup {"root"}
    /\ \A n \in Declared : values[n] \subseteq Entries[n] \X Types
    /\ \A b \in built :
        b.name \in NamesIn("sessions") /\ b.index \in Nat /\ b.values \in Values(Entries.session)
    /\ nodeCount \in Nat
    /\ splice.name \in NamesIn("sessions") /\ splice.values \in Values(Entries.session)
    /\ outcome \in {"reading", "imported", "valid", "missing",
                    "unknown", "invalid", "exists", "asserted"}

Init ==
    /\ open = <<"root">>
    /\ assigned = {}
    /\ values = [n \in Declared |-> {}]
    /\ built = {}
    /\ nodeCount = 0
    /\ splice = NoSplice
    /\ outcome = "reading"

Reading == outcome = "reading" /\ open # <<>>
Here == open[Len(open)]
Shut == SubSeq(open, 1, Len(open) - 1)

\* An exception leaves import, in every node it is in, with what was assigned.
Throw(error) ==
    /\ outcome' = error
    /\ open' = <<>>
    /\ UNCHANGED <<assigned, values, built, nodeCount, splice>>

\* Whether the name is that of the entry that makes nodes, directly or because
\* nothing else has it.
MakesNode(name, type) ==
    Here = "sessions" /\ (name = "builder" \/ type = "node")

-----------------------------------------------------------------------------
(* Entry::assign                                                           *)

With(vals, entry, type) == {v \in vals : v[1] # entry} \cup {<<entry, type>>}

\* The last of several values stays.
Assign(entry, type) ==
    /\ Reading /\ entry \in Entries[Here] /\ ~MakesNode(entry, type)
    /\ type = Expected(entry)
    /\ IF Here = "session"
       THEN splice' = [splice EXCEPT !.values = With(@, entry, type)] /\ UNCHANGED values
       ELSE values' = [values EXCEPT ![Here] = With(@, entry, type)] /\ UNCHANGED splice
    /\ UNCHANGED <<open, assigned, built, nodeCount, outcome>>

AssignInvalid(entry, type) ==
    /\ Reading /\ entry \in Entries[Here] /\ ~MakesNode(entry, type)
    /\ type # Expected(entry)
    /\ Throw("invalid")

\* A copy of the template, to be imported into.
BuildNode(name, type) ==
    /\ Reading /\ MakesNode(name, type)
    /\ \/ name = NoName /\ Throw("invalid")
       \/ name # NoName /\ type # "node" /\ Throw("asserted")
       \/ /\ name # NoName /\ type = "node"
          /\ splice' = [name |-> name, values |-> {}]
          /\ open' = Append(open, "session")
          /\ UNCHANGED <<assigned, values, built, nodeCount, outcome>>

\* Mutant: a node whose name is taken is dropped, but counted.
EmplaceDropping ==
    /\ Reading /\ Here = "session"
    /\ built' = IF \E b \in built : b.name = splice.name THEN built
                ELSE built \cup {[name |-> splice.name, index |-> nodeCount,
                                  values |-> splice.values]}
    /\ nodeCount' = nodeCount + 1
    /\ splice' = NoSplice
    /\ open' = Shut
    /\ values' = [values EXCEPT !.sessions = {<<"builder", "node">>}]
    /\ UNCHANGED <<assigned, outcome>>

\* The import into the copy is done: emplace_node and the rest of assign.
Emplace ==
    /\ Reading /\ Here = "session"
    /\ IF \E b \in built : b.name = splice.name
       THEN Throw("exists")
       ELSE /\ built' = built \cup {[name |-> splice.name, index |-> nodeCount,
                                     values |-> splice.values]}
            /\ nodeCount' = nodeCount + 1
            /\ splice' = NoSplice
            /\ open' = Shut
            /\ values' = [values EXCEPT !.sessions = {<<"builder", "node">>}]
            /\ UNCHANGED <<assigned, outcome>>

-----------------------------------------------------------------------------
(* import                                                                  *)

\* Mutant: whether there is such a node is not asked.
EnterAnyNode(name) ==
    /\ Reading /\ Here = "root"
    /\ open' = Append(open, name)
    /\ UNCHANGED <<assigned, values, built, nodeCount, splice, outcome>>

EnterNode(name) ==
    /\ Reading /\ Here = "root" /\ name \in Declared
    /\ open' = Append(open, name)
    /\ UNCHANGED <<assigned, values, built, nodeCount, splice, outcome>>

\* Neither an entry, nor a node to make, nor a node there is.
Unknown(name, type) ==
    /\ Reading /\ ~MakesNode(name, type) /\ name \notin Entries[Here]
    /\ ~(Here = "root" /\ type = "node" /\ name \in Declared)
    /\ Throw("unknown")

\* import returns from a declared node or from the root.
EndNode ==
    /\ Reading /\ Here # "session"
    /\ assigned' = assigned \cup {Here}
    /\ open' = Shut
    /\ outcome' = IF Here = "root" THEN "imported" ELSE outcome
    /\ UNCHANGED <<values, built, nodeCount, splice>>

-----------------------------------------------------------------------------
(* validate, as App::init calls it after the import.                       *)

Assigned(vals) == {v[1] : v \in vals}

\* Every entry is assigned or optional.
Supplied(node, vals) ==
    \A e \in Entries[node] : e \in Assigned(vals) \/ IsOptional(node, e)

\* Mutant: the nodes that were built are not validated.
ValidatesDeclared ==
    /\ "root" \in assigned
    /\ \A n \in Declared :
        (n \in assigned \/ n \in Optional) /\ Supplied(n, values[n])

\* A node that was built is assigned, as import has returned from it.
Validates ==
    /\ "root" \in assigned
    /\ \A n \in Declared :
        (n \in assigned \/ n \in Optional) /\ Supplied(n, values[n])
    /\ \A b \in built : Supplied("session", b.values)

Validate ==
    /\ outcome = "imported"
    /\ outcome' = IF Validates THEN "valid" ELSE "missing"
    /\ UNCHANGED <<open, assigned, values, built, nodeCount, splice>>

Next ==
    \/ /\ Reading
       /\ \E name \in NamesIn(Here), type \in Types :
            \/ Assign(name, type) \/ AssignInvalid(name, type)
            \/ BuildNode(name, type) \/ Unknown(name, type)
    \/ Reading /\ \E name \in NamesIn(Here) : EnterNode(name)
    \/ Emplace \/ EndNode \/ Validate

Spec == Init /\ [][Next]_vars

-----------------------------------------------------------------------------
(* Properties.                                                             *)

\* What App::init reads without a further check: a string for the terminfo, and
\* a type and a path, both strings, for each of at least one session.
Usable ==
    /\ <<"info", "string">> \in values.term
    /\ built # {}
    /\ \A b \in built : {<<"type", "string">>, <<"path", "string">>} \subseteq b.values

\* A configuration that was imported is valid exactly when App::init can use it:
\* whatever is left out, given twice, or spread over several nodes of one name,
\* and a node that is optional may be absent.
ValidIfUsable ==
    /\ outcome = "valid" => Usable
    /\ outcome = "missing" => ~Usable

\* The sessions are put into a vector of node_count pointers by their index
\* (App.cpp:419) and every pointer is followed: whatever sessions the file has, and
\* however often a name, the indices are those below node_count, each once.
IndicesFill ==
    /\ Cardinality(built) = nodeCount
    /\ {b.index : b \in built} = 0..nodeCount - 1

\* import asserts that it is given a node (ConfigNode.cpp:94).
ImportsNodes == outcome # "asserted"
=============================================================================
