--------------------------- MODULE MCMetadataGrid ---------------------------
(* An instance of MetadataGrid for TLC: one of two numbers is printed as the    *)
(* other, and one of two objects is gone.                                       *)
EXTENDS MetadataGrid

CONSTANTS one, near, digits, signs, object, gone, path, lost

MCPrinted == [n \in Numbers |-> digits]
MCReadFrom == [t \in Texts \cup FieldNames |-> IF t = digits THEN Number(one) ELSE String(t)]
MCPathTo == [id \in Ids |-> IF id = object THEN path ELSE IF id = gone THEN lost ELSE Empty]
MCFindPath == [t \in Texts \cup FieldNames |-> IF t = path THEN object ELSE NullId]
=============================================================================
